----------------------------- MODULE SessionProof -----------------------------
(***************************************************************************)
(* Proofs about sessions, for any number of windows, trends and restores,  *)
(* any registers and settings: what is on the screen is what the program   *)
(* knows, every dialog is set up and reported closed once, a session is    *)
(* restored exactly, and one that cannot be leaves the settings alone.     *)
(***************************************************************************)
EXTENDS Session, BoundedInduction, FiniteSetTheorems, SequenceTheorems

-----------------------------------------------------------------------------
(* The life of a dialog.                                                   *)

LEMMA DialogLife ==
    /\ showEvent(NewDialog) = Shown /\ Shown # Closed
    /\ Shown.visible /\ ~Closed.visible
    /\ Shown.setups = 1 /\ Closed.setups = 1 /\ Shown.closes = 0 /\ Closed.closes = 1
    /\ closeEvent(Shown) = Closed /\ closeEvent(Closed) = Closed /\ rejected(Shown) = Closed
<1>1. Shown = [first_display |-> FALSE, emit_close |-> TRUE, visible |-> TRUE,
               setups |-> 1, closes |-> 0]
  <2>1. NewDialog.first_display /\ NewDialog.setups + 1 = 1
    BY DEF NewDialog
  <2>2. Shown = [NewDialog EXCEPT !.first_display = FALSE, !.setups = 1, !.visible = TRUE]
    BY <2>1 DEF Shown, showEvent
  <2> QED
    BY <2>2 DEF NewDialog
<1>2. rejected(Shown) = [first_display |-> FALSE, emit_close |-> FALSE, visible |-> FALSE,
                         setups |-> 1, closes |-> 1]
  <2>1. Shown.emit_close /\ Shown.closes + 1 = 1
    BY <1>1
  <2>2. EmitClosed(Shown) = [Shown EXCEPT !.emit_close = FALSE, !.closes = 1]
    BY <2>1 DEF EmitClosed
  <2>3. EmitClosed(Shown) = [first_display |-> FALSE, emit_close |-> FALSE, visible |-> TRUE,
                             setups |-> 1, closes |-> 1]
    BY <1>1, <2>2
  <2> DEFINE e == EmitClosed(Shown)
  <2>4. rejected(Shown) = [e EXCEPT !.visible = FALSE]
    BY DEF rejected
  <2> HIDE DEF e
  <2>5. e = [first_display |-> FALSE, emit_close |-> FALSE, visible |-> TRUE,
             setups |-> 1, closes |-> 1]
    BY <2>3 DEF e
  <2> QED
    BY <2>4, <2>5
<1>3. closeEvent(Shown) = rejected(Shown)
  BY <1>1, <1>2 DEF closeEvent, EmitClosed
<1>4. closeEvent(Closed) = Closed
  BY <1>2, <1>3 DEF closeEvent, EmitClosed, Closed
<1> QED
  BY <1>1, <1>2, <1>3, <1>4 DEF Closed, Shown

-----------------------------------------------------------------------------
(* Windows and trends, between the steps of a handler.                     *)

WindowSet == [config : Configs \cup {NoConfig}, dialog : {Shown, Closed}, wired : BOOLEAN]
TrendSet == [dialog : {Shown, Closed}, wired : BOOLEAN]

\* The windows on the screen are those the program knows.
WindowsKnown(s) ==
    /\ s \in UI
    /\ s.registered \subseteq DOMAIN s.windows
    /\ \A id \in s.registered :
          s.windows[id].config \in Configs /\ s.windows[id].dialog = Shown /\ s.windows[id].wired
    /\ \A id \in DOMAIN s.windows \ s.registered :
          s.windows[id].dialog = Closed /\ ~s.windows[id].wired

\* Of the trends that are not forgotten only the program's is on the screen.
TrendsKnown(s, left) ==
    /\ s.trend \in {NoTrend} \cup DOMAIN s.trends
    /\ s.trend # NoTrend => s.trends[s.trend].dialog = Shown /\ s.trends[s.trend].wired
    /\ \A id \in DOMAIN s.trends \ (left \cup {s.trend}) :
          s.trends[id].dialog = Closed /\ ~s.trends[id].wired

\* What is not a window stays.
WindowsOnly(s, t) ==
    t.trends = s.trends /\ t.trend = s.trend /\ t.trend_menu = s.trend_menu /\ t.settings = s.settings

\* A handler that only changes trends.
TrendsOnly(s, t) ==
    t.windows = s.windows /\ t.registered = s.registered /\ t.settings = s.settings

\* A function on an initial segment of the naturals is a sequence.
LEMMA FunctionIsSeq ==
    ASSUME NEW S, NEW n \in Nat, NEW f \in [1..n -> S]
    PROVE  f \in Seq(S) /\ Len(f) = n /\ DOMAIN f = 1..n
OBVIOUS

LEMMA UIFields ==
    ASSUME NEW s \in UI
    PROVE  /\ s.windows \in Seq(WindowSet) /\ s.registered \subseteq Nat
           /\ s.trends \in Seq(TrendSet) /\ s.trend \in Nat
           /\ s.trend_menu \in BOOLEAN /\ s.settings \in [timeout : Int, port : Int]
BY DEF UI, WindowSet, TrendSet

WithWindows(s, windows, registered) ==
    [s EXCEPT !.windows = windows, !.registered = registered]

LEMMA WindowsSet ==
    ASSUME NEW s \in UI, NEW windows \in Seq(WindowSet), NEW registered \in SUBSET Nat
    PROVE  LET t == WithWindows(s, windows, registered)
           IN  /\ t \in UI /\ WindowsOnly(s, t)
               /\ t.windows = windows /\ t.registered = registered
BY DEF UI, WindowSet, TrendSet, WithWindows, WindowsOnly

LEMMA AddedWindow ==
    ASSUME NEW s, WindowsKnown(s), NEW config \in Configs
    PROVE  LET t == add_window(s, config)
               new == Len(s.windows) + 1
           IN  /\ WindowsKnown(t) /\ WindowsOnly(s, t)
               /\ Len(t.windows) = new /\ t.registered = s.registered \cup {new}
               /\ t.windows[new].config = config
               /\ \A id \in DOMAIN s.windows : t.windows[id] = s.windows[id]
<1> DEFINE t == add_window(s, config)
           new == Len(s.windows) + 1
           w == [config |-> config, dialog |-> Shown, wired |-> TRUE]
<1>1. s.windows \in Seq(WindowSet) /\ w \in WindowSet /\ s \in UI
  BY UIFields DEF WindowsKnown, WindowSet
<1>2. t = WithWindows(s, Append(s.windows, w), s.registered \cup {new})
  BY DialogLife DEF add_window, WithWindows
<1>3. /\ Append(s.windows, w) \in Seq(WindowSet) /\ Len(Append(s.windows, w)) = new
      /\ Append(s.windows, w)[new] = w
      /\ \A id \in 1..Len(s.windows) : Append(s.windows, w)[id] = s.windows[id]
      /\ DOMAIN s.windows = 1..Len(s.windows) /\ new \in Nat /\ Len(s.windows) \in Nat
      /\ DOMAIN Append(s.windows, w) = 1..new
  BY <1>1, AppendProperties
<1>4. /\ t.windows = Append(s.windows, w) /\ t.registered = s.registered \cup {new}
      /\ WindowsOnly(s, t) /\ t \in UI
  <2>1. s.registered \cup {new} \in SUBSET Nat
    BY <1>1, <1>3, UIFields
  <2> DEFINE more == Append(s.windows, w)
             ids == s.registered \cup {new}
  <2>2. more \in Seq(WindowSet) /\ t = WithWindows(s, more, ids)
    BY <1>2, <1>3
  <2> HIDE DEF t, more, ids
  <2>3. t.windows = more /\ t.registered = ids /\ WindowsOnly(s, t) /\ t \in UI
    BY <1>1, <2>1, <2>2, WindowsSet DEF ids
  <2> QED
    BY <2>3 DEF more, ids
<1>5. \A id \in DOMAIN t.windows : id = new \/ id \in DOMAIN s.windows
  BY <1>4, <1>3
<1>6. new \notin DOMAIN s.windows /\ DOMAIN s.windows \subseteq DOMAIN t.windows /\ new \in DOMAIN t.windows
  BY <1>4, <1>3
<1> HIDE DEF t, new
<1>7. WindowsKnown(t)
  <2>1. t.registered \subseteq DOMAIN t.windows
    BY <1>4, <1>6 DEF WindowsKnown
  <2>2. ASSUME NEW id \in DOMAIN t.windows
        PROVE  /\ id \in t.registered => /\ t.windows[id].config \in Configs
                                          /\ t.windows[id].dialog = Shown /\ t.windows[id].wired
               /\ id \notin t.registered => t.windows[id].dialog = Closed /\ ~t.windows[id].wired
    <3>1. CASE id = new
      <4>1. t.windows[id] = w /\ id \in t.registered
        BY <1>4, <1>3, <3>1
      <4> QED
        BY <4>1
    <3>2. CASE id # new
      <4>1. id \in DOMAIN s.windows /\ id \in 1..Len(s.windows)
        BY <1>3, <1>5, <3>2
      <4>2. t.windows[id] = s.windows[id]
        BY <1>4, <1>3, <4>1
      <4>3. id \in t.registered <=> id \in s.registered
        BY <1>4, <3>2
      <4> QED
        BY <4>1, <4>2, <4>3, Zenon DEF WindowsKnown
    <3> QED
      BY <3>1, <3>2
  <2> QED
    BY <1>4, <2>1, <2>2 DEF WindowsKnown
<1> QED
  BY <1>4, <1>3, <1>7 DEF t, new

LEMMA ClosedWindows ==
    ASSUME NEW s, WindowsKnown(s), NEW ids, ids \subseteq s.registered
    PROVE  LET t == CloseWindows(s, ids)
           IN  /\ WindowsKnown(t) /\ WindowsOnly(s, t)
               /\ t.registered = s.registered \ ids /\ Len(t.windows) = Len(s.windows)
               /\ \A id \in DOMAIN s.windows \ ids : t.windows[id] = s.windows[id]
<1> DEFINE t == CloseWindows(s, ids)
           gone == [config |-> NoConfig, dialog |-> Closed, wired |-> FALSE]
           f == [id \in DOMAIN s.windows |-> IF id \in ids THEN gone ELSE s.windows[id]]
<1>1. s.windows \in Seq(WindowSet) /\ gone \in WindowSet /\ s \in UI
  BY UIFields DEF WindowsKnown, WindowSet
<1>2. \A id \in ids : id \in DOMAIN s.windows /\ s.windows[id].dialog = Shown
  BY DialogLife DEF WindowsKnown
<1>3. {id \in ids \cap s.registered :
          closeEvent(s.windows[id].dialog).closes > s.windows[id].dialog.closes} = ids
  BY <1>2, DialogLife
<1>4. t = WithWindows(s, f, s.registered \ ids)
  <2> DEFINE Told(id) == closeEvent(s.windows[id].dialog)
             destroyed == {id \in ids \cap s.registered : Told(id).closes > s.windows[id].dialog.closes}
             g == [id \in DOMAIN s.windows |->
                      IF id \in destroyed
                      THEN [config |-> NoConfig, dialog |-> Told(id), wired |-> FALSE]
                      ELSE IF id \in ids THEN [s.windows[id] EXCEPT !.dialog = Told(id)]
                           ELSE s.windows[id]]
  <2>1. t = WithWindows(s, g, s.registered \ destroyed)
    BY DEF CloseWindows, WithWindows
  <2>2. destroyed = ids
    BY <1>3
  <2>3. \A id \in ids : Told(id) = Closed
    BY <1>2, DialogLife
  <2>4. g = f
    <3> HIDE DEF Told, destroyed
    <3> QED
      BY <2>2, <2>3
  <2> HIDE DEF g, f, destroyed, t
  <2> QED
    BY <2>1, <2>2, <2>4
<1>5. f \in Seq(WindowSet) /\ Len(f) = Len(s.windows) /\ DOMAIN f = DOMAIN s.windows
  <2>1. DOMAIN s.windows = 1..Len(s.windows) /\ Len(s.windows) \in Nat
        /\ \A id \in 1..Len(s.windows) : s.windows[id] \in WindowSet
    BY <1>1
  <2> HIDE DEF gone
  <2>2. f \in [1..Len(s.windows) -> WindowSet]
    BY <1>1, <2>1
  <2> HIDE DEF f
  <2> QED
    BY <2>1, <2>2, FunctionIsSeq
<1>6. t.windows = f /\ t.registered = s.registered \ ids /\ WindowsOnly(s, t) /\ t \in UI
  <2>1. s.registered \ ids \in SUBSET Nat
    BY <1>1, UIFields
  <2> HIDE DEF f, t
  <2> QED
    BY <1>1, <1>4, <1>5, <2>1, WindowsSet
<1>7. WindowsKnown(t)
  <2>1. t.registered \subseteq DOMAIN t.windows
    BY <1>6, <1>5 DEF WindowsKnown
  <2>2. ASSUME NEW id \in DOMAIN t.windows
        PROVE  /\ id \in t.registered => /\ t.windows[id].config \in Configs
                                          /\ t.windows[id].dialog = Shown /\ t.windows[id].wired
               /\ id \notin t.registered => t.windows[id].dialog = Closed /\ ~t.windows[id].wired
    <3>0. id \in DOMAIN s.windows
      BY <1>6, <1>5
    <3>1. CASE id \in ids
      <4>1. t.windows[id] = gone /\ id \notin t.registered
        BY <1>6, <3>0, <3>1
      <4> QED
        BY <4>1
    <3>2. CASE id \notin ids
      <4>1. t.windows[id] = s.windows[id]
        BY <1>6, <3>0, <3>2
      <4>2. id \in t.registered <=> id \in s.registered
        BY <1>6, <3>2
      <4> QED
        BY <3>0, <4>1, <4>2, Zenon DEF WindowsKnown
    <3> QED
      BY <3>1, <3>2
  <2> QED
    BY <1>6, <2>1, <2>2 DEF WindowsKnown
<1> QED
  BY <1>6, <1>5, <1>7 DEF WindowsOnly

-----------------------------------------------------------------------------
(* Trends.                                                                 *)

LEMMA RecordSeqSet ==
    ASSUME NEW trends \in Seq(TrendSet), NEW id \in DOMAIN trends, NEW shown \in TrendSet
    PROVE  LET other == [trends EXCEPT ![id] = shown]
           IN  /\ other \in Seq(TrendSet) /\ DOMAIN other = DOMAIN trends /\ other[id] = shown
               /\ \A i \in DOMAIN trends \ {id} : other[i] = trends[i]
<1>1. trends \in [1..Len(trends) -> TrendSet] /\ Len(trends) \in Nat
  OBVIOUS
<1>2. [trends EXCEPT ![id] = shown] \in [1..Len(trends) -> TrendSet]
  BY <1>1
<1>3. [trends EXCEPT ![id] = shown] \in Seq(TrendSet)
  <2> DEFINE other == [trends EXCEPT ![id] = shown]
  <2> HIDE DEF other
  <2> QED
    BY <1>1, <1>2, FunctionIsSeq DEF other
<1> QED
  BY <1>1, <1>3

WithTrends(s, trends, trend, trend_menu) ==
    [s EXCEPT !.trends = trends, !.trend = trend, !.trend_menu = trend_menu]

LEMMA TrendsSet ==
    ASSUME NEW s \in UI, NEW trends \in Seq(TrendSet), NEW trend \in Nat, NEW trend_menu \in BOOLEAN
    PROVE  LET t == WithTrends(s, trends, trend, trend_menu)
           IN  /\ t \in UI /\ TrendsOnly(s, t)
               /\ t.trends = trends /\ t.trend = trend /\ t.trend_menu = trend_menu
BY DEF UI, WindowSet, TrendSet, WithTrends, TrendsOnly

WithTrendList(s, trends) == [s EXCEPT !.trends = trends]

LEMMA TrendListSet ==
    ASSUME NEW s \in UI, NEW trends \in Seq(TrendSet)
    PROVE  LET t == WithTrendList(s, trends)
           IN  /\ t \in UI /\ TrendsOnly(s, t)
               /\ t.trends = trends /\ t.trend = s.trend /\ t.trend_menu = s.trend_menu
BY DEF UI, WindowSet, TrendSet, WithTrendList, TrendsOnly

\* Trend id is [dialog |-> d, wired |-> wired] now, and the others are as they were.
TrendIs(s, t, id, d, wired) ==
    /\ t \in UI /\ TrendsOnly(s, t)
    /\ DOMAIN t.trends = DOMAIN s.trends
    /\ t.trends[id].dialog = d /\ (t.trends[id].wired <=> wired)
    /\ \A i \in DOMAIN s.trends \ {id} : t.trends[i] = s.trends[i]

\* trend_on_closed() of the program's own trend.
LEMMA TrendTold ==
    ASSUME NEW s \in UI, NEW id \in DOMAIN s.trends, id = s.trend
    PROVE  LET t == trend_on_closed(s, id)
           IN  /\ TrendIs(s, t, id, s.trends[id].dialog, FALSE)
               /\ t.trend = NoTrend /\ t.trend_menu
<1> DEFINE t == trend_on_closed(s, id)
           shown == [s.trends[id] EXCEPT !.wired = FALSE]
           trends == [s.trends EXCEPT ![id] = shown]
<1>1. s.trends \in Seq(TrendSet) /\ s.trends[id] \in TrendSet
  BY UIFields
<1>2. shown \in TrendSet /\ shown.dialog = s.trends[id].dialog /\ shown.wired = FALSE
  BY <1>1 DEF TrendSet
<1>3. t = WithTrends(s, trends, NoTrend, TRUE)
  BY DEF trend_on_closed, WithTrends
<1> HIDE DEF shown
<1>4. /\ trends \in Seq(TrendSet) /\ DOMAIN trends = DOMAIN s.trends /\ trends[id] = shown
      /\ \A i \in DOMAIN s.trends \ {id} : trends[i] = s.trends[i]
  BY <1>1, <1>2, RecordSeqSet
<1> HIDE DEF t, trends
<1>5. t \in UI /\ TrendsOnly(s, t) /\ t.trends = trends /\ t.trend = NoTrend /\ t.trend_menu
  <2> DEFINE enabled == TRUE
  <2>1. NoTrend \in Nat /\ enabled \in BOOLEAN
    BY DEF NoTrend
  <2>2. t = WithTrends(s, trends, NoTrend, enabled)
    BY <1>3
  <2> HIDE DEF enabled
  <2>3. /\ t \in UI /\ TrendsOnly(s, t)
        /\ t.trends = trends /\ t.trend = NoTrend /\ t.trend_menu = enabled
    BY <1>4, <2>1, <2>2, TrendsSet
  <2> QED
    BY <2>3 DEF enabled
<1> QED
  BY <1>2, <1>4, <1>5 DEF TrendIs, t

\* A trend on the screen is closed, by whatever means.
LEMMA TrendShut ==
    ASSUME NEW s \in UI, NEW id \in DOMAIN s.trends, s.trends[id].dialog = Shown
    PROVE  LET t == TrendBecomes(s, id, Closed)
           IN  /\ id = s.trend => TrendIs(s, t, id, Closed, FALSE) /\ t.trend = NoTrend /\ t.trend_menu
               /\ id # s.trend => /\ TrendIs(s, t, id, Closed, s.trends[id].wired)
                                  /\ t.trend = s.trend /\ t.trend_menu = s.trend_menu
<1> DEFINE closed == [s EXCEPT !.trends[id].dialog = Closed]
           t == TrendBecomes(s, id, Closed)
           shown == [s.trends[id] EXCEPT !.dialog = Closed]
           trends == [s.trends EXCEPT ![id] = shown]
<1>1. s.trends \in Seq(TrendSet) /\ s.trends[id] \in TrendSet /\ s.trend \in Nat /\ s.trend_menu \in BOOLEAN
  BY UIFields
<1>2. shown \in TrendSet /\ shown.dialog = Closed /\ shown.wired = s.trends[id].wired
  BY <1>1 DEF TrendSet
<1>3. closed = WithTrendList(s, trends)
  BY DEF WithTrendList
<1> HIDE DEF shown
<1>4. /\ trends \in Seq(TrendSet) /\ DOMAIN trends = DOMAIN s.trends /\ trends[id] = shown
      /\ \A i \in DOMAIN s.trends \ {id} : trends[i] = s.trends[i]
  BY <1>1, <1>2, RecordSeqSet
<1>5. t = trend_on_closed(closed, id)
  BY DialogLife DEF TrendBecomes
<1> HIDE DEF t, trends, closed
<1>6. /\ closed \in UI /\ TrendsOnly(s, closed) /\ closed.trends = trends
      /\ closed.trend = s.trend /\ closed.trend_menu = s.trend_menu
  BY <1>3, <1>4, TrendListSet
<1>7. CASE id = s.trend
  <2>1. TrendIs(closed, t, id, Closed, FALSE) /\ t.trend = NoTrend /\ t.trend_menu
    BY <1>2, <1>4, <1>5, <1>6, <1>7, TrendTold
  <2>2. TrendIs(s, t, id, Closed, FALSE)
    BY <1>4, <1>6, <2>1 DEF TrendIs, TrendsOnly
  <2> QED
    BY <1>7, <2>1, <2>2 DEF t
<1>8. CASE id # s.trend
  <2>1. t = closed
    BY <1>5, <1>6, <1>8 DEF trend_on_closed
  <2> QED
    BY <1>2, <1>4, <1>6, <1>8, <2>1 DEF TrendIs, t
<1> QED
  BY <1>7, <1>8

\* Menu > Trend opens one if there is none.
LEMMA TrendOpened ==
    ASSUME NEW s \in UI, s.trend = NoTrend,
           NEW left, left \subseteq DOMAIN s.trends, TrendsKnown(s, left)
    PROVE  LET t == on_actionTrend_triggered(s)
           IN  /\ t \in UI /\ TrendsOnly(s, t) /\ TrendsKnown(t, left)
               /\ t.trend \in DOMAIN t.trends \ DOMAIN s.trends /\ t.trend # NoTrend /\ ~t.trend_menu
               /\ DOMAIN s.trends \subseteq DOMAIN t.trends
               /\ \A id \in DOMAIN s.trends : t.trends[id] = s.trends[id]
<1> DEFINE t == on_actionTrend_triggered(s)
           new == Len(s.trends) + 1
           shown == [dialog |-> Shown, wired |-> TRUE]
           more == Append(s.trends, shown)
           enabled == FALSE
<1>1. s.trends \in Seq(TrendSet) /\ shown \in TrendSet /\ shown.dialog = Shown /\ shown.wired
  BY UIFields DEF TrendSet
<1>2. t = WithTrends(s, more, new, enabled)
  BY DialogLife DEF on_actionTrend_triggered, WithTrends
<1>3. enabled \in BOOLEAN /\ ~enabled
  OBVIOUS
<1> HIDE DEF shown, enabled
<1>4. /\ more \in Seq(TrendSet) /\ new \in Nat /\ new # NoTrend /\ new \notin DOMAIN s.trends
      /\ NoTrend \notin DOMAIN s.trends
      /\ more[new] = shown /\ DOMAIN more = DOMAIN s.trends \cup {new}
      /\ \A id \in DOMAIN s.trends : more[id] = s.trends[id]
  <2>1. /\ Len(s.trends) \in Nat /\ DOMAIN s.trends = 1..Len(s.trends)
        /\ more \in Seq(TrendSet) /\ Len(more) = new /\ DOMAIN more = 1..new /\ more[new] = shown
        /\ \A id \in 1..Len(s.trends) : more[id] = s.trends[id]
    BY <1>1, AppendProperties
  <2> HIDE DEF more
  <2> QED
    BY <2>1 DEF NoTrend
<1> HIDE DEF t, new, more
<1>5. /\ t \in UI /\ TrendsOnly(s, t) /\ t.trends = more /\ t.trend = new
      /\ t.trend_menu = enabled
  BY <1>2, <1>3, <1>4, TrendsSet
<1>6. TrendsKnown(t, left)
  BY <1>1, <1>4, <1>5 DEF TrendsKnown
<1> QED
  BY <1>3, <1>4, <1>5, <1>6 DEF t

\* A trend is made the program's own, told off and closed, as Restore does it.
LEMMA TrendReplaced ==
    ASSUME NEW s \in UI, NEW id \in DOMAIN s.trends, id # NoTrend, id = s.trend,
           s.trends[id].dialog = Shown
    PROVE  LET t == CloseTrend(trend_on_closed(s, id), id)
           IN  TrendIs(s, t, id, Closed, FALSE) /\ t.trend = NoTrend
<1> DEFINE told == trend_on_closed(s, id)
           t == CloseTrend(told, id)
<1>1. TrendIs(s, told, id, Shown, FALSE) /\ told.trend = NoTrend
  BY TrendTold
<1> HIDE DEF told
<1>2. t = TrendBecomes(told, id, Closed)
  BY <1>1, DialogLife DEF CloseTrend, TrendIs
<1>3. told \in UI /\ id \in DOMAIN told.trends /\ told.trends[id].dialog = Shown /\ id # told.trend
      /\ ~told.trends[id].wired
  BY <1>1 DEF TrendIs
<1> HIDE DEF t
<1>4. TrendIs(told, t, id, Closed, told.trends[id].wired) /\ t.trend = NoTrend
  BY <1>1, <1>2, <1>3, TrendShut
<1>5. TrendIs(s, t, id, Closed, FALSE)
  BY <1>1, <1>3, <1>4 DEF TrendIs, TrendsOnly
<1> QED
  BY <1>4, <1>5 DEF t, told

\* The other fields.
WithPointer(s, trend) == [s EXCEPT !.trend = trend]

LEMMA PointerSet ==
    ASSUME NEW s \in UI, NEW trend \in Nat
    PROVE  LET t == WithPointer(s, trend)
           IN  /\ t \in UI /\ TrendsOnly(s, t)
               /\ t.trend = trend /\ t.trends = s.trends /\ t.trend_menu = s.trend_menu
BY DEF UI, WindowSet, TrendSet, WithPointer, TrendsOnly

WithMenu(s, trend_menu) == [s EXCEPT !.trend_menu = trend_menu]

LEMMA MenuSet ==
    ASSUME NEW s \in UI, NEW trend_menu \in BOOLEAN
    PROVE  LET t == WithMenu(s, trend_menu)
           IN  /\ t \in UI /\ TrendsOnly(s, t)
               /\ t.trend = s.trend /\ t.trends = s.trends /\ t.trend_menu = trend_menu
BY DEF UI, WindowSet, TrendSet, WithMenu, TrendsOnly

WithSettings(s, settings) == [s EXCEPT !.settings = settings]

\* Nothing but the settings.
SettingsOnly(s, t) ==
    /\ t.windows = s.windows /\ t.registered = s.registered
    /\ t.trends = s.trends /\ t.trend = s.trend /\ t.trend_menu = s.trend_menu

LEMMA SettingsSet ==
    ASSUME NEW s \in UI, NEW settings \in [timeout : Int, port : Int]
    PROVE  LET t == WithSettings(s, settings)
           IN  t \in UI /\ SettingsOnly(s, t) /\ t.settings = settings
BY DEF UI, WindowSet, TrendSet, WithSettings, SettingsOnly

-----------------------------------------------------------------------------
(* The windows of a file.                                                  *)

LEMMA KindRanges ==
    /\ FirstRegister("CoilsDisplay") = 1 /\ LastRegister(1) = 9999
    /\ FirstRegister("InputsDisplay") = 10001 /\ LastRegister(10001) = 19999
    /\ FirstRegister("RegisterDisplay") = 30001 /\ LastRegister(30001) = 39999
    /\ FirstRegister("HoldingRegisterDisplay") = 40001 /\ LastRegister(40001) = 49999
BY DEF FirstRegister, LastRegister

\* The registers of a class, in bounds.
LEMMA OwnRegisters ==
    ASSUME NEW start \in Int
    PROVE  /\ start \in RegistersOf("CoilsDisplay") <=> 1 <= start /\ start <= 9999
           /\ start \in RegistersOf("InputsDisplay") <=> 10001 <= start /\ start <= 19999
           /\ start \in RegistersOf("HoldingRegisterDisplay") <=> 40001 <= start /\ start <= 49999
           /\ RegistersOf("RegisterDisplay") = FileRegisters
<1>1. start \in RegistersOf("CoilsDisplay") <=> 1 <= start /\ start <= 9999
  <2> DEFINE first == FirstRegister("CoilsDisplay")
             last == LastRegister(first)
  <2>1. first = 1 /\ last = 9999
    BY KindRanges
  <2>2. RegistersOf("CoilsDisplay") = first..last
    BY DEF RegistersOf
  <2> DEFINE own == RegistersOf("CoilsDisplay")
  <2> HIDE DEF first, last, own
  <2>3. own = first..last
    BY <2>2 DEF own
  <2>4. start \in own <=> first <= start /\ start <= last
    BY <2>1, <2>3
  <2> QED
    BY <2>1, <2>4 DEF own
<1>2. start \in RegistersOf("InputsDisplay") <=> 10001 <= start /\ start <= 19999
  <2> DEFINE first == FirstRegister("InputsDisplay")
             last == LastRegister(first)
  <2>1. first = 10001 /\ last = 19999
    BY KindRanges
  <2>2. RegistersOf("InputsDisplay") = first..last
    BY DEF RegistersOf
  <2> DEFINE own == RegistersOf("InputsDisplay")
  <2> HIDE DEF first, last, own
  <2>3. own = first..last
    BY <2>2 DEF own
  <2>4. start \in own <=> first <= start /\ start <= last
    BY <2>1, <2>3
  <2> QED
    BY <2>1, <2>4 DEF own
<1>3. start \in RegistersOf("HoldingRegisterDisplay") <=> 40001 <= start /\ start <= 49999
  <2> DEFINE first == FirstRegister("HoldingRegisterDisplay")
             last == LastRegister(first)
  <2>1. first = 40001 /\ last = 49999
    BY KindRanges
  <2>2. RegistersOf("HoldingRegisterDisplay") = first..last
    BY DEF RegistersOf
  <2> DEFINE own == RegistersOf("HoldingRegisterDisplay")
  <2> HIDE DEF first, last, own
  <2>3. own = first..last
    BY <2>2 DEF own
  <2>4. start \in own <=> first <= start /\ start <= last
    BY <2>1, <2>3
  <2> QED
    BY <2>1, <2>4 DEF own
<1>4. RegistersOf("RegisterDisplay") = FileRegisters
  BY DEF RegistersOf
<1> QED
  BY <1>1, <1>2, <1>3, <1>4

LEMMA FileRegistersInt ==
    ASSUME NEW start \in FileRegisters
    PROVE  start \in Int /\ 1 <= start /\ start <= 49999
BY DEF FileRegisters

LEMMA WithinMax ==
    ASSUME NEW start \in Int
    PROVE  MaxRegs(start) \in Int /\ 125 <= MaxRegs(start) /\ MaxRegs(start) <= 2000
BY DEF MaxRegs

\* A window that is not refused is one the program may have.
LEMMA LoadedConfig ==
    ASSUME NEW entry \in Elements, Loadable(entry), load_configuration_parameters(entry)
    PROVE  Config(entry) \in Configs
<1> DEFINE kind == entry.kind  start == entry.start  count == entry.count
           node == entry.node  max == entry.max
<1>1. /\ kind \in Kinds /\ start \in FileRegisters /\ count \in 1..max /\ node \in 0..255
      /\ max = MaxRegs(start)
  <2>1. load_base_data(entry) /\ kind \in Kinds
    BY DEF Loadable
  <2>2. start \in FileRegisters /\ count \in 1..max /\ node \in 0..255
    BY <2>1, SMTT(30) DEF load_base_data
  <2>3. max = MaxRegs(start)
    BY DEF load_configuration_parameters
  <2> QED
    BY <2>1, <2>2, <2>3
<1>2. /\ kind = "CoilsDisplay" => start < 10000
      /\ kind = "InputsDisplay" => start > 10000 /\ start < 20000
      /\ kind = "HoldingRegisterDisplay" => start >= 40001 /\ start < 50000
  <2>1. kind = "CoilsDisplay" => start < 10000
    BY DEF load_configuration_parameters
  <2>2. kind = "InputsDisplay" => start > 10000 /\ start < 20000
    BY DEF load_configuration_parameters
  <2>3. kind = "HoldingRegisterDisplay" => start >= 40001 /\ start < 50000
    BY DEF load_configuration_parameters
  <2> QED
    BY <2>1, <2>2, <2>3
<1>3. Config(entry) = [kind |-> kind, start |-> start, count |-> count, node |-> node]
  BY DEF Config
<1>4. start \in Int /\ 1 <= start
  BY <1>1, FileRegistersInt
<1> HIDE DEF kind, start, count, node, max
<1>5. count \in 1..2000 /\ count <= MaxRegs(start)
  BY <1>1, <1>4, WithinMax
<1>6. start \in RegistersOf(kind)
  <2>1. CASE kind = "CoilsDisplay"
    BY <1>2, <1>4, <2>1, OwnRegisters
  <2>2. CASE kind = "InputsDisplay"
    <3>2. 10001 <= start /\ start <= 19999
      BY <1>2, <1>4, <2>2
    <3> QED
      BY <1>4, <2>2, <3>2, OwnRegisters
  <2>3. CASE kind = "RegisterDisplay"
    BY <1>1, <1>4, <2>3, OwnRegisters
  <2>4. CASE kind = "HoldingRegisterDisplay"
    <3>2. 40001 <= start /\ start <= 49999
      BY <1>2, <1>4, <2>4
    <3> QED
      BY <1>4, <2>4, <3>2, OwnRegisters
  <2> QED
    BY <1>1, <2>1, <2>2, <2>3, <2>4 DEF Kinds
<1> DEFINE c == [kind |-> kind, start |-> start, count |-> count, node |-> node]
<1>7. /\ c \in [kind : Kinds, start : FileRegisters, count : 1..2000, node : 0..255]
      /\ c.start = start /\ c.kind = kind /\ c.count = count
  BY <1>1, <1>5
<1> HIDE DEF c
<1>8. c \in Configs
  BY <1>5, <1>6, <1>7 DEF Configs
<1> QED
  BY <1>3, <1>8 DEF c

\* t is s with windows opened after its own.
Grown(s, t) ==
    /\ WindowsKnown(t) /\ WindowsOnly(s, t)
    /\ Len(s.windows) \in Nat /\ Len(t.windows) \in Nat /\ Len(s.windows) <= Len(t.windows)
    /\ DOMAIN s.windows = 1..Len(s.windows) /\ DOMAIN t.windows = 1..Len(t.windows)
    /\ t.registered = s.registered \cup (Len(s.windows) + 1)..Len(t.windows)
    /\ \A id \in DOMAIN s.windows : t.windows[id] = s.windows[id]

\* The first k entries have all been opened.
AllOpened(s, t, entries, k) ==
    /\ Len(t.windows) = Len(s.windows) + k
    /\ \A i \in 1..k : t.windows[Len(s.windows) + i].config = Config(entries[i])

LEMMA GrowsByOne ==
    ASSUME NEW s, NEW t, Grown(s, t), NEW config \in Configs
    PROVE  Grown(s, add_window(t, config))
<1> DEFINE u == add_window(t, config)
           m == Len(s.windows)
           n == Len(t.windows)
<1>1. /\ WindowsKnown(u) /\ WindowsOnly(t, u)
      /\ Len(u.windows) = n + 1 /\ u.registered = t.registered \cup {n + 1}
      /\ \A id \in DOMAIN t.windows : u.windows[id] = t.windows[id]
  BY AddedWindow DEF Grown
<1>2. /\ n \in Nat /\ m \in Nat /\ m <= n /\ DOMAIN t.windows = 1..n /\ DOMAIN s.windows = 1..m
      /\ t.registered = s.registered \cup (m + 1)..n
      /\ \A id \in DOMAIN s.windows : t.windows[id] = s.windows[id]
      /\ WindowsOnly(s, t)
  BY DEF Grown
<1>3. DOMAIN u.windows = 1..Len(u.windows)
  BY <1>1, UIFields DEF WindowsKnown
<1> HIDE DEF u
<1>4. u.registered = s.registered \cup (m + 1)..(n + 1)
  <2> HIDE DEF m, n
  <2>1. (m + 1)..(n + 1) = (m + 1)..n \cup {n + 1}
    BY <1>2
  <2> QED
    BY <1>1, <1>2, <2>1
<1>5. \A id \in DOMAIN s.windows : u.windows[id] = s.windows[id]
  <2> HIDE DEF m, n
  <2> QED
    BY <1>1, <1>2
<1>6. WindowsOnly(s, u)
  BY <1>1, <1>2 DEF WindowsOnly
<1>7. n + 1 \in Nat /\ m <= n + 1
  <2> HIDE DEF m, n
  <2> QED
    BY <1>2
<1> QED
  BY <1>1, <1>2, <1>3, <1>4, <1>5, <1>6, <1>7 DEF Grown, u

LEMMA OpenedByOne ==
    ASSUME NEW s, NEW t, Grown(s, t), NEW entries, NEW k \in Nat, AllOpened(s, t, entries, k),
           Config(entries[k + 1]) \in Configs
    PROVE  AllOpened(s, add_window(t, Config(entries[k + 1])), entries, k + 1)
<1> DEFINE config == Config(entries[k + 1])
           u == add_window(t, config)
           m == Len(s.windows)
           n == Len(t.windows)
<1>1. /\ Len(u.windows) = n + 1 /\ u.windows[n + 1].config = config
      /\ \A id \in DOMAIN t.windows : u.windows[id] = t.windows[id]
  BY AddedWindow DEF Grown
<1>2. n \in Nat /\ m \in Nat /\ DOMAIN t.windows = 1..n
  BY DEF Grown
<1>3. n = m + k /\ \A i \in 1..k : t.windows[m + i].config = Config(entries[i])
  BY DEF AllOpened
<1> HIDE DEF u, m, n
<1>4. ASSUME NEW i \in 1..(k + 1) PROVE u.windows[m + i].config = Config(entries[i])
  <2>1. CASE i = k + 1
    BY <1>1, <1>2, <1>3, <2>1
  <2>2. CASE i # k + 1
    <3>1. i \in 1..k /\ m + i \in DOMAIN t.windows
      BY <1>2, <1>3, <2>2
    <3> QED
      BY <1>1, <1>3, <3>1
  <2> QED
    BY <2>1, <2>2
<1>5. n + 1 = m + (k + 1)
  BY <1>2, <1>3
<1> QED
  BY <1>1, <1>4, <1>5 DEF AllOpened, u, m

\* What load_windows() makes of entry i, and what is known after the first k.
Taken(entries, t, i) ==
    IF (\A j \in 1..i : Loadable(entries[j])) /\ load_configuration_parameters(entries[i])
    THEN add_window(t, Config(entries[i])) ELSE t

Accepted(entry) == Loadable(entry) /\ load_configuration_parameters(entry)

ReadSoFar(s, t, entries, k) ==
    /\ Grown(s, t)
    /\ (\A i \in 1..k : Accepted(entries[i])) => AllOpened(s, t, entries, k)

LEMMA NothingRead ==
    ASSUME NEW s, WindowsKnown(s), NEW entries
    PROVE  ReadSoFar(s, s, entries, 0)
<1>1. s.windows \in Seq(WindowSet)
  BY UIFields DEF WindowsKnown
<1> DEFINE n == Len(s.windows)
<1>2. n \in Nat /\ DOMAIN s.windows = 1..n
  BY <1>1
<1>3. WindowsOnly(s, s)
  BY DEF WindowsOnly
<1>4. Grown(s, s)
  <2> HIDE DEF n
  <2>1. (n + 1)..n = {} /\ n <= n
    BY <1>2
  <2> QED
    BY <1>2, <1>3, <2>1 DEF Grown, n
<1>5. AllOpened(s, s, entries, 0)
  <2>1. n = n + 0 /\ 1..0 = {}
    BY <1>2
  <2> QED
    BY <2>1 DEF AllOpened
<1> QED
  BY <1>4, <1>5 DEF ReadSoFar

LEMMA ReadOneMore ==
    ASSUME NEW s, NEW t, NEW entries, NEW k \in Nat, ReadSoFar(s, t, entries, k),
           entries[k + 1] \in Elements
    PROVE  ReadSoFar(s, Taken(entries, t, k + 1), entries, k + 1)
<1> DEFINE u == Taken(entries, t, k + 1)
<1>0. k + 1 \in 1..(k + 1) /\ 1..k \subseteq 1..(k + 1)
  OBVIOUS
<1>1. CASE (\A j \in 1..(k + 1) : Loadable(entries[j])) /\ load_configuration_parameters(entries[k + 1])
  <2>1. u = add_window(t, Config(entries[k + 1]))
    BY <1>1 DEF Taken
  <2>2. Config(entries[k + 1]) \in Configs
    BY <1>0, <1>1, LoadedConfig
  <2>3. Grown(s, u)
    BY <2>1, <2>2, GrowsByOne DEF ReadSoFar
  <2>4. ASSUME \A i \in 1..(k + 1) : Accepted(entries[i])
        PROVE  AllOpened(s, u, entries, k + 1)
    <3>1. AllOpened(s, t, entries, k)
      BY <1>0, <2>4 DEF ReadSoFar
    <3> QED
      BY <2>1, <2>2, <3>1, OpenedByOne DEF ReadSoFar
  <2> HIDE DEF u
  <2>5. ReadSoFar(s, u, entries, k + 1)
    BY <2>3, <2>4 DEF ReadSoFar
  <2> QED
    BY <2>5 DEF u
<1>2. CASE ~((\A j \in 1..(k + 1) : Loadable(entries[j])) /\ load_configuration_parameters(entries[k + 1]))
  <2>1. u = t
    BY <1>2 DEF Taken
  <2>2. ~\A i \in 1..(k + 1) : Accepted(entries[i])
    BY <1>0, <1>2 DEF Accepted
  <2> HIDE DEF u
  <2>5. ReadSoFar(s, u, entries, k + 1)
    BY <2>1, <2>2 DEF ReadSoFar
  <2> QED
    BY <2>5 DEF u
<1> QED
  BY <1>1, <1>2

LEMMA LoadedWindows ==
    ASSUME NEW s, WindowsKnown(s), NEW entries \in Seq(Elements)
    PROVE  LET loaded == load_windows(s, entries)
           IN  /\ Grown(s, loaded.s)
               /\ loaded.ok <=> \A i \in DOMAIN entries : Loadable(entries[i])
               /\ (\A i \in DOMAIN entries : Accepted(entries[i])) =>
                     AllOpened(s, loaded.s, entries, Len(entries))
<1> DEFINE n == Len(entries)
           Is(f, m) == f = [k \in 0..m |-> IF k = 0 THEN s ELSE Taken(entries, f[k - 1], k)]
           T == {m \in 0..n : \E f : Is(f, m) /\ ReadSoFar(s, f[m], entries, m)}
<1>0. n \in Nat /\ DOMAIN entries = 1..n
  OBVIOUS
<1>1. 0 \in T
  <2> DEFINE g == [k \in 0..0 |-> s]
  <2>1. \A k \in 0..0 : g[k] = IF k = 0 THEN s ELSE Taken(entries, g[k - 1], k)
    OBVIOUS
  <2>2. Is(g, 0) /\ g[0] = s
    BY <2>1
  <2> HIDE DEF g, Is
  <2> QED
    BY <1>0, <2>2, NothingRead
<1>2. ASSUME NEW m \in 0..(n - 1), m \in T PROVE m + 1 \in T
  <2>1. PICK f : Is(f, m) /\ ReadSoFar(s, f[m], entries, m)
    BY <1>2
  <2> DEFINE v == Taken(entries, f[m], m + 1)
             g == [k \in 0..(m + 1) |-> IF k = m + 1 THEN v ELSE f[k]]
  <2>2. m \in Nat /\ m + 1 \in 1..n /\ m + 1 \in 0..n
    BY <1>0
  <2>3. ReadSoFar(s, v, entries, m + 1)
    BY <1>0, <2>1, <2>2, ReadOneMore
  <2>4. Is(g, m + 1)
    <3>1. ASSUME NEW k \in 0..(m + 1)
          PROVE  g[k] = IF k = 0 THEN s ELSE Taken(entries, g[k - 1], k)
      <4>1. CASE k = m + 1
        <5>1. k # 0 /\ k - 1 = m /\ m \in 0..(m + 1) /\ m # m + 1
          BY <2>2, <4>1
        <5> QED
          BY <4>1, <5>1
      <4>2. CASE k # m + 1
        <5>1. k \in 0..m /\ (k # 0 => k - 1 \in 0..m)
          BY <2>2, <4>2
        <5>2. f[k] = IF k = 0 THEN s ELSE Taken(entries, f[k - 1], k)
          BY <2>1, <5>1
        <5>3. g[k] = f[k] /\ (k # 0 => g[k - 1] = f[k - 1])
          BY <2>2, <4>2, <5>1
        <5> HIDE DEF g
        <5> QED
          BY <5>2, <5>3
      <4> QED
        BY <4>1, <4>2
    <3>2. g = [k \in 0..(m + 1) |-> g[k]]
      OBVIOUS
    <3> HIDE DEF g
    <3> QED
      BY <3>1, <3>2
  <2>5. g[m + 1] = v
    BY <2>2
  <2> HIDE DEF g, v, Is
  <2> QED
    BY <2>2, <2>3, <2>4, <2>5
<1>3. n \in T
  <2> HIDE DEF T, n
  <2> QED
    BY <1>0, <1>1, <1>2, InductionUpTo
<1>4. PICK f : Is(f, n) /\ ReadSoFar(s, f[n], entries, n)
  BY <1>3
<1> DEFINE after == CHOOSE h : Is(h, n)
           loaded == load_windows(s, entries)
<1>5. loaded.s = after[n] /\ (loaded.ok <=> \A i \in 1..n : Loadable(entries[i]))
  BY DEF load_windows, Taken
<1> HIDE DEF Is
<1>6. Is(after, n)
  BY <1>4, Zenon
<1> HIDE DEF after
<1>7. after[n] = f[n]
  <2> DEFINE U == {m \in 0..n : after[m] = f[m]}
  <2>1. 0 \in U
    BY <1>0, <1>4, <1>6 DEF Is
  <2>2. ASSUME NEW m \in 0..(n - 1), m \in U PROVE m + 1 \in U
    <3>1. m + 1 \in 0..n /\ m + 1 # 0 /\ (m + 1) - 1 = m
      BY <1>0
    <3>2. after[m + 1] = Taken(entries, after[m], m + 1) /\ f[m + 1] = Taken(entries, f[m], m + 1)
      BY <1>4, <1>6, <3>1 DEF Is
    <3> QED
      BY <2>2, <3>1, <3>2
  <2>3. n \in U
    <3> HIDE DEF U, n
    <3> QED
      BY <1>0, <2>1, <2>2, InductionUpTo
  <2> QED
    BY <2>3
<1>8. loaded.s = f[n]
  BY <1>5, <1>7
<1> HIDE DEF loaded, n
<1>9. Grown(s, loaded.s) /\ ((\A i \in 1..n : Accepted(entries[i])) => AllOpened(s, loaded.s, entries, n))
  BY <1>4, <1>8 DEF ReadSoFar
<1>10. loaded.ok <=> \A i \in DOMAIN entries : Loadable(entries[i])
  BY <1>0, <1>5
<1> QED
  BY <1>0, <1>9, <1>10 DEF loaded, n

-----------------------------------------------------------------------------
(* A file is read.                                                         *)

LEMMA WindowsKept ==
    ASSUME NEW s, WindowsKnown(s), NEW t \in UI, t.windows = s.windows, t.registered = s.registered
    PROVE  WindowsKnown(t)
BY DEF WindowsKnown

LEMMA TrendsKept ==
    ASSUME NEW s, NEW left, TrendsKnown(s, left), NEW t, t.trends = s.trends, t.trend = s.trend
    PROVE  TrendsKnown(t, left)
BY DEF TrendsKnown

SettingsGood(settings) == settings.timeout >= 1 /\ settings.port \in Ports

LEMMA LoadedSettings ==
    ASSUME NEW s \in UI, NEW settings \in [timeout : Int, port : Int]
    PROVE  LET loaded == load_communications_config(s, settings)
           IN  /\ loaded.s \in UI /\ SettingsOnly(s, loaded.s)
               /\ loaded.ok <=> SettingsGood(settings)
               /\ loaded.ok => loaded.s.settings = settings
<1> DEFINE loaded == load_communications_config(s, settings)
           one == [s.settings EXCEPT !.timeout = settings.timeout]
           timed == WithSettings(s, one)
           both == [one EXCEPT !.port = settings.port]
<1>0. settings.timeout \in Int /\ settings.port \in Int
  OBVIOUS
<1>1. s.settings \in [timeout : Int, port : Int]
  BY UIFields
<1>2. one \in [timeout : Int, port : Int]
  BY <1>1
<1>3. both \in [timeout : Int, port : Int] /\ both = settings
  BY <1>1
<1> HIDE DEF one
<1>4. timed \in UI /\ SettingsOnly(s, timed) /\ timed.settings = one
  BY <1>2, SettingsSet
<1>5. [s EXCEPT !.settings.timeout = settings.timeout] = timed
  BY DEF WithSettings, one
<1> HIDE DEF timed
<1>6. [timed EXCEPT !.settings.port = settings.port] = WithSettings(timed, both)
  BY <1>4 DEF WithSettings
<1> HIDE DEF both
<1> DEFINE done == WithSettings(timed, both)
<1>7. done \in UI /\ SettingsOnly(timed, done) /\ done.settings = both
  BY <1>3, <1>4, SettingsSet
<1>8. SettingsOnly(s, done)
  BY <1>4, <1>7 DEF SettingsOnly
<1>9. CASE settings.timeout < 1
  <2>1. loaded.s = s /\ ~loaded.ok
    BY <1>9 DEF load_communications_config
  <2>2. ~SettingsGood(settings)
    BY <1>0, <1>9 DEF SettingsGood
  <2>3. SettingsOnly(s, s)
    BY DEF SettingsOnly
  <2> QED
    BY <2>1, <2>2, <2>3
<1>10. CASE ~(settings.timeout < 1) /\ settings.port \in Ports
  <2> DEFINE first == [s EXCEPT !.settings.timeout = settings.timeout]
             second == [first EXCEPT !.settings.port = settings.port]
  <2>0. loaded = [s |-> second, ok |-> TRUE]
    BY <1>10 DEF load_communications_config
  <2>1. loaded = [s |-> done, ok |-> TRUE]
    <3> HIDE DEF first, loaded
    <3>1. first = timed
      BY <1>5 DEF first
    <3> QED
      BY <1>6, <2>0, <3>1
  <2>2. SettingsGood(settings)
    BY <1>0, <1>10 DEF SettingsGood
  <2> HIDE DEF loaded, done
  <2>3. loaded.s = done /\ loaded.ok
    BY <2>1
  <2> QED
    BY <1>3, <1>4, <1>7, <1>8, <2>2, <2>3 DEF loaded
<1>11. CASE ~(settings.timeout < 1) /\ settings.port \notin Ports
  <2> DEFINE first == [s EXCEPT !.settings.timeout = settings.timeout]
  <2>0. loaded = [s |-> first, ok |-> FALSE]
    BY <1>11 DEF load_communications_config
  <2>1. loaded = [s |-> timed, ok |-> FALSE]
    <3> HIDE DEF first, loaded
    <3>1. first = timed
      BY <1>5 DEF first
    <3> QED
      BY <2>0, <3>1
  <2>2. ~SettingsGood(settings)
    BY <1>11 DEF SettingsGood
  <2> HIDE DEF loaded
  <2>3. loaded.s = timed /\ ~loaded.ok
    BY <2>1
  <2> QED
    BY <1>4, <2>2, <2>3 DEF loaded
<1> HIDE DEF loaded
<1> QED
  BY <1>9, <1>10, <1>11 DEF loaded

\* What a Restore, as far as it gets, leaves of the program: more windows, and
\* possibly a new trend.
Reads(s, t, left) ==
    /\ WindowsKnown(t) /\ s.registered \subseteq t.registered
    /\ TrendsKnown(t, left) /\ t.trend \notin DOMAIN s.trends
    /\ DOMAIN s.trends \subseteq DOMAIN t.trends
    /\ \A id \in DOMAIN s.trends : t.trends[id] = s.trends[id]

FileTyped(f) ==
    /\ f.settings \in [timeout : Int, port : Int]
    /\ f.windows \in Seq(Elements)

\* All of a file has been read.
ReadWhole(s, t, f) ==
    /\ Len(s.windows) \in Nat
    /\ t.settings = f.settings
    /\ t.registered = s.registered \cup (Len(s.windows) + 1)..Len(t.windows)
    /\ (\A i \in DOMAIN f.windows : Accepted(f.windows[i])) =>
          AllOpened(s, t, f.windows, Len(f.windows))
    /\ t.trend = NoTrend <=> f.trend = "none"

Readable(f) ==
    /\ f.damage # "unreadable" /\ SettingsGood(f.settings)
    /\ \A i \in DOMAIN f.windows : Loadable(f.windows[i])
    /\ f.trend \in {"none", "saved"}

LEMMA LoadedSession ==
    ASSUME NEW s, WindowsKnown(s), s.trend = NoTrend, NEW left, left \subseteq DOMAIN s.trends,
           TrendsKnown(s, left), NEW f, FileTyped(f)
    PROVE  LET loaded == load_config(s, f)
           IN  /\ Reads(s, loaded.s, left)
               /\ loaded.ok <=> Readable(f)
               /\ loaded.ok => ReadWhole(s, loaded.s, f)
<1> DEFINE loaded == load_config(s, f)
           comms == load_communications_config(s, f.settings)
           windows == load_windows(comms.s, f.windows)
           trend == load_trend(windows.s, f.trend)
<1>0. s \in UI /\ NoTrend \notin DOMAIN s.trends
  <2>1. s.trends \in Seq(TrendSet) /\ s \in UI
    BY UIFields DEF WindowsKnown
  <2> QED
    BY <2>1 DEF NoTrend
<1>1. /\ comms.s \in UI /\ SettingsOnly(s, comms.s)
      /\ comms.ok <=> SettingsGood(f.settings)
      /\ comms.ok => comms.s.settings = f.settings
  BY <1>0, LoadedSettings DEF FileTyped
<1>2. WindowsKnown(comms.s) /\ TrendsKnown(comms.s, left)
  BY <1>1, WindowsKept, TrendsKept DEF SettingsOnly
<1> HIDE DEF comms
<1>3. /\ Grown(comms.s, windows.s)
      /\ windows.ok <=> \A i \in DOMAIN f.windows : Loadable(f.windows[i])
      /\ (\A i \in DOMAIN f.windows : Accepted(f.windows[i])) =>
            AllOpened(comms.s, windows.s, f.windows, Len(f.windows))
  BY <1>2, LoadedWindows DEF FileTyped
<1> HIDE DEF windows
<1>4. /\ WindowsKnown(windows.s) /\ WindowsOnly(comms.s, windows.s)
      /\ TrendsKnown(windows.s, left) /\ windows.s \in UI
      /\ s.registered \subseteq windows.s.registered
      /\ windows.s.registered = s.registered \cup (Len(s.windows) + 1)..Len(windows.s.windows)
      /\ Len(s.windows) \in Nat
  <2>1. WindowsKnown(windows.s) /\ WindowsOnly(comms.s, windows.s)
    BY <1>3 DEF Grown
  <2>2. TrendsKnown(windows.s, left)
    BY <1>2, <2>1, TrendsKept DEF WindowsOnly
  <2>3. comms.s.windows = s.windows /\ comms.s.registered = s.registered
    BY <1>1 DEF SettingsOnly
  <2>4. windows.s.registered = s.registered \cup (Len(s.windows) + 1)..Len(windows.s.windows)
        /\ Len(s.windows) \in Nat
    BY <1>3, <2>3 DEF Grown
  <2> QED
    BY <2>1, <2>2, <2>4 DEF WindowsKnown
<1>5. /\ windows.s.trends = s.trends /\ windows.s.trend = NoTrend
      /\ windows.s.settings = comms.s.settings
  BY <1>1, <1>4 DEF WindowsOnly, SettingsOnly
<1>6. Reads(s, s, left) /\ Reads(s, comms.s, left) /\ Reads(s, windows.s, left)
  BY <1>0, <1>1, <1>2, <1>4, <1>5 DEF Reads, SettingsOnly
<1>7. CASE f.damage = "unreadable"
  <2>1. loaded.s = s /\ ~loaded.ok
    BY <1>7 DEF load_config
  <2> HIDE DEF loaded
  <2> QED
    BY <1>6, <1>7, <2>1 DEF Readable, loaded
<1>8. CASE f.damage # "unreadable" /\ ~comms.ok
  <2>1. loaded = comms
    BY <1>8 DEF load_config, comms
  <2> HIDE DEF loaded
  <2> QED
    BY <1>1, <1>6, <1>8, <2>1 DEF Readable, loaded
<1>9. CASE f.damage # "unreadable" /\ comms.ok /\ ~windows.ok
  <2>1. loaded = windows
    BY <1>9 DEF load_config, comms, windows
  <2> HIDE DEF loaded
  <2> QED
    BY <1>3, <1>6, <1>9, <2>1 DEF Readable, loaded
<1>10. CASE f.damage # "unreadable" /\ comms.ok /\ windows.ok
  <2>1. loaded = trend
    BY <1>10 DEF load_config, comms, windows
  <2>2. /\ Reads(s, trend.s, left)
        /\ trend.ok <=> f.trend \in {"none", "saved"}
        /\ trend.s.trend = NoTrend <=> f.trend = "none"
        /\ TrendsOnly(windows.s, trend.s)
    <3>1. CASE f.trend = "none"
      <4>1. trend.s = windows.s /\ trend.ok
        BY <3>1 DEF load_trend
      <4> HIDE DEF trend
      <4> QED
        BY <1>5, <1>6, <3>1, <4>1 DEF TrendsOnly
    <3>2. CASE f.trend # "none"
      <4> DEFINE opened == on_actionTrend_triggered(windows.s)
      <4>1. trend.s = opened /\ (trend.ok <=> f.trend = "saved")
        BY <3>2 DEF load_trend
      <4> HIDE DEF trend
      <4>2. /\ opened \in UI /\ TrendsOnly(windows.s, opened) /\ TrendsKnown(opened, left)
            /\ opened.trend \in DOMAIN opened.trends \ DOMAIN s.trends /\ opened.trend # NoTrend
            /\ DOMAIN s.trends \subseteq DOMAIN opened.trends
            /\ \A id \in DOMAIN s.trends : opened.trends[id] = s.trends[id]
        BY <1>4, <1>5, TrendOpened
      <4> HIDE DEF opened
      <4>3. WindowsKnown(opened) /\ opened.registered = windows.s.registered
        BY <1>4, <4>2, WindowsKept DEF TrendsOnly
      <4>4. Reads(s, opened, left)
        BY <1>4, <4>2, <4>3 DEF Reads
      <4> QED
        BY <3>2, <4>1, <4>2, <4>4
    <3> QED
      BY <3>1, <3>2
  <2> HIDE DEF loaded, trend
  <2>3. loaded.ok <=> Readable(f)
    BY <1>1, <1>3, <1>10, <2>1, <2>2 DEF Readable
  <2>4. ReadWhole(s, loaded.s, f)
    <3>1. /\ loaded.s.windows = windows.s.windows /\ loaded.s.registered = windows.s.registered
          /\ loaded.s.settings = f.settings
      BY <1>1, <1>5, <1>10, <2>1, <2>2 DEF TrendsOnly
    <3>2. comms.s.windows = s.windows
      BY <1>1 DEF SettingsOnly
    <3>3. (\A i \in DOMAIN f.windows : Accepted(f.windows[i])) =>
             AllOpened(s, loaded.s, f.windows, Len(f.windows))
      BY <1>3, <3>1, <3>2 DEF AllOpened
    <3> QED
      BY <1>4, <2>1, <2>2, <3>1, <3>3 DEF ReadWhole
  <2> QED
    BY <2>1, <2>2, <2>3, <2>4 DEF loaded
<1> QED
  BY <1>7, <1>8, <1>9, <1>10

-----------------------------------------------------------------------------
(* What Restore closes in the end.                                         *)

\* The program's trend is closed and trend takes its place.
LEMMA Swapped ==
    ASSUME NEW s, WindowsKnown(s), NEW id \in DOMAIN s.trends, id # NoTrend, id = s.trend,
           s.trends[id].dialog = Shown, NEW trend \in Nat
    PROVE  LET t == WithPointer(CloseTrend(trend_on_closed(s, id), id), trend)
           IN  /\ WindowsKnown(t) /\ TrendsOnly(s, t) /\ t.trend = trend
               /\ DOMAIN t.trends = DOMAIN s.trends
               /\ t.trends[id].dialog = Closed /\ ~t.trends[id].wired
               /\ \A i \in DOMAIN s.trends \ {id} : t.trends[i] = s.trends[i]
<1> DEFINE closed == CloseTrend(trend_on_closed(s, id), id)
           t == WithPointer(closed, trend)
<1>1. TrendIs(s, closed, id, Closed, FALSE)
  BY TrendReplaced DEF WindowsKnown
<1> HIDE DEF closed
<1>2. t \in UI /\ TrendsOnly(closed, t) /\ t.trend = trend /\ t.trends = closed.trends
  BY <1>1, PointerSet DEF TrendIs
<1> HIDE DEF t
<1>3. TrendsOnly(s, t)
  BY <1>1, <1>2 DEF TrendsOnly, TrendIs
<1>4. WindowsKnown(t)
  BY <1>2, <1>3, WindowsKept DEF TrendsOnly
<1> QED
  BY <1>1, <1>2, <1>3, <1>4 DEF TrendIs, t, closed

\* The program before Restore, and after its file has been read to where it went.
BeforeAfter(before, loaded) ==
    /\ WindowsKnown(before) /\ TrendsKnown(before, forgotten)
    /\ forgotten \subseteq DOMAIN before.trends /\ before.trend \notin forgotten
    /\ Reads(WithPointer(before, NoTrend), loaded, forgotten \cup ({before.trend} \ {NoTrend}))

\* The windows of the session before are gone, and what is left is known.
Replaced(before, loaded, t, left) ==
    /\ WindowsKnown(t) /\ TrendsKnown(t, left)
    /\ t.registered = loaded.registered \ before.registered
    /\ DOMAIN before.trends \subseteq DOMAIN t.trends /\ t.trend \notin left
    /\ \A id \in DOMAIN loaded.windows \ before.registered : t.windows[id] = loaded.windows[id]

LEMMA ReadFacts ==
    ASSUME NEW before, NEW loaded, BeforeAfter(before, loaded)
    PROVE  /\ WindowsKnown(loaded) /\ before.registered \subseteq loaded.registered
           /\ loaded.trend \notin DOMAIN before.trends /\ NoTrend \notin DOMAIN loaded.trends
           /\ loaded.trend \in {NoTrend} \cup DOMAIN loaded.trends
           /\ before.trend \in {NoTrend} \cup DOMAIN before.trends
           /\ DOMAIN before.trends \subseteq DOMAIN loaded.trends
           /\ \A id \in DOMAIN before.trends : loaded.trends[id] = before.trends[id]
           /\ before.trend # NoTrend => loaded.trends[before.trend].dialog = Shown
                                         /\ loaded.trends[before.trend].wired
           /\ loaded.trend # NoTrend => loaded.trends[loaded.trend].dialog = Shown
                                         /\ loaded.trends[loaded.trend].wired
           /\ \A id \in DOMAIN loaded.trends \ (forgotten \cup {before.trend, loaded.trend}) :
                 loaded.trends[id].dialog = Closed /\ ~loaded.trends[id].wired
           /\ before.trend \in Nat /\ loaded.trend \in Nat
<1> DEFINE s == WithPointer(before, NoTrend)
           left == forgotten \cup ({before.trend} \ {NoTrend})
<1>1. before \in UI /\ before.trend \in Nat /\ NoTrend \in Nat
  BY UIFields DEF BeforeAfter, WindowsKnown, NoTrend
<1>2. s.trends = before.trends /\ s.registered = before.registered
  BY <1>1, PointerSet DEF TrendsOnly
<1>3. Reads(s, loaded, left)
  BY DEF BeforeAfter
<1>4. WindowsKnown(loaded) /\ loaded.trend \in Nat /\ NoTrend \notin DOMAIN loaded.trends
  <2>1. WindowsKnown(loaded)
    BY <1>3 DEF Reads
  <2>2. loaded.trends \in Seq(TrendSet) /\ loaded.trend \in Nat
    BY <2>1, UIFields DEF WindowsKnown
  <2> QED
    BY <2>1, <2>2 DEF NoTrend
<1> HIDE DEF s
<1>5. /\ before.registered \subseteq loaded.registered
      /\ loaded.trend \notin DOMAIN before.trends
      /\ DOMAIN before.trends \subseteq DOMAIN loaded.trends
      /\ \A id \in DOMAIN before.trends : loaded.trends[id] = before.trends[id]
      /\ TrendsKnown(loaded, left)
  BY <1>2, <1>3 DEF Reads
<1>6. /\ before.trend \in {NoTrend} \cup DOMAIN before.trends
      /\ before.trend # NoTrend => before.trends[before.trend].dialog = Shown
                                   /\ before.trends[before.trend].wired
  BY DEF BeforeAfter, TrendsKnown
<1>7. \A id \in DOMAIN loaded.trends \ (forgotten \cup {before.trend, loaded.trend}) :
         loaded.trends[id].dialog = Closed /\ ~loaded.trends[id].wired
  BY <1>5 DEF TrendsKnown
<1> HIDE DEF left
<1>8. /\ loaded.trend \in {NoTrend} \cup DOMAIN loaded.trends
      /\ loaded.trend # NoTrend => loaded.trends[loaded.trend].dialog = Shown
                                   /\ loaded.trends[loaded.trend].wired
  BY <1>5 DEF TrendsKnown
<1> QED
  BY <1>1, <1>4, <1>5, <1>6, <1>7, <1>8

\* The old windows are closed last.
LEMMA OldClosed ==
    ASSUME NEW before, NEW loaded, BeforeAfter(before, loaded),
           NEW closed, WindowsKnown(closed), NEW left, TrendsKnown(closed, left),
           closed.windows = loaded.windows, closed.registered = loaded.registered,
           DOMAIN before.trends \subseteq DOMAIN closed.trends, closed.trend \notin left
    PROVE  LET t == CloseWindows(closed, before.registered)
           IN  /\ Replaced(before, loaded, t, left)
               /\ t.trend = closed.trend /\ t.settings = closed.settings
<1> DEFINE t == CloseWindows(closed, before.registered)
<1>1. before.registered \subseteq closed.registered
  BY ReadFacts
<1>2. /\ WindowsKnown(t) /\ WindowsOnly(closed, t)
      /\ t.registered = closed.registered \ before.registered
      /\ \A id \in DOMAIN closed.windows \ before.registered : t.windows[id] = closed.windows[id]
  BY <1>1, ClosedWindows
<1> HIDE DEF t
<1>3. TrendsKnown(t, left)
  BY <1>2, TrendsKept DEF WindowsOnly
<1>4. t.trends = closed.trends /\ t.trend = closed.trend /\ t.settings = closed.settings
  BY <1>2 DEF WindowsOnly
<1>5. Replaced(before, loaded, t, left)
  BY <1>2, <1>3, <1>4 DEF Replaced
<1> QED
  BY <1>4, <1>5 DEF t

LEMMA RestoredKnown ==
    ASSUME NEW before, NEW loaded, BeforeAfter(before, loaded)
    PROVE  LET t == Restored(loaded, before)
           IN  /\ Replaced(before, loaded, t, forgotten)
               /\ t.trend = loaded.trend /\ t.settings = loaded.settings
<1> DEFINE old == before.trend
           pointed == WithPointer(loaded, old)
           swapped == WithPointer(CloseTrend(trend_on_closed(pointed, old), old), loaded.trend)
           t == Restored(loaded, before)
<1>1. /\ WindowsKnown(loaded) /\ before.registered \subseteq loaded.registered
      /\ loaded.trend \notin DOMAIN before.trends /\ NoTrend \notin DOMAIN loaded.trends
      /\ loaded.trend \in {NoTrend} \cup DOMAIN loaded.trends
      /\ DOMAIN before.trends \subseteq DOMAIN loaded.trends
      /\ loaded.trend # NoTrend => loaded.trends[loaded.trend].dialog = Shown
                                   /\ loaded.trends[loaded.trend].wired
      /\ \A id \in DOMAIN loaded.trends \ (forgotten \cup {before.trend, loaded.trend}) :
            loaded.trends[id].dialog = Closed /\ ~loaded.trends[id].wired
      /\ before.trend \in Nat /\ loaded.trend \in Nat
      /\ forgotten \subseteq DOMAIN before.trends
  BY ReadFacts DEF BeforeAfter
<1>2. loaded.trend \notin forgotten
  BY <1>1
<1>3. CASE old = NoTrend
  <2>1. t = CloseWindows(loaded, before.registered)
    BY <1>3 DEF Restored
  <2>2. TrendsKnown(loaded, forgotten)
    BY <1>1, <1>3 DEF TrendsKnown
  <2> HIDE DEF t
  <2> QED
    BY <1>1, <1>2, <2>1, <2>2, OldClosed DEF t
<1>4. CASE old # NoTrend
  <2>1. t = CloseWindows(swapped, before.registered)
    BY <1>4 DEF Restored, WithPointer
  <2>2. old \in DOMAIN before.trends /\ loaded.trends[old].dialog = Shown
    BY <1>4, ReadFacts
  <2>3. pointed \in UI /\ TrendsOnly(loaded, pointed) /\ pointed.trend = old /\ pointed.trends = loaded.trends
    BY <1>1, PointerSet DEF WindowsKnown
  <2> HIDE DEF pointed
  <2>4. WindowsKnown(pointed)
    BY <1>1, <2>3, WindowsKept DEF TrendsOnly
  <2>5. /\ WindowsKnown(swapped) /\ TrendsOnly(pointed, swapped) /\ swapped.trend = loaded.trend
        /\ DOMAIN swapped.trends = DOMAIN pointed.trends
        /\ swapped.trends[old].dialog = Closed /\ ~swapped.trends[old].wired
        /\ \A i \in DOMAIN pointed.trends \ {old} : swapped.trends[i] = pointed.trends[i]
    BY <1>1, <1>4, <2>2, <2>3, <2>4, Swapped
  <2> HIDE DEF swapped, t, old
  <2>6. loaded.trend # old
    BY <1>1, <2>2
  <2>7. TrendsKnown(swapped, forgotten)
    <3>1. loaded.trend # NoTrend => swapped.trends[loaded.trend] = loaded.trends[loaded.trend]
      BY <1>1, <2>3, <2>5, <2>6
    <3>2. ASSUME NEW id \in DOMAIN swapped.trends \ (forgotten \cup {swapped.trend})
          PROVE  swapped.trends[id].dialog = Closed /\ ~swapped.trends[id].wired
      <4>1. CASE id = old
        BY <2>5, <4>1
      <4>2. CASE id # old
        <5>1. swapped.trends[id] = loaded.trends[id]
          BY <2>3, <2>5, <4>2
        <5> QED
          BY <1>1, <2>3, <2>5, <4>2, <5>1 DEF old
      <4> QED
        BY <4>1, <4>2
    <3> QED
      BY <1>1, <2>3, <2>5, <3>1, <3>2 DEF TrendsKnown
  <2>8. swapped.windows = loaded.windows /\ swapped.registered = loaded.registered
        /\ swapped.settings = loaded.settings
    BY <2>3, <2>5 DEF TrendsOnly
  <2>9. DOMAIN before.trends \subseteq DOMAIN swapped.trends /\ swapped.trend \notin forgotten
    BY <1>1, <1>2, <2>3, <2>5
  <2> QED
    BY <2>1, <2>5, <2>7, <2>8, <2>9, OldClosed DEF t
<1> QED
  BY <1>3, <1>4

LEMMA RestoreFailedKnown ==
    ASSUME NEW before, NEW loaded, BeforeAfter(before, loaded)
    PROVE  LET t == RestoreFailed(loaded, before)
               left == IF loaded.trend # NoTrend THEN forgotten
                       ELSE forgotten \cup ({before.trend} \ {NoTrend})
           IN  Replaced(before, loaded, t, left) /\ t.settings = before.settings
<1> DEFINE new == loaded.trend
           swapped == WithPointer(CloseTrend(trend_on_closed(loaded, new), new), before.trend)
           t == RestoreFailed(loaded, before)
           left == IF loaded.trend # NoTrend THEN forgotten
                   ELSE forgotten \cup ({before.trend} \ {NoTrend})
<1>1. /\ WindowsKnown(loaded) /\ before.registered \subseteq loaded.registered
      /\ loaded.trend \notin DOMAIN before.trends /\ NoTrend \notin DOMAIN loaded.trends
      /\ loaded.trend \in {NoTrend} \cup DOMAIN loaded.trends
      /\ before.trend \in {NoTrend} \cup DOMAIN before.trends
      /\ DOMAIN before.trends \subseteq DOMAIN loaded.trends
      /\ before.trend # NoTrend => loaded.trends[before.trend].dialog = Shown
                                   /\ loaded.trends[before.trend].wired
      /\ loaded.trend # NoTrend => loaded.trends[loaded.trend].dialog = Shown
      /\ \A id \in DOMAIN loaded.trends \ (forgotten \cup {before.trend, loaded.trend}) :
            loaded.trends[id].dialog = Closed /\ ~loaded.trends[id].wired
      /\ before.trend \in Nat /\ loaded.trend \in Nat
      /\ forgotten \subseteq DOMAIN before.trends /\ before.trend \notin forgotten
  BY ReadFacts DEF BeforeAfter
<1>2. before.settings \in [timeout : Int, port : Int]
  BY UIFields DEF BeforeAfter, WindowsKnown
\* The settings are put back last of all.
<1>3. ASSUME NEW closed, WindowsKnown(closed), TrendsKnown(closed, left),
             closed.windows = loaded.windows, closed.registered = loaded.registered,
             DOMAIN before.trends \subseteq DOMAIN closed.trends, closed.trend \notin left,
             t = WithSettings(CloseWindows(closed, before.registered), before.settings)
      PROVE  Replaced(before, loaded, t, left) /\ t.settings = before.settings
  <2> DEFINE u == CloseWindows(closed, before.registered)
  <2> HIDE DEF left
  <2>1. Replaced(before, loaded, u, left)
    BY <1>3, OldClosed
  <2> HIDE DEF u, t
  <2>2. t \in UI /\ SettingsOnly(u, t) /\ t.settings = before.settings
    <3>1. u \in UI
      BY <2>1 DEF Replaced, WindowsKnown
    <3>2. t = WithSettings(u, before.settings)
      BY <1>3 DEF u
    <3> QED
      BY <1>2, <3>1, <3>2, SettingsSet
  <2>3. WindowsKnown(t) /\ TrendsKnown(t, left)
    BY <2>1, <2>2, WindowsKept, TrendsKept DEF Replaced, SettingsOnly
  <2> QED
    BY <2>1, <2>2, <2>3 DEF Replaced, SettingsOnly
<1>4. CASE new = NoTrend
  <2>1. t = WithSettings(CloseWindows(loaded, before.registered), before.settings)
    BY <1>4 DEF RestoreFailed, WithSettings
  <2>2. left = forgotten \cup ({before.trend} \ {NoTrend})
    BY <1>4
  <2>3. TrendsKnown(loaded, left)
    BY <1>1, <1>4, <2>2 DEF TrendsKnown
  <2>4. loaded.trend \notin left
    BY <1>1, <1>4, <2>2
  <2> HIDE DEF t, left
  <2> QED
    BY <1>1, <1>3, <2>1, <2>3, <2>4 DEF t, left
<1>5. CASE new # NoTrend
  <2>1. t = WithSettings(CloseWindows(swapped, before.registered), before.settings)
    BY <1>5 DEF RestoreFailed, WithPointer, WithSettings
  <2>2. left = forgotten
    BY <1>5
  <2>3. /\ WindowsKnown(swapped) /\ TrendsOnly(loaded, swapped) /\ swapped.trend = before.trend
        /\ DOMAIN swapped.trends = DOMAIN loaded.trends
        /\ swapped.trends[new].dialog = Closed /\ ~swapped.trends[new].wired
        /\ \A i \in DOMAIN loaded.trends \ {new} : swapped.trends[i] = loaded.trends[i]
    BY <1>1, <1>5, Swapped
  <2> HIDE DEF swapped, t, left
  <2>4. TrendsKnown(swapped, left)
    <3>1. before.trend # NoTrend => swapped.trends[before.trend] = loaded.trends[before.trend]
      BY <1>1, <2>3
    <3>2. ASSUME NEW id \in DOMAIN swapped.trends \ (left \cup {swapped.trend})
          PROVE  swapped.trends[id].dialog = Closed /\ ~swapped.trends[id].wired
      <4>1. CASE id = new
        BY <2>3, <4>1
      <4>2. CASE id # new
        <5>1. swapped.trends[id] = loaded.trends[id]
          BY <2>3, <4>2
        <5> QED
          BY <1>1, <2>2, <2>3, <4>2, <5>1
      <4> QED
        BY <4>1, <4>2
    <3> QED
      BY <1>1, <2>3, <3>1, <3>2 DEF TrendsKnown
  <2>5. swapped.windows = loaded.windows /\ swapped.registered = loaded.registered
    BY <2>3 DEF TrendsOnly
  <2>6. DOMAIN before.trends \subseteq DOMAIN swapped.trends /\ swapped.trend \notin left
    BY <1>1, <2>2, <2>3
  <2> QED
    BY <1>3, <2>1, <2>3, <2>4, <2>5, <2>6 DEF t, left
<1> QED
  BY <1>4, <1>5

-----------------------------------------------------------------------------
(* The invariant, while the program runs.                                  *)

KnownState ==
    /\ WindowsKnown(ui) /\ TrendsKnown(ui, forgotten)
    /\ ui.trend_menu <=> ui.trend = NoTrend
    /\ forgotten \subseteq DOMAIN ui.trends /\ ui.trend \notin forgotten

Outcomes == {"none", "restored", "failed", "crashed", "exited"}

\* What is not about the windows and trends.
RestTyped == ui.settings \in SettingsOf /\ outcome \in Outcomes /\ restores \in 0..MaxRestores

LEMMA InvKnown ==
    ASSUME SessionInv, outcome # "exited"
    PROVE  KnownState /\ RestTyped /\ FileInv
<1>1. ui \in UI /\ ui.registered \subseteq DOMAIN ui.windows
      /\ \A id \in ui.registered : ui.windows[id].config \in Configs
  BY DEF SessionInv, TypeOK
<1>2. /\ \A id \in DOMAIN ui.windows :
            /\ ui.windows[id].dialog.visible <=> id \in ui.registered
            /\ ui.windows[id].wired <=> id \in ui.registered
      /\ \A id \in DOMAIN ui.trends :
            id \notin forgotten =>
                /\ ui.trends[id].dialog.visible <=> id = ui.trend
                /\ ui.trends[id].wired <=> id = ui.trend
      /\ ui.trend_menu <=> ui.trend = NoTrend
  BY DEF SessionInv, NoOrphans
<1>3. forgotten \subseteq DOMAIN ui.trends /\ ui.trend \notin forgotten
      /\ ui.trend \in {NoTrend} \cup DOMAIN ui.trends
  BY DEF SessionInv, ForgottenInv, TypeOK
<1>4. /\ \A id \in DOMAIN ui.windows : ui.windows[id].dialog \in {Shown, Closed}
      /\ \A id \in DOMAIN ui.trends : ui.trends[id].dialog \in {Shown, Closed}
  <2>1. ui.windows \in Seq(WindowSet) /\ ui.trends \in Seq(TrendSet)
    BY <1>1, UIFields
  <2>2. /\ \A id \in DOMAIN ui.windows : ui.windows[id] \in WindowSet
        /\ \A id \in DOMAIN ui.trends : ui.trends[id] \in TrendSet
    BY <2>1
  <2> QED
    BY <2>2 DEF WindowSet, TrendSet
<1>5. WindowsKnown(ui)
  BY <1>1, <1>2, <1>4, DialogLife DEF WindowsKnown
<1>6. TrendsKnown(ui, forgotten)
  BY <1>2, <1>3, <1>4, DialogLife DEF TrendsKnown
<1>7. RestTyped /\ FileInv
  BY DEF SessionInv, TypeOK, RestTyped, Outcomes
<1> QED
  BY <1>2, <1>3, <1>5, <1>6, <1>7 DEF KnownState

LEMMA DialogsLive ==
    ASSUME ui \in UI
    PROVE  LifeCycleKept
<1>1. ui.windows \in Seq(WindowSet) /\ ui.trends \in Seq(TrendSet)
  BY UIFields
<1>2. \A w \in Dialogs : w \in WindowSet \/ w \in TrendSet
  BY <1>1 DEF Dialogs
<1>3. \A w \in Dialogs : w.dialog \in {Shown, Closed}
  BY <1>2 DEF WindowSet, TrendSet
<1> QED
  BY <1>3, DialogLife DEF LifeCycleKept

LEMMA KnownInv ==
    ASSUME KnownState, RestTyped, FileInv
    PROVE  SessionInv
<1>1. /\ ui \in UI /\ ui.registered \subseteq DOMAIN ui.windows
      /\ \A id \in ui.registered :
            ui.windows[id].config \in Configs /\ ui.windows[id].dialog = Shown /\ ui.windows[id].wired
      /\ \A id \in DOMAIN ui.windows \ ui.registered :
            ui.windows[id].dialog = Closed /\ ~ui.windows[id].wired
  BY DEF KnownState, WindowsKnown
<1>2. /\ ui.trend \in {NoTrend} \cup DOMAIN ui.trends
      /\ ui.trend # NoTrend => ui.trends[ui.trend].dialog = Shown /\ ui.trends[ui.trend].wired
      /\ \A id \in DOMAIN ui.trends \ (forgotten \cup {ui.trend}) :
            ui.trends[id].dialog = Closed /\ ~ui.trends[id].wired
      /\ ui.trend_menu <=> ui.trend = NoTrend
  BY DEF KnownState, TrendsKnown
<1>3. NoTrend \notin DOMAIN ui.trends
  BY <1>1, UIFields DEF NoTrend
<1>4. TypeOK
  BY <1>1, <1>2 DEF TypeOK, RestTyped, Outcomes
<1>5. NoOrphans
  <2>1. ASSUME NEW id \in DOMAIN ui.windows
        PROVE  /\ ui.windows[id].dialog.visible <=> id \in ui.registered
               /\ ui.windows[id].wired <=> id \in ui.registered
    <3>1. CASE id \in ui.registered
      BY <1>1, <3>1, DialogLife
    <3>2. CASE id \notin ui.registered
      <4>1. ui.windows[id].dialog = Closed /\ ~ui.windows[id].wired
        <5>1. id \in DOMAIN ui.windows \ ui.registered
          BY <3>2
        <5> QED
          BY <5>1 DEF KnownState, WindowsKnown
      <4> QED
        BY <3>2, <4>1, DialogLife
    <3> QED
      BY <3>1, <3>2
  <2>2. ASSUME NEW id \in DOMAIN ui.trends, id \notin forgotten
        PROVE  /\ ui.trends[id].dialog.visible <=> id = ui.trend
               /\ ui.trends[id].wired <=> id = ui.trend
    <3>1. CASE id = ui.trend
      BY <1>2, <1>3, <3>1, DialogLife
    <3>2. CASE id # ui.trend
      BY <1>2, <2>2, <3>2, DialogLife
    <3> QED
      BY <3>1, <3>2
  <2> QED
    BY <1>2, <2>1, <2>2 DEF NoOrphans
<1> QED
  BY <1>1, <1>4, <1>5, DialogsLive DEF SessionInv, KnownState, ForgottenInv

LEMMA SessionStart ==
    ASSUME Init
    PROVE  SessionInv
<1>1. PICK settings \in SettingsOf : ui = Empty(settings)
  BY DEF Init
<1>2. settings \in [timeout : Int, port : Int]
  BY SessionAssumption
<1>3. ui \in UI
  <2>1. <<>> \in Seq(WindowSet) /\ <<>> \in Seq(TrendSet)
    BY EmptySeq
  <2> QED
    BY <1>1, <1>2, <2>1 DEF UI, Empty, NoTrend, WindowSet, TrendSet
<1>4. ui.windows = <<>> /\ ui.registered = {} /\ ui.trends = <<>> /\ ui.trend = NoTrend
      /\ ui.trend_menu = TRUE /\ ui.settings = settings
  BY <1>1 DEF Empty
<1>5. DOMAIN ui.windows = {} /\ DOMAIN ui.trends = {}
  BY <1>4
<1>6. WindowsKnown(ui)
  BY <1>3, <1>4, <1>5 DEF WindowsKnown
<1>7. KnownState
  BY <1>4, <1>5, <1>6 DEF KnownState, TrendsKnown, Init
<1>8. RestTyped
  <2>0. MaxRestores \in Nat
    BY SessionAssumption
  <2>1. MaxRestores \in 0..MaxRestores
    BY <2>0
  <2> QED
    BY <1>1, <1>4, <2>1 DEF RestTyped, Outcomes, Init
<1>9. FileInv
  BY DEF FileInv, Init
<1> QED
  BY <1>7, <1>8, <1>9, KnownInv

LEMMA KnownInvNext == KnownState' /\ RestTyped' /\ FileInv' => SessionInv'
<1>1. KnownState /\ RestTyped /\ FileInv => SessionInv
  BY KnownInv
<1> QED
  BY <1>1, PTL

\* A step that only changes windows, and keeps them known.
LEMMA WindowStep ==
    ASSUME KnownState, RestTyped, FileInv, WindowsKnown(ui'), WindowsOnly(ui, ui'),
           UNCHANGED <<file, outcome, forgotten, restores>>
    PROVE  SessionInv'
<1>1. ui'.trends = ui.trends /\ ui'.trend = ui.trend /\ ui'.trend_menu = ui.trend_menu
      /\ ui'.settings = ui.settings
  BY DEF WindowsOnly
<1>2. TrendsKnown(ui', forgotten)
  BY <1>1, TrendsKept DEF KnownState
<1>3. KnownState'
  BY <1>1, <1>2 DEF KnownState
<1>4. RestTyped'
  BY <1>1 DEF RestTyped
<1>5. FileInv'
  BY DEF FileInv
<1> QED
  BY <1>3, <1>4, <1>5, KnownInvNext

\* A step that only changes trends.
LEMMA TrendStep ==
    ASSUME KnownState, RestTyped, FileInv, ui' \in UI, TrendsOnly(ui, ui'),
           TrendsKnown(ui', forgotten), ui'.trend_menu <=> ui'.trend = NoTrend,
           DOMAIN ui.trends \subseteq DOMAIN ui'.trends, ui'.trend \notin forgotten,
           UNCHANGED <<file, outcome, forgotten, restores>>
    PROVE  SessionInv'
<1>1. WindowsKnown(ui')
  BY WindowsKept DEF KnownState, TrendsOnly
<1>2. KnownState'
  BY <1>1 DEF KnownState
<1>3. RestTyped'
  BY DEF RestTyped, TrendsOnly
<1>4. FileInv'
  BY DEF FileInv
<1> QED
  BY <1>2, <1>3, <1>4, KnownInvNext

-----------------------------------------------------------------------------
(* Windows are opened, changed and left.                                   *)

LEMMA NewWindowKeeps ==
    ASSUME KnownState, RestTyped, FileInv, NEW kind \in OpenedKinds, NewWindow(kind)
    PROVE  SessionInv'
<1> DEFINE first == FirstRegister(kind)
           config == [kind |-> kind, start |-> first, count |-> 32, node |-> 0]
<1>1. kind \in Kinds
  BY SessionAssumption
<1>2. first \in FileRegisters /\ 32 <= MaxRegs(first) /\ first \in RegistersOf(kind)
  <2>1. CASE kind = "CoilsDisplay"
    <3>1. first = 1
      BY <2>1, KindRanges
    <3> HIDE DEF first
    <3>2. first \in FileRegisters
      BY <3>1 DEF FileRegisters
    <3>3. 32 <= MaxRegs(first)
      BY <3>1 DEF MaxRegs
    <3> QED
      BY <2>1, <3>1, <3>2, <3>3, OwnRegisters
  <2>2. CASE kind = "InputsDisplay"
    <3>1. first = 10001
      BY <2>2, KindRanges
    <3> HIDE DEF first
    <3>2. first \in FileRegisters
      BY <3>1 DEF FileRegisters
    <3>3. 32 <= MaxRegs(first)
      BY <3>1 DEF MaxRegs
    <3> QED
      BY <2>2, <3>1, <3>2, <3>3, OwnRegisters
  <2>3. CASE kind = "RegisterDisplay"
    <3>1. first = 30001
      BY <2>3, KindRanges
    <3> HIDE DEF first
    <3>2. first \in FileRegisters
      BY <3>1 DEF FileRegisters
    <3>3. 32 <= MaxRegs(first)
      BY <3>1 DEF MaxRegs
    <3> QED
      BY <2>3, <3>1, <3>2, <3>3, OwnRegisters
  <2>4. CASE kind = "HoldingRegisterDisplay"
    <3>1. first = 40001
      BY <2>4, KindRanges
    <3> HIDE DEF first
    <3>2. first \in FileRegisters
      BY <3>1 DEF FileRegisters
    <3>3. 32 <= MaxRegs(first)
      BY <3>1 DEF MaxRegs
    <3> QED
      BY <2>4, <3>1, <3>2, <3>3, OwnRegisters
  <2> QED
    BY <1>1, <2>1, <2>2, <2>3, <2>4 DEF Kinds
<1>3. config \in Configs
  <2> HIDE DEF first
  <2>1. config \in [kind : Kinds, start : FileRegisters, count : 1..2000, node : 0..255]
    BY <1>1, <1>2
  <2>2. config.kind = kind /\ config.start = first /\ config.count = 32
    OBVIOUS
  <2> HIDE DEF config
  <2> QED
    BY <1>2, <2>1, <2>2 DEF Configs
<1>4. ui' = add_window(ui, config) /\ UNCHANGED <<file, outcome, forgotten, restores>>
  BY DEF NewWindow
<1> HIDE DEF config
<1>5. WindowsKnown(ui') /\ WindowsOnly(ui, ui')
  BY <1>3, <1>4, AddedWindow DEF KnownState
<1> QED
  BY <1>4, <1>5, WindowStep

LEMMA WindowRecordSet ==
    ASSUME NEW windows \in Seq(WindowSet), NEW id \in DOMAIN windows, NEW shown \in WindowSet
    PROVE  LET other == [windows EXCEPT ![id] = shown]
           IN  /\ other \in Seq(WindowSet) /\ DOMAIN other = DOMAIN windows /\ other[id] = shown
               /\ \A i \in DOMAIN windows \ {id} : other[i] = windows[i]
<1>1. windows \in [1..Len(windows) -> WindowSet] /\ Len(windows) \in Nat
  OBVIOUS
<1>2. [windows EXCEPT ![id] = shown] \in [1..Len(windows) -> WindowSet]
  BY <1>1
<1>3. [windows EXCEPT ![id] = shown] \in Seq(WindowSet)
  <2> DEFINE other == [windows EXCEPT ![id] = shown]
  <2> HIDE DEF other
  <2> QED
    BY <1>1, <1>2, FunctionIsSeq DEF other
<1> QED
  BY <1>1, <1>3

\* The window id shows another range of its registers.
LEMMA WindowChanged ==
    ASSUME NEW s, WindowsKnown(s), NEW id \in s.registered, NEW config \in Configs
    PROVE  LET t == WithWindows(s, [s.windows EXCEPT ![id] = [@ EXCEPT !.config = config]], s.registered)
           IN  WindowsKnown(t) /\ WindowsOnly(s, t)
<1> DEFINE shown == [s.windows[id] EXCEPT !.config = config]
           windows == [s.windows EXCEPT ![id] = shown]
           t == WithWindows(s, windows, s.registered)
<1>1. /\ s \in UI /\ s.windows \in Seq(WindowSet) /\ s.registered \in SUBSET Nat
      /\ id \in DOMAIN s.windows
      /\ s.windows[id].dialog = Shown /\ s.windows[id].wired
  BY UIFields DEF WindowsKnown
<1>2. s.windows[id] \in WindowSet
  BY <1>1
<1>3. shown \in WindowSet /\ shown.config = config /\ shown.dialog = Shown /\ shown.wired
  BY <1>1, <1>2 DEF WindowSet
<1> HIDE DEF shown
<1>4. /\ windows \in Seq(WindowSet) /\ DOMAIN windows = DOMAIN s.windows /\ windows[id] = shown
      /\ \A i \in DOMAIN s.windows \ {id} : windows[i] = s.windows[i]
  BY <1>1, <1>3, WindowRecordSet
<1>5. t = WithWindows(s, windows, s.registered)
  OBVIOUS
<1> HIDE DEF windows, t
<1>6. t \in UI /\ WindowsOnly(s, t) /\ t.windows = windows /\ t.registered = s.registered
  BY <1>1, <1>4, <1>5, WindowsSet
<1>7. ASSUME NEW i \in DOMAIN t.windows
      PROVE  /\ i \in t.registered => /\ t.windows[i].config \in Configs
                                       /\ t.windows[i].dialog = Shown /\ t.windows[i].wired
             /\ i \notin t.registered => t.windows[i].dialog = Closed /\ ~t.windows[i].wired
  <2>1. CASE i = id
    BY <1>3, <1>4, <1>6, <2>1
  <2>2. CASE i # id
    <3>1. i \in DOMAIN s.windows /\ t.windows[i] = s.windows[i]
      BY <1>4, <1>6, <2>2
    <3> QED
      BY <1>6, <3>1, Zenon DEF WindowsKnown
  <2> QED
    BY <2>1, <2>2
<1>8. t.registered \subseteq DOMAIN t.windows
  BY <1>4, <1>6 DEF WindowsKnown
<1>9. WindowsKnown(t)
  BY <1>6, <1>7, <1>8 DEF WindowsKnown
<1> QED
  BY <1>6, <1>9 DEF t, windows, shown

\* The range of a register, by where its spin box ends; 10000 and 40000 belong to
\* the range after them.
LEMMA RangeOf ==
    ASSUME NEW start \in FileRegisters
    PROVE  /\ start <= 9999 => LastRegister(start) = 9999
           /\ 10000 <= start /\ start <= 19999 => LastRegister(start) = 19999
           /\ 30001 <= start /\ start <= 39999 => LastRegister(start) = 39999
           /\ 40000 <= start => LastRegister(start) = 49999
           /\ \/ 1 <= start /\ start <= 9999
              \/ 10000 <= start /\ start <= 19999
              \/ 30001 <= start /\ start <= 39999
              \/ 40000 <= start /\ start <= 49999
<1>1. start \in Int
  BY FileRegistersInt
<1>2. \/ 1 <= start /\ start <= 19999
      \/ 30001 <= start /\ start <= 49999
  BY SMTT(30) DEF FileRegisters
<1>3. start <= 9999 => LastRegister(start) = 9999
  BY <1>1 DEF LastRegister
<1>4. 10000 <= start /\ start <= 19999 => LastRegister(start) = 19999
  BY <1>1 DEF LastRegister
<1>5. 30001 <= start /\ start <= 39999 => LastRegister(start) = 39999
  BY <1>1 DEF LastRegister
<1>6. 40000 <= start => LastRegister(start) = 49999
  BY <1>1 DEF LastRegister
<1> QED
  BY <1>1, <1>2, <1>3, <1>4, <1>5, <1>6

LEMMA Between ==
    ASSUME NEW a \in Int, NEW b \in Int, NEW n \in Int, a <= n, n <= b
    PROVE  n \in a..b
OBVIOUS

LEMMA InFileRegisters ==
    ASSUME NEW n \in Int, (1 <= n /\ n <= 19999) \/ (30001 <= n /\ n <= 49999)
    PROVE  n \in FileRegisters
<1> DEFINE a == 1  b == 19999  c == 30001  d == 49999
<1>1. a \in Int /\ b \in Int /\ c \in Int /\ d \in Int
  OBVIOUS
<1>2. (a <= n /\ n <= b) \/ (c <= n /\ n <= d)
  OBVIOUS
<1> HIDE DEF a, b, c, d
<1>3. n \in a..b \cup c..d
  BY <1>1, <1>2, Between
<1>4. FileRegisters = a..b \cup c..d
  BY DEF FileRegisters, a, b, c, d
<1> QED
  BY <1>3, <1>4

\* The spin box goes through numbers a file may have, but 10000 and 40000.
LEMMA SpinBox ==
    ASSUME NEW start \in StartRegisters
    PROVE  start \in FileRegisters /\ start # 10000 /\ start # 40000
<1>1. start \in Int
  BY DEF StartRegisters
<1>2. \/ 1 <= start /\ start <= 9999
      \/ 10001 <= start /\ start <= 19999
      \/ 30001 <= start /\ start <= 39999
      \/ 40001 <= start /\ start <= 49999
  BY SMTT(30) DEF StartRegisters
<1>3. start # 10000 /\ start # 40000
  BY <1>1, <1>2
<1>4. \/ 1 <= start /\ start <= 19999
      \/ 30001 <= start /\ start <= 49999
  BY <1>1, <1>2
<1>5. start \in FileRegisters
  BY <1>1, <1>4, InFileRegisters
<1> QED
  BY <1>3, <1>5

LEMMA SameRange ==
    ASSUME NEW kind \in Kinds, NEW start \in FileRegisters, start \in RegistersOf(kind),
           NEW other \in StartRegisters, LastRegister(other) = LastRegister(start)
    PROVE  other \in RegistersOf(kind)
<1>0. other \in FileRegisters /\ other # 10000 /\ other # 40000 /\ other \in Int /\ start \in Int
  BY SpinBox, FileRegistersInt
<1>1. CASE kind = "CoilsDisplay"
  <2>1. 1 <= start /\ start <= 9999
    BY <1>0, <1>1, OwnRegisters
  <2>2. 1 <= other /\ other <= 9999
    BY <1>0, <2>1, RangeOf
  <2> QED
    BY <1>0, <1>1, <2>2, OwnRegisters
<1>2. CASE kind = "InputsDisplay"
  <2>1. 10001 <= start /\ start <= 19999
    BY <1>0, <1>2, OwnRegisters
  <2>2. 10000 <= other /\ other <= 19999
    BY <1>0, <2>1, RangeOf
  <2> QED
    BY <1>0, <1>2, <2>2, OwnRegisters
<1>3. CASE kind = "RegisterDisplay"
  BY <1>0, <1>3, OwnRegisters
<1>4. CASE kind = "HoldingRegisterDisplay"
  <2>1. 40001 <= start /\ start <= 49999
    BY <1>0, <1>4, OwnRegisters
  <2>2. 40000 <= other /\ other <= 49999
    BY <1>0, <2>1, RangeOf
  <2> QED
    BY <1>0, <1>4, <2>2, OwnRegisters
<1> QED
  BY <1>1, <1>2, <1>3, <1>4 DEF Kinds

LEMMA ConfigFields ==
    ASSUME NEW c \in Configs
    PROVE  /\ c \in [kind : Kinds, start : FileRegisters, count : 1..2000, node : 0..255]
           /\ c.kind \in Kinds /\ c.start \in FileRegisters
           /\ c.count \in 1..2000 /\ c.node \in 0..255
           /\ c.start \in RegistersOf(c.kind)
           /\ c.count <= MaxRegs(c.start)
<1>1. c \in [kind : Kinds, start : FileRegisters, count : 1..2000, node : 0..255]
  BY DEF Configs
<1>2. /\ c.kind \in Kinds /\ c.start \in FileRegisters
      /\ c.count \in 1..2000 /\ c.node \in 0..255
  BY <1>1
<1>3. c.start \in RegistersOf(c.kind) /\ c.count <= MaxRegs(c.start)
  BY DEF Configs
<1> QED
  BY <1>1, <1>2, <1>3

LEMMA ApplyKeeps ==
    ASSUME KnownState, RestTyped, FileInv,
           NEW id \in DOMAIN ui.windows, NEW a \in Applied, Apply(id, a)
    PROVE  SessionInv'
<1> DEFINE old == ui.windows[id].config
           config == [old EXCEPT !.start = a.start, !.count = a.count]
           t == WithWindows(ui, [ui.windows EXCEPT ![id] = [@ EXCEPT !.config = config]], ui.registered)
<1>1. a.start \in StartRegisters /\ a.count \in 1..2000
  <2>1. a \in [start : StartRegisters, count : 1..2000]
    BY SessionAssumption
  <2> QED
    BY <2>1
<1>2. /\ id \in ui.registered /\ LastRegister(a.start) = LastRegister(old.start)
      /\ a.count <= MaxRegs(a.start)
      /\ UNCHANGED <<file, outcome, forgotten, restores>>
      /\ ui' = [ui EXCEPT !.windows[id].config = [@ EXCEPT !.start = a.start, !.count = a.count]]
  BY DEF Apply
<1>3. old \in Configs
  BY <1>2 DEF KnownState, WindowsKnown
<1>4. config \in Configs
  <2> HIDE DEF old
  <2>1. config \in [kind : Kinds, start : FileRegisters, count : 1..2000, node : 0..255]
        /\ config.kind = old.kind /\ config.start = a.start /\ config.count = a.count
    <3> DEFINE counts == 1..2000
               nodes == 0..255
               starts == FileRegisters
    <3>1. old \in [kind : Kinds, start : starts, count : counts, node : nodes]
      BY <1>3, ConfigFields
    <3>2. a.start \in starts /\ a.count \in counts
      BY <1>1, SpinBox
    <3> HIDE DEF counts, nodes, starts
    <3>3. config \in [kind : Kinds, start : starts, count : counts, node : nodes]
          /\ config.kind = old.kind /\ config.start = a.start /\ config.count = a.count
      BY <3>1, <3>2
    <3> QED
      BY <3>3 DEF counts, nodes, starts
  <2>2. a.start \in RegistersOf(old.kind)
    BY <1>1, <1>2, <1>3, ConfigFields, SameRange
  <2> HIDE DEF config
  <2> QED
    BY <1>2, <2>1, <2>2 DEF Configs
<1>5. ui' = t
  <2> DEFINE windows == [ui.windows EXCEPT ![id] = [@ EXCEPT !.config = config]]
  <2>1. ui' = [ui EXCEPT !.windows = windows]
    BY <1>2
  <2>2. ui \in UI
    BY DEF KnownState, WindowsKnown
  <2> HIDE DEF windows
  <2>3. [ui EXCEPT !.windows = windows] = WithWindows(ui, windows, ui.registered)
    BY <2>2 DEF WithWindows, UI
  <2> QED
    BY <2>1, <2>3 DEF windows
<1>6. WindowsKnown(t) /\ WindowsOnly(ui, t)
  <2> HIDE DEF config
  <2> QED
    BY <1>2, <1>4, WindowChanged DEF KnownState
<1> HIDE DEF t
<1> QED
  BY <1>2, <1>5, <1>6, WindowStep

\* A window on the screen is left, by whatever means.
LEMMA WindowShut ==
    ASSUME NEW s, WindowsKnown(s), NEW id \in s.registered
    PROVE  WindowBecomes(s, id, Closed) = CloseWindows(s, {id})
<1> DEFINE gone == [config |-> NoConfig, dialog |-> Closed, wired |-> FALSE]
           windows == [s.windows EXCEPT ![id] = gone]
           t == WithWindows(s, windows, s.registered \ {id})
           closed == [s EXCEPT !.windows[id].dialog = Closed]
<1>1. /\ s \in UI /\ s.windows \in Seq(WindowSet) /\ s.registered \in SUBSET Nat
      /\ id \in DOMAIN s.windows /\ s.windows[id].dialog = Shown
  BY UIFields DEF WindowsKnown
<1>2. s.windows[id] \in WindowSet
  BY <1>1
<1>3. /\ closed.registered = s.registered
      /\ closed.windows = [s.windows EXCEPT ![id] = [@ EXCEPT !.dialog = Closed]]
  BY <1>1 DEF UI
<1>4. WindowBecomes(s, id, Closed) = register_window_destroyed(closed, id)
  BY <1>1, DialogLife DEF WindowBecomes
<1>5. register_window_destroyed(closed, id) = t
  <2> DEFINE w == s.windows[id]
             hidden == [w EXCEPT !.dialog = Closed]
             shut == [hidden EXCEPT !.wired = FALSE, !.config = NoConfig]
             one == [s.windows EXCEPT ![id] = hidden]
             two == [one EXCEPT ![id] = shut]
  <2>1. shut = gone
    <3>1. hidden \in WindowSet /\ hidden.dialog = Closed
      BY <1>2 DEF WindowSet
    <3> HIDE DEF hidden
    <3>2. shut \in WindowSet /\ shut.config = NoConfig /\ shut.dialog = Closed /\ shut.wired = FALSE
      BY <3>1 DEF WindowSet
    <3>3. gone \in WindowSet
      BY DEF WindowSet
    <3>4. gone.config = NoConfig /\ gone.dialog = Closed /\ gone.wired = FALSE
      OBVIOUS
    <3> HIDE DEF shut, gone
    <3> QED
      BY <3>2, <3>3, <3>4 DEF WindowSet
  <2>2. one[id] = hidden /\ closed = [s EXCEPT !.windows = one]
    BY <1>1
  <2> HIDE DEF shut, gone, hidden
  <2>3. two = windows
    BY <1>1, <2>1
  <2> HIDE DEF one
  <2>4. closed.windows = one /\ closed.registered = s.registered
    BY <1>1, <2>2 DEF UI
  <2> HIDE DEF closed
  <2>5. register_window_destroyed(closed, id)
           = [closed EXCEPT !.registered = s.registered \ {id}, !.windows = two]
    BY <2>2, <2>4 DEF register_window_destroyed, shut
  <2> HIDE DEF two, windows
  <2>6. [closed EXCEPT !.registered = s.registered \ {id}, !.windows = two]
           = WithWindows(s, windows, s.registered \ {id})
    BY <1>1, <2>2, <2>3 DEF WithWindows, UI
  <2> QED
    BY <2>5, <2>6
<1>6. CloseWindows(s, {id}) = t
  <2>1. closeEvent(s.windows[id].dialog) = Closed
        /\ closeEvent(s.windows[id].dialog).closes > s.windows[id].dialog.closes
    BY <1>1, DialogLife
  <2> QED
    BY <1>1, <2>1 DEF CloseWindows, WithWindows
<1> QED
  BY <1>4, <1>5, <1>6

LEMMA LeaveWindowKeeps ==
    ASSUME KnownState, RestTyped, FileInv, NEW id \in DOMAIN ui.windows, LeaveWindow(id)
    PROVE  SessionInv'
<1>1. ui.windows[id].dialog.visible /\ UNCHANGED <<file, outcome, forgotten, restores>>
      /\ \E d \in {closeEvent(ui.windows[id].dialog), rejected(ui.windows[id].dialog)} :
            ui' = WindowBecomes(ui, id, d)
  BY DEF LeaveWindow
<1>2. id \in ui.registered /\ ui.windows[id].dialog = Shown
  <2>1. id \notin ui.registered => ui.windows[id].dialog = Closed
    BY DEF KnownState, WindowsKnown
  <2>2. id \in ui.registered => ui.windows[id].dialog = Shown
    BY DEF KnownState, WindowsKnown
  <2> QED
    BY <1>1, <2>1, <2>2, DialogLife
<1>3. ui' = CloseWindows(ui, {id})
  BY <1>1, <1>2, DialogLife, WindowShut DEF KnownState
<1>4. WindowsKnown(ui') /\ WindowsOnly(ui, ui')
  <2> DEFINE ids == {id}
  <2>1. ids \subseteq ui.registered /\ ui' = CloseWindows(ui, ids)
    BY <1>2, <1>3
  <2> HIDE DEF ids
  <2> QED
    BY <2>1, ClosedWindows DEF KnownState
<1> QED
  BY <1>1, <1>4, WindowStep

-----------------------------------------------------------------------------
(* A trend is opened and left, the settings and the file are written.      *)

LEMMA OpenTrendKeeps ==
    ASSUME KnownState, RestTyped, FileInv, OpenTrend
    PROVE  SessionInv'
<1> DEFINE t == on_actionTrend_triggered(ui)
<1>1. ui' = t /\ ui.trend_menu /\ UNCHANGED <<file, outcome, forgotten, restores>>
  BY DEF OpenTrend
<1>2. ui \in UI /\ ui.trend = NoTrend
  BY <1>1 DEF KnownState, WindowsKnown
<1>3. /\ t \in UI /\ TrendsOnly(ui, t) /\ TrendsKnown(t, forgotten)
      /\ t.trend \in DOMAIN t.trends \ DOMAIN ui.trends /\ t.trend # NoTrend /\ ~t.trend_menu
      /\ DOMAIN ui.trends \subseteq DOMAIN t.trends
  BY <1>2, TrendOpened DEF KnownState
<1> HIDE DEF t
<1>4. ui'.trend \notin forgotten
  BY <1>1, <1>3 DEF KnownState
<1> QED
  BY <1>1, <1>3, <1>4, TrendStep

LEMMA LeaveTrendKeeps ==
    ASSUME KnownState, RestTyped, FileInv, NEW id \in DOMAIN ui.trends, LeaveTrend(id)
    PROVE  SessionInv'
<1> DEFINE t == TrendBecomes(ui, id, Closed)
<1>1. /\ ui.trends[id].dialog.visible /\ UNCHANGED <<file, outcome, forgotten, restores>>
      /\ \E d \in {closeEvent(ui.trends[id].dialog), rejected(ui.trends[id].dialog)} :
            ui' = TrendBecomes(ui, id, d)
  BY DEF LeaveTrend
<1>2. ui \in UI /\ ui.trends[id].dialog = Shown
  <2>1. ui \in UI
    BY DEF KnownState, WindowsKnown
  <2>2. ui.trends[id] \in TrendSet
    BY <2>1, UIFields
  <2>3. ui.trends[id].dialog \in {Shown, Closed}
    BY <2>2 DEF TrendSet
  <2> QED
    BY <1>1, <2>1, <2>3, DialogLife
<1>3. ui' = t
  BY <1>1, <1>2, DialogLife
<1>4. /\ id = ui.trend => TrendIs(ui, t, id, Closed, FALSE) /\ t.trend = NoTrend /\ t.trend_menu
      /\ id # ui.trend => /\ TrendIs(ui, t, id, Closed, ui.trends[id].wired)
                          /\ t.trend = ui.trend /\ t.trend_menu = ui.trend_menu
  BY <1>2, TrendShut
<1> HIDE DEF t
<1>5. /\ ui.trend \in {NoTrend} \cup DOMAIN ui.trends
      /\ ui.trend # NoTrend => ui.trends[ui.trend].dialog = Shown /\ ui.trends[ui.trend].wired
      /\ \A i \in DOMAIN ui.trends \ (forgotten \cup {ui.trend}) :
            ui.trends[i].dialog = Closed /\ ~ui.trends[i].wired
      /\ ui.trend_menu <=> ui.trend = NoTrend
      /\ forgotten \subseteq DOMAIN ui.trends /\ ui.trend \notin forgotten
  BY DEF KnownState, TrendsKnown
<1>6. NoTrend \notin DOMAIN ui.trends
  BY <1>2, UIFields DEF NoTrend
<1>7. CASE id = ui.trend
  <2>1. /\ t \in UI /\ TrendsOnly(ui, t) /\ DOMAIN t.trends = DOMAIN ui.trends
        /\ t.trends[id].dialog = Closed /\ ~t.trends[id].wired
        /\ \A i \in DOMAIN ui.trends \ {id} : t.trends[i] = ui.trends[i]
        /\ t.trend = NoTrend /\ t.trend_menu
    BY <1>4, <1>7 DEF TrendIs
  <2>2. ASSUME NEW i \in DOMAIN t.trends \ (forgotten \cup {t.trend})
        PROVE  t.trends[i].dialog = Closed /\ ~t.trends[i].wired
    <3>1. CASE i = id
      BY <2>1, <3>1
    <3>2. CASE i # id
      <4>1. i \in DOMAIN ui.trends \ (forgotten \cup {ui.trend}) /\ t.trends[i] = ui.trends[i]
        BY <1>7, <2>1, <3>2
      <4> QED
        BY <1>5, <4>1
    <3> QED
      BY <3>1, <3>2
  <2>3. TrendsKnown(t, forgotten)
    BY <2>1, <2>2 DEF TrendsKnown
  <2>4. t.trend \notin forgotten
    BY <1>5, <1>6, <2>1
  <2> QED
    BY <1>1, <1>3, <2>1, <2>3, <2>4, TrendStep
<1>8. CASE id # ui.trend
  <2>1. /\ t \in UI /\ TrendsOnly(ui, t) /\ DOMAIN t.trends = DOMAIN ui.trends
        /\ \A i \in DOMAIN ui.trends \ {id} : t.trends[i] = ui.trends[i]
        /\ t.trend = ui.trend /\ t.trend_menu = ui.trend_menu
    BY <1>4, <1>8 DEF TrendIs
  \* A trend that is on the screen and not the program's has been forgotten.
  <2>2. id \in forgotten
    BY <1>2, <1>5, <1>8, DialogLife
  <2>3. ASSUME NEW i \in DOMAIN t.trends \ (forgotten \cup {t.trend})
        PROVE  t.trends[i].dialog = Closed /\ ~t.trends[i].wired
    <3>1. i \in DOMAIN ui.trends \ (forgotten \cup {ui.trend}) /\ t.trends[i] = ui.trends[i]
      BY <2>1, <2>2
    <3> QED
      BY <1>5, <3>1
  <2>4. t.trend # NoTrend => t.trends[t.trend].dialog = Shown /\ t.trends[t.trend].wired
    BY <1>5, <1>8, <2>1
  <2>5. TrendsKnown(t, forgotten)
    BY <1>5, <2>1, <2>3, <2>4 DEF TrendsKnown
  <2>6. t.trend_menu <=> t.trend = NoTrend
    BY <1>5, <2>1
  <2> QED
    BY <1>1, <1>3, <1>5, <2>1, <2>5, <2>6, TrendStep
<1> QED
  BY <1>7, <1>8

LEMMA EnterSettingsKeeps ==
    ASSUME KnownState, RestTyped, FileInv, NEW settings \in SettingsOf, EnterSettings(settings)
    PROVE  SessionInv'
<1> DEFINE t == WithSettings(ui, settings)
<1>1. settings \in [timeout : Int, port : Int]
  BY SessionAssumption
<1>2. ui' = t /\ UNCHANGED <<file, outcome, forgotten, restores>>
  BY DEF EnterSettings, WithSettings
<1>3. t \in UI /\ SettingsOnly(ui, t) /\ t.settings = settings
  BY <1>1, SettingsSet DEF KnownState, WindowsKnown
<1> HIDE DEF t
<1>4. WindowsKnown(t) /\ TrendsKnown(t, forgotten)
  BY <1>3, WindowsKept, TrendsKept DEF KnownState, SettingsOnly
<1>5. KnownState'
  BY <1>2, <1>3, <1>4 DEF KnownState, SettingsOnly
<1>6. RestTyped'
  BY <1>2, <1>3 DEF RestTyped
<1>7. FileInv'
  BY <1>2 DEF FileInv
<1> QED
  BY <1>5, <1>6, <1>7, KnownInvNext

\* Every place among the windows has one.
LEMMA NthMember ==
    ASSUME NEW n \in Nat, NEW ids, ids \subseteq 1..n, NEW i \in 1..Cardinality(ids)
    PROVE  Nth(ids, i) \in ids
<1> DEFINE UpTo(m) == {other \in ids : other <= m}
           Counted(m) == Cardinality(UpTo(m))
           T == {m \in 0..n : Counted(m) >= i}
<1>1. IsFiniteSet(ids) /\ Cardinality(ids) \in Nat
  <2>1. IsFiniteSet(1..n)
    BY FS_Interval
  <2> QED
    BY <2>1, FS_Subset, FS_CardinalityType
<1>2. i \in Nat /\ 1 <= i /\ i <= Cardinality(ids)
  BY <1>1
<1>0. \A other \in ids : other \in Int /\ 1 <= other /\ other <= n
  OBVIOUS
<1>3. UpTo(0) = {} /\ UpTo(n) = ids /\ \A m \in 0..n : UpTo(m) \subseteq ids
  <2>1. UpTo(0) = {}
    <3>1. ASSUME NEW other \in ids, other <= 0 PROVE FALSE
      BY <1>0, <3>1
    <3> QED
      BY <3>1
  <2>2. UpTo(n) = ids
    BY <1>0
  <2> QED
    BY <2>1, <2>2
<1>4. ASSUME NEW m \in 1..n, m \notin ids PROVE UpTo(m) = UpTo(m - 1)
  <2>1. ASSUME NEW other \in ids PROVE other <= m <=> other <= m - 1
    <3>1. other # m /\ other \in Int /\ m \in Int
      BY <1>0, <1>4
    <3> QED
      BY <3>1
  <2> QED
    BY <2>1
<1>5. ASSUME NEW m \in 1..n, m \in ids
      PROVE  UpTo(m) = UpTo(m - 1) \cup {m} /\ m \notin UpTo(m - 1)
  <2>1. ASSUME NEW other \in ids PROVE other <= m <=> other <= m - 1 \/ other = m
    <3>1. other \in Int /\ m \in Int
      BY <1>0
    <3> QED
      BY <3>1
  <2>2. m <= m /\ ~(m <= m - 1)
    OBVIOUS
  <2> QED
    BY <1>5, <2>1, <2>2
<1> HIDE DEF UpTo
<1>6. \A m \in 0..n : IsFiniteSet(UpTo(m)) /\ Counted(m) \in Nat
  BY <1>1, <1>3, FS_Subset, FS_CardinalityType
<1>7. Counted(0) = 0 /\ Counted(n) = Cardinality(ids)
  BY <1>3, FS_EmptySet
<1>8. ASSUME NEW m \in 1..n, m \in ids PROVE Counted(m) = Counted(m - 1) + 1
  <2>1. m - 1 \in 0..n
    OBVIOUS
  <2>2. IsFiniteSet(UpTo(m - 1)) /\ UpTo(m) = UpTo(m - 1) \cup {m} /\ m \notin UpTo(m - 1)
    BY <1>5, <1>6, <1>8, <2>1
  <2> QED
    BY <2>2, FS_AddElement
<1>9. ASSUME NEW m \in 1..n, m \notin ids PROVE Counted(m) = Counted(m - 1)
  BY <1>4, <1>9
<1> HIDE DEF Counted
<1>10. PICK m \in T : \A y \in T : m <= y
  <2>1. n \in 0..n
    OBVIOUS
  <2>2. n \in T
    BY <1>2, <1>7, <1>1, <2>1
  <2>3. T \subseteq Nat
    OBVIOUS
  <2> HIDE DEF T
  <2> QED
    BY <2>2, <2>3, LeastNumber
<1>11. m \in 0..n /\ Counted(m) >= i /\ m # 0
  BY <1>2, <1>7, <1>10
<1>12. m \in 1..n /\ m - 1 \in 0..n /\ m - 1 \notin T
  BY <1>10, <1>11
<1>13. Counted(m - 1) < i
  BY <1>2, <1>6, <1>12
<1>14. m \in ids /\ Counted(m) = i
  BY <1>2, <1>6, <1>8, <1>9, <1>11, <1>12, <1>13
<1>15. \E id \in ids : Cardinality({other \in ids : other <= id}) = i
  BY <1>14 DEF Counted, UpTo
<1> QED
  BY <1>15, Zenon DEF Nth

\* A window's element can be read back.
LEMMA EntryOf ==
    ASSUME NEW config \in Configs
    PROVE  Entry(config) \in Elements /\ Config(Entry(config)) = config
<1> DEFINE kind == config.kind  start == config.start  count == config.count
           node == config.node  max == MaxRegs(start)
           entry == [kind |-> kind, start |-> start, count |-> count, node |-> node, max |-> max]
           counts == 1..2000  nodes == 0..255  starts == FileRegisters
<1>1. /\ config \in [kind : Kinds, start : starts, count : counts, node : nodes]
      /\ kind \in Kinds /\ start \in FileRegisters /\ count \in counts /\ node \in nodes
  BY ConfigFields
<1>2. Entry(config) = entry
  BY DEF Entry
<1>3. start \in Int /\ count \in Int /\ node \in Int
  BY <1>1, FileRegistersInt
<1>4. max \in Int
  BY <1>3, WithinMax
<1>5. [kind |-> kind, start |-> start, count |-> count, node |-> node] = config
  <2> HIDE DEF counts, nodes, starts
  <2> QED
    BY <1>1
<1> HIDE DEF kind, start, count, node, max
<1>6. entry \in Elements
  BY <1>1, <1>3, <1>4 DEF Elements
<1>7. Config(entry) = [kind |-> kind, start |-> start, count |-> count, node |-> node]
  BY DEF Config
<1> QED
  BY <1>2, <1>5, <1>6, <1>7 DEF kind, start, count, node

LEMMA SavedFile ==
    ASSUME NEW s, WindowsKnown(s), s.settings \in SettingsOf
    PROVE  SessionFile(save_config(s))
<1> DEFINE ids == s.registered
           n == Cardinality(ids)
           windows == [i \in 1..n |-> Entry(s.windows[Nth(ids, i)].config)]
           trend == IF s.trend = NoTrend THEN "none" ELSE "saved"
           f == [settings |-> s.settings, windows |-> windows, trend |-> trend, damage |-> "no"]
<1>1. s.windows \in Seq(WindowSet) /\ ids \subseteq DOMAIN s.windows
  BY UIFields DEF WindowsKnown
<1> DEFINE m == Len(s.windows)
<1>2. m \in Nat /\ ids \subseteq 1..m
  BY <1>1
<1>3. n \in Nat
  <2>1. IsFiniteSet(1..m)
    BY <1>2, FS_Interval
  <2> QED
    BY <1>2, <2>1, FS_Subset, FS_CardinalityType
<1>4. ASSUME NEW i \in 1..n PROVE s.windows[Nth(ids, i)].config \in Configs
  <2>1. Nth(ids, i) \in ids
    BY <1>2, NthMember
  <2> QED
    BY <2>1 DEF WindowsKnown
<1>5. save_config(s) = f
  BY DEF save_config
<1>6. DOMAIN windows = 1..n /\ \A i \in 1..n : windows[i] = Entry(s.windows[Nth(ids, i)].config)
  OBVIOUS
<1>7. \A i \in 1..n :
         /\ windows[i] \in Elements
         /\ Config(windows[i]) \in Configs /\ windows[i] = Entry(Config(windows[i]))
  <2> HIDE DEF windows, n, ids
  <2> QED
    BY <1>4, <1>6, EntryOf
<1>8. windows \in Seq(Elements)
  <2> HIDE DEF n
  <2>1. windows \in [1..n -> Elements]
    BY <1>7
  <2> HIDE DEF windows
  <2> QED
    BY <1>3, <2>1, FunctionIsSeq
<1>9. trend \in {"none", "saved"}
  OBVIOUS
<1> HIDE DEF windows, trend, n
<1>10. /\ f.settings = s.settings /\ f.windows = windows /\ f.trend = trend /\ f.damage = "no"
       /\ f = [settings |-> f.settings, windows |-> f.windows, trend |-> f.trend, damage |-> f.damage]
  OBVIOUS
<1> HIDE DEF f
<1>11. \A i \in DOMAIN f.windows :
          /\ Config(f.windows[i]) \in Configs
          /\ f.windows[i] = Entry(Config(f.windows[i]))
  BY <1>6, <1>7, <1>10
<1>12. SessionFile(f)
  BY <1>8, <1>9, <1>10, <1>11 DEF SessionFile, Damages
<1> QED
  BY <1>5, <1>12

LEMMA SaveKeeps ==
    ASSUME KnownState, RestTyped, FileInv, on_actionSave_Session_triggered
    PROVE  SessionInv'
<1>1. file' = save_config(ui) /\ UNCHANGED <<ui, outcome, forgotten, restores>>
  BY DEF on_actionSave_Session_triggered
<1>2. SessionFile(file')
  BY <1>1, SavedFile DEF KnownState, RestTyped
<1>3. KnownState'
  BY <1>1 DEF KnownState
<1>4. RestTyped'
  BY <1>1 DEF RestTyped
<1>5. FileInv'
  BY <1>2 DEF FileInv
<1> QED
  BY <1>3, <1>4, <1>5, KnownInvNext

-----------------------------------------------------------------------------
(* A session is restored.                                                  *)

LEMMA FileMade ==
    ASSUME NEW settings \in SettingsOf,
           NEW windows \in Seq(Elements),
           NEW trend, NEW damage \in Damages \ {"no"}
    PROVE  SessionFile([settings |-> settings, windows |-> windows, trend |-> trend, damage |-> damage])
<1> DEFINE f == [settings |-> settings, windows |-> windows, trend |-> trend, damage |-> damage]
<1>1. /\ f.settings = settings /\ f.windows = windows /\ f.trend = trend /\ f.damage = damage
      /\ f = [settings |-> f.settings, windows |-> f.windows, trend |-> f.trend, damage |-> f.damage]
  OBVIOUS
<1> HIDE DEF f
<1>2. SessionFile(f)
  BY <1>1 DEF SessionFile
<1> QED
  BY <1>2 DEF f

LEMMA EntrySpoilt ==
    ASSUME NEW entries \in Seq(Elements), NEW i, NEW entry \in Elements
    PROVE  WithEntry(entries, i, entry) \in Seq(Elements)
<1> DEFINE S == Elements
<1>1. entries \in Seq(S) /\ entry \in S
  OBVIOUS
<1> HIDE DEF S
<1>2. CASE i \in DOMAIN entries
  <2>1. [entries EXCEPT ![i] = entry] \in Seq(S)
    BY <1>1, <1>2, ExceptSeq, DOMAIN entries = 1..Len(entries)
  <2> QED
    BY <1>2, <2>1 DEF WithEntry, S
<1>3. CASE i \notin DOMAIN entries
  <2>1. Append(entries, entry) \in Seq(S)
    BY <1>1, AppendProperties
  <2> QED
    BY <1>3, <2>1 DEF WithEntry, S
<1> QED
  BY <1>2, <1>3

\* A file stays one a session may be restored from, whatever happens to it.
LEMMA FileSpoilt ==
    ASSUME SessionFile(file), NEW damage \in Damages, Spoil(damage)
    PROVE  SessionFile(file') /\ (file'.damage = "no" => file' = file)
<1> DEFINE settings == file.settings
           windows == file.windows
           trend == file.trend
           Made(w, t, d) == [settings |-> settings, windows |-> w, trend |-> t, damage |-> d]
<1>1. settings \in SettingsOf /\ windows \in Seq(Elements) /\ file = Made(windows, trend, file.damage)
  BY DEF SessionFile
<1>2. CASE file' = file
  BY <1>2
<1>3. CASE damage = "unreadable" /\ file' = [file EXCEPT !.damage = damage]
  <2> HIDE DEF settings, windows, trend
  <2>1. file' = Made(windows, trend, damage)
    BY <1>1, <1>3
  <2> QED
    BY <1>1, <1>3, <2>1, FileMade
<1>4. CASE /\ damage = "window"
           /\ \E i \in 1..Len(windows) + 1, entry \in Spoilt :
                 file' = [file EXCEPT !.windows = WithEntry(windows, i, entry), !.damage = damage]
  <2>1. PICK i \in 1..Len(windows) + 1, entry \in Spoilt :
                file' = [file EXCEPT !.windows = WithEntry(windows, i, entry), !.damage = damage]
    BY <1>4
  <2> DEFINE more == WithEntry(windows, i, entry)
  <2>2. more \in Seq(Elements)
    BY <1>1, EntrySpoilt, SessionAssumption
  <2> DEFINE d == file.damage
             w == Made(more, trend, d)
  <2>5. file = Made(windows, trend, d) /\ file' = [file EXCEPT !.windows = more, !.damage = damage]
    BY <1>1, <2>1
  <2> HIDE DEF settings, windows, trend, more, d
  <2>6. [Made(windows, trend, d) EXCEPT !.windows = more] = w
    OBVIOUS
  <2>7. [w EXCEPT !.damage = damage] = Made(more, trend, damage)
    OBVIOUS
  <2> HIDE DEF Made, w
  <2>3. file' = Made(more, trend, damage)
    BY <2>5, <2>6, <2>7
  <2> USE DEF Made
  <2>4. SessionFile(file') /\ damage # "no"
    BY <1>1, <1>4, <2>2, <2>3, FileMade
  <2> QED
    BY <2>3, <2>4
<1>5. CASE damage = "trend" /\ file' = [file EXCEPT !.trend = "spoilt", !.damage = damage]
  <2> HIDE DEF settings, windows, trend
  <2> DEFINE d == file.damage
             spoilt == "spoilt"
             t == Made(windows, spoilt, d)
  <2>3. file = Made(windows, trend, d) /\ file' = [file EXCEPT !.trend = spoilt, !.damage = damage]
    BY <1>1, <1>5
  <2> HIDE DEF d, spoilt
  <2>4. [Made(windows, trend, d) EXCEPT !.trend = spoilt] = t
    OBVIOUS
  <2>6. [t EXCEPT !.damage = damage] = Made(windows, spoilt, damage)
    OBVIOUS
  <2>5. damage \in Damages \ {"no"}
    BY <1>5 DEF Damages
  <2> HIDE DEF t, Made
  <2>1. file' = Made(windows, spoilt, damage)
    BY <2>3, <2>4, <2>6
  <2> USE DEF Made
  <2>2. SessionFile(file') /\ damage # "no"
    BY <1>1, <2>1, <2>5, FileMade
  <2> QED
    BY <2>1, <2>2
<1> QED
  BY <1>2, <1>3, <1>4, <1>5 DEF Spoil

\* What Restore does, in terms of the program before and the file read.
RestoreDone(loaded) ==
    /\ BeforeAfter(ui, loaded) /\ Replaced(ui, loaded, ui', forgotten')
    /\ ui'.trend_menu <=> ui'.trend = NoTrend
    /\ forgotten' \subseteq DOMAIN ui.trends
    /\ outcome' = "restored" <=> Readable(file')
    /\ outcome' \in Outcomes
    /\ Readable(file') => /\ ReadWhole(WithPointer(ui, NoTrend), loaded, file')
                          /\ ui'.trend = loaded.trend /\ ui'.settings = file'.settings
    /\ ~Readable(file') => ui'.settings = ui.settings

LEMMA FileRead ==
    ASSUME NEW f, SessionFile(f)
    PROVE  FileTyped(f)
<1>1. f.settings \in [timeout : Int, port : Int]
  BY SessionAssumption DEF SessionFile
<1> QED
  BY <1>1 DEF SessionFile, FileTyped

LEMMA RestoreEffects ==
    ASSUME KnownState, RestTyped, FileInv,
           NEW damage \in Damages, on_actionRestore_Session_triggered(damage)
    PROVE  /\ SessionFile(file) /\ SessionFile(file')
           /\ file'.damage = "no" => file' = file
           /\ restores > 0 /\ restores' = restores - 1
           /\ \E loaded : RestoreDone(loaded)
<1> DEFINE s == WithPointer(ui, NoTrend)
           left == forgotten \cup ({ui.trend} \ {NoTrend})
           load == load_config(s, file')
           after == IF load.ok THEN Restored(load.s, ui) ELSE RestoreFailed(load.s, ui)
           loaded == load.s
           enabled == (after.trend = NoTrend)
<1>1. /\ file # NoFile /\ Spoil(damage)
      /\ restores > 0 /\ restores' = restores - 1
      /\ ui' = WithMenu(after, enabled)
      /\ forgotten' = IF load.ok \/ load.s.trend # NoTrend THEN forgotten ELSE left
      /\ \/ outcome' = IF load.ok THEN "restored" ELSE "failed"
         \/ ~load.ok /\ outcome' = "crashed"
  BY DEF on_actionRestore_Session_triggered, WithPointer, WithMenu
<1>2. SessionFile(file) /\ SessionFile(file') /\ (file'.damage = "no" => file' = file)
  BY <1>1, FileSpoilt DEF FileInv
<1>3. ui \in UI /\ NoTrend \in Nat
  BY DEF KnownState, WindowsKnown, NoTrend
<1>4. s \in UI /\ TrendsOnly(ui, s) /\ s.trend = NoTrend /\ s.trends = ui.trends
  BY <1>3, PointerSet
<1>5. /\ ui.trend \in {NoTrend} \cup DOMAIN ui.trends
      /\ forgotten \subseteq DOMAIN ui.trends /\ ui.trend \notin forgotten
      /\ WindowsKnown(ui) /\ TrendsKnown(ui, forgotten)
  BY DEF KnownState, TrendsKnown
<1> HIDE DEF s
<1>6. WindowsKnown(s)
  BY <1>4, <1>5, WindowsKept DEF TrendsOnly
<1>7. TrendsKnown(s, left)
  BY <1>4, <1>5 DEF TrendsKnown
<1>8. left \subseteq DOMAIN s.trends
  BY <1>4, <1>5
<1> HIDE DEF left
<1>9. /\ Reads(s, loaded, left)
      /\ load.ok <=> Readable(file')
      /\ load.ok => ReadWhole(s, loaded, file')
  <2>1. FileTyped(file')
    BY <1>2, FileRead
  <2> QED
    BY <1>4, <1>6, <1>7, <1>8, <2>1, LoadedSession
<1> HIDE DEF load
<1>10. BeforeAfter(ui, loaded)
  BY <1>5, <1>9 DEF BeforeAfter, s, left
<1>11. /\ Replaced(ui, loaded, after, forgotten')
       /\ load.ok => after.trend = loaded.trend /\ after.settings = loaded.settings
       /\ ~load.ok => after.settings = ui.settings
  <2>1. CASE load.ok
    <3> DEFINE t == Restored(loaded, ui)
    <3>1. /\ Replaced(ui, loaded, t, forgotten)
          /\ t.trend = loaded.trend /\ t.settings = loaded.settings
      BY <1>10, RestoredKnown
    <3> HIDE DEF t
    <3>2. after = t /\ forgotten' = forgotten
      BY <1>1, <2>1 DEF t
    <3> HIDE DEF after, loaded
    <3> QED
      BY <2>1, <3>1, <3>2
  <2>2. CASE ~load.ok
    <3> DEFINE t == RestoreFailed(loaded, ui)
               gone == IF loaded.trend # NoTrend THEN forgotten ELSE left
    <3>1. Replaced(ui, loaded, t, gone) /\ t.settings = ui.settings
      BY <1>10, RestoreFailedKnown DEF left
    <3> HIDE DEF t
    <3>2. after = t /\ forgotten' = gone
      BY <1>1, <2>2 DEF t
    <3> HIDE DEF after, loaded, gone
    <3> QED
      BY <2>2, <3>1, <3>2
  <2> QED
    BY <2>1, <2>2
<1>12. enabled \in BOOLEAN /\ (enabled <=> after.trend = NoTrend)
  OBVIOUS
<1> HIDE DEF after, enabled
<1>13. /\ ui' \in UI /\ TrendsOnly(after, ui') /\ ui'.trend = after.trend
       /\ ui'.trends = after.trends /\ (ui'.trend_menu <=> enabled)
  BY <1>1, <1>11, <1>12, MenuSet DEF Replaced, WindowsKnown
<1>14. Replaced(ui, loaded, ui', forgotten')
  <2>1. WindowsKnown(ui') /\ TrendsKnown(ui', forgotten')
    BY <1>11, <1>13, WindowsKept, TrendsKept DEF TrendsOnly, Replaced
  <2> QED
    BY <1>11, <1>13, <2>1 DEF Replaced, TrendsOnly
<1> HIDE DEF loaded
<1>15. forgotten' \subseteq DOMAIN ui.trends
  BY <1>1, <1>4, <1>5, <1>8
<1>16. outcome' \in Outcomes /\ (outcome' = "restored" <=> Readable(file'))
  BY <1>1, <1>9 DEF Outcomes
<1>17. Readable(file') => /\ ReadWhole(s, loaded, file')
                          /\ ui'.trend = loaded.trend /\ ui'.settings = file'.settings
  BY <1>9, <1>11, <1>13 DEF ReadWhole, TrendsOnly
<1>18. ~Readable(file') => ui'.settings = ui.settings
  BY <1>9, <1>11, <1>13 DEF TrendsOnly
<1>19. RestoreDone(loaded)
  BY <1>10, <1>12, <1>13, <1>14, <1>15, <1>16, <1>17, <1>18 DEF RestoreDone, s
<1> QED
  BY <1>1, <1>2, <1>19

LEMMA RestoreKeeps ==
    ASSUME KnownState, RestTyped, FileInv,
           NEW damage \in Damages, on_actionRestore_Session_triggered(damage)
    PROVE  SessionInv'
<1>1. /\ SessionFile(file') /\ restores > 0 /\ restores' = restores - 1
      /\ \E loaded : RestoreDone(loaded)
  BY RestoreEffects
<1>2. PICK loaded : RestoreDone(loaded)
  BY <1>1
<1>3. KnownState'
  <2>1. /\ WindowsKnown(ui') /\ TrendsKnown(ui', forgotten') /\ ui'.trend \notin forgotten'
        /\ DOMAIN ui.trends \subseteq DOMAIN ui'.trends
    BY <1>2 DEF RestoreDone, Replaced
  <2>2. (ui'.trend_menu <=> ui'.trend = NoTrend) /\ forgotten' \subseteq DOMAIN ui.trends
    BY <1>2 DEF RestoreDone
  <2> QED
    BY <2>1, <2>2 DEF KnownState
<1>4. RestTyped'
  <2>1. ui'.settings \in SettingsOf
    <3>1. CASE Readable(file')
      BY <1>1, <1>2, <3>1 DEF RestoreDone, SessionFile
    <3>2. CASE ~Readable(file')
      BY <1>2, <3>2 DEF RestoreDone, RestTyped
    <3> QED
      BY <3>1, <3>2
  <2>2. outcome' \in Outcomes
    BY <1>2 DEF RestoreDone
  <2>3. restores' \in 0..MaxRestores
    <3>1. restores \in 0..MaxRestores /\ MaxRestores \in Nat
      BY SessionAssumption DEF RestTyped
    <3> QED
      BY <1>1, <3>1
  <2> QED
    BY <2>1, <2>2, <2>3 DEF RestTyped
<1>5. FileInv'
  BY <1>1 DEF FileInv
<1> QED
  BY <1>3, <1>4, <1>5, KnownInvNext

-----------------------------------------------------------------------------
(* The program ends, and the theorems.                                     *)

\* The windows are closed after the main window has forgotten them.
LEMMA AllClosed ==
    ASSUME WindowsKnown(ui)
    PROVE  LET t == CloseWindows([ui EXCEPT !.registered = {}], ui.registered)
           IN  t \in UI /\ WindowsOnly(ui, t) /\ t.registered = {}
<1> DEFINE none == {}
           bare == WithWindows(ui, ui.windows, none)
           Told(id) == closeEvent(ui.windows[id].dialog)
           f == [id \in DOMAIN ui.windows |->
                    IF id \in ui.registered THEN [ui.windows[id] EXCEPT !.dialog = Told(id)]
                    ELSE ui.windows[id]]
           t == CloseWindows(bare, ui.registered)
<1>1. ui \in UI /\ ui.windows \in Seq(WindowSet) /\ none \in SUBSET Nat
  BY UIFields DEF WindowsKnown
<1>2. [ui EXCEPT !.registered = {}] = bare
  BY <1>1 DEF WithWindows, UI
<1>3. bare \in UI /\ WindowsOnly(ui, bare) /\ bare.windows = ui.windows /\ bare.registered = none
  <2> HIDE DEF none
  <2> QED
    BY <1>1, WindowsSet
<1> HIDE DEF bare
<1>4. f \in Seq(WindowSet)
  <2>1. \A id \in DOMAIN ui.windows : ui.windows[id] \in WindowSet
    BY <1>1
  <2>2. \A id \in ui.registered : Told(id) = Closed
    BY DialogLife DEF WindowsKnown
  <2>3. ASSUME NEW id \in DOMAIN ui.windows PROVE f[id] \in WindowSet
    <3>1. CASE id \in ui.registered
      <4>1. f[id] = [ui.windows[id] EXCEPT !.dialog = Closed]
        BY <2>2, <3>1
      <4> HIDE DEF f
      <4> QED
        BY <2>1, <4>1 DEF WindowSet
    <3>2. CASE id \notin ui.registered
      BY <2>1, <3>2
    <3> QED
      BY <3>1, <3>2
  <2> DEFINE n == Len(ui.windows)
  <2>4. n \in Nat /\ DOMAIN ui.windows = 1..n
    BY <1>1
  <2>5. f = [id \in 1..n |-> f[id]]
    BY <2>4
  <2> HIDE DEF f, n
  <2>6. f \in [1..n -> WindowSet]
    BY <2>3, <2>4, <2>5
  <2> QED
    BY <2>4, <2>6, FunctionIsSeq
<1>5. t = WithWindows(bare, f, none)
  <2> DEFINE destroyed == {id \in ui.registered \cap bare.registered :
                              closeEvent(bare.windows[id].dialog).closes
                                 > bare.windows[id].dialog.closes}
  <2>1. destroyed = {}
    BY <1>3
  <2> DEFINE g == [id \in DOMAIN bare.windows |->
                      IF id \in destroyed
                      THEN [config |-> NoConfig, dialog |-> closeEvent(bare.windows[id].dialog),
                            wired |-> FALSE]
                      ELSE IF id \in ui.registered
                           THEN [bare.windows[id] EXCEPT !.dialog = closeEvent(bare.windows[id].dialog)]
                           ELSE bare.windows[id]]
  <2>2. t = WithWindows(bare, g, bare.registered \ destroyed)
    BY DEF CloseWindows, WithWindows
  <2>3. g = f
    <3> HIDE DEF destroyed
    <3> QED
      BY <1>3, <2>1
  <2> HIDE DEF destroyed, g, f, t
  <2>4. bare.registered \ destroyed = none
    BY <1>3, <2>1
  <2> QED
    BY <2>2, <2>3, <2>4
<1> HIDE DEF f, t
<1>6. t \in UI /\ WindowsOnly(bare, t) /\ t.registered = none
  <2> HIDE DEF none
  <2> QED
    BY <1>1, <1>3, <1>4, <1>5, WindowsSet
<1>7. WindowsOnly(ui, t)
  BY <1>3, <1>6 DEF WindowsOnly
<1> QED
  BY <1>2, <1>6, <1>7 DEF t

UITyped == ui \in UI

LEMMA DialogsLiveNext == UITyped' => LifeCycleKept'
<1>1. UITyped => LifeCycleKept
  BY DialogsLive DEF UITyped
<1> QED
  BY <1>1, PTL

LEMMA ExitKeeps ==
    ASSUME KnownState, RestTyped, FileInv, Exit
    PROVE  SessionInv'
<1> DEFINE closed == CloseWindows([ui EXCEPT !.registered = {}], ui.registered)
<1>1. /\ outcome' = "exited" /\ UNCHANGED <<file, forgotten, restores>>
      /\ ui' = IF ui.trend = NoTrend THEN closed ELSE CloseTrend(closed, ui.trend)
  BY DEF Exit
<1>2. closed \in UI /\ WindowsOnly(ui, closed) /\ closed.registered = {}
  BY AllClosed DEF KnownState
<1> HIDE DEF closed
<1>3. /\ ui.trend \in {NoTrend} \cup DOMAIN ui.trends
      /\ ui.trend # NoTrend => ui.trends[ui.trend].dialog = Shown
      /\ forgotten \subseteq DOMAIN ui.trends
  BY DEF KnownState, TrendsKnown
<1>4. /\ closed.trend = ui.trend /\ closed.trends = ui.trends /\ closed.settings = ui.settings
  BY <1>2 DEF WindowsOnly
<1>5. NoTrend \notin DOMAIN ui.trends
  BY <1>2, <1>4, UIFields DEF NoTrend
<1>6. /\ ui' \in UI /\ ui'.registered = {} /\ ui'.settings = ui.settings
      /\ DOMAIN ui'.trends = DOMAIN ui.trends /\ ui'.trend = NoTrend
  <2>1. CASE ui.trend = NoTrend
    BY <1>1, <1>2, <1>4, <2>1
  <2>2. CASE ui.trend # NoTrend
    <3> DEFINE id == ui.trend
    <3>1. id \in DOMAIN closed.trends /\ closed.trends[id].dialog = Shown /\ id = closed.trend
      BY <1>3, <1>4, <2>2
    <3>2. ui' = TrendBecomes(closed, id, Closed)
      BY <1>1, <2>2, <3>1, DialogLife DEF CloseTrend
    <3> HIDE DEF id
    <3>3. TrendIs(closed, ui', id, Closed, FALSE) /\ ui'.trend = NoTrend
      BY <1>2, <3>1, <3>2, TrendShut
    <3> QED
      BY <1>2, <1>4, <3>3 DEF TrendIs, TrendsOnly
  <2> QED
    BY <2>1, <2>2
<1>7. TypeOK'
  <2>1. ui'.settings \in SettingsOf /\ restores' \in 0..MaxRestores
    BY <1>1, <1>6 DEF RestTyped
  <2> QED
    BY <1>1, <1>6, <2>1 DEF TypeOK
<1>8. ForgottenInv'
  BY <1>1, <1>3, <1>5, <1>6 DEF ForgottenInv
<1>9. NoOrphans'
  BY <1>1 DEF NoOrphans
<1>10. FileInv'
  BY <1>1 DEF FileInv
<1>11. LifeCycleKept'
  BY <1>6, DialogsLiveNext DEF UITyped
<1> QED
  BY <1>7, <1>8, <1>9, <1>10, <1>11 DEF SessionInv

LEMMA SessionStep ==
    ASSUME SessionInv, [Next]_vars
    PROVE  SessionInv'
<1>1. CASE UNCHANGED vars
  BY <1>1 DEF vars, SessionInv, TypeOK, FileInv, ForgottenInv, LifeCycleKept, Dialogs, NoOrphans
<1>2. CASE Next
  <2>1. outcome # "exited"
    BY <1>2 DEF Next, NewWindow, LeaveWindow, Apply, OpenTrend, LeaveTrend, EnterSettings,
                on_actionSave_Session_triggered, on_actionRestore_Session_triggered, Exit, Running
  <2>2. KnownState /\ RestTyped /\ FileInv
    BY <2>1, InvKnown
  <2> QED
    BY <1>2, <2>2, NewWindowKeeps, LeaveWindowKeeps, ApplyKeeps, OpenTrendKeeps, LeaveTrendKeeps,
       EnterSettingsKeeps, SaveKeeps, RestoreKeeps, ExitKeeps DEF Next
<1> QED
  BY <1>1, <1>2

\* The windows, trends, file and forgotten trends stay what the handlers of
\* mainwindow.cpp make of them: the inductive invariant of sessions.
THEOREM SessionInvariant == Spec => []SessionInv
<1>1. Init => SessionInv
  BY SessionStart
<1>2. SessionInv /\ [Next]_vars => SessionInv'
  BY SessionStep
<1> QED
  BY <1>1, <1>2, PTL DEF Spec

\* Every window, trend, file and outcome is one of the program's.
THEOREM SessionTypeCorrect == Spec => []TypeOK
<1>1. SessionInv => TypeOK
  BY DEF SessionInv
<1> QED
  BY <1>1, SessionInvariant, PTL

\* However a window or trend is closed, its setupUi() has run once and it has
\* reported window_closed once (base_dialog.cpp).
THEOREM LifeCycleIsKept == Spec => []LifeCycleKept
<1>1. SessionInv => LifeCycleKept
  BY DEF SessionInv
<1> QED
  BY <1>1, SessionInvariant, PTL

\* On the screen are the windows of m_register_windows and the trend m_trend points
\* to, and no other but a trend a failed Restore has forgotten.
THEOREM NothingOrphaned == Spec => []NoOrphans
<1>1. SessionInv => NoOrphans
  BY DEF SessionInv
<1> QED
  BY <1>1, SessionInvariant, PTL

-----------------------------------------------------------------------------
(* What a Restore leaves, whether it succeeds or not.                      *)

\* Only Restore uses one up.
LEMMA RestoresIs ==
    ASSUME SessionInv, [Next]_vars, Restores
    PROVE  /\ SessionFile(file) /\ SessionFile(file') /\ (file'.damage = "no" => file' = file)
           /\ KnownState /\ \E loaded : RestoreDone(loaded)
<1>1. \E damage \in Damages : on_actionRestore_Session_triggered(damage)
  BY DEF Restores, Next, vars, NewWindow, LeaveWindow, Apply, OpenTrend, LeaveTrend, EnterSettings,
         on_actionSave_Session_triggered, Exit
<1>2. outcome # "exited"
  BY <1>1 DEF on_actionRestore_Session_triggered, Running
<1>3. KnownState /\ RestTyped /\ FileInv
  BY <1>2, InvKnown
<1> QED
  BY <1>1, <1>3, RestoreEffects

\* A Restore that fails, wherever it does, leaves timeoutEdit and portEdit as they
\* were (the catch clause of on_actionRestore_Session_triggered).
THEOREM SettingsSurviveFailure == Spec => FailureKeepsSettings
<1>1. SessionInv /\ [Next]_vars =>
         [Restores /\ outcome' # "restored" => ui'.settings = ui.settings]_vars
  <2> SUFFICES ASSUME SessionInv, [Next]_vars, Restores, outcome' # "restored"
               PROVE  ui'.settings = ui.settings
    OBVIOUS
  <2>1. PICK loaded : RestoreDone(loaded)
    BY RestoresIs
  <2> QED
    BY <2>1 DEF RestoreDone
<1> QED
  BY <1>1, SessionInvariant, PTL DEF Spec, FailureKeepsSettings

LEMMA CountOfRange ==
    ASSUME NEW m \in Nat, NEW n \in Nat
    PROVE  Cardinality((m + 1)..(m + n)) = n
<1> DEFINE first == m + 1
           last == m + n
<1>1. first \in Int /\ last \in Int /\ last - first + 1 = n /\ (first > last => n = 0)
  OBVIOUS
<1> HIDE DEF first, last
<1>2. Cardinality(first..last) = IF first > last THEN 0 ELSE last - first + 1
  BY <1>1, FS_Interval
<1>3. Cardinality(first..last) = n
  BY <1>1, <1>2
<1> QED
  BY <1>3 DEF first, last

LEMMA NthOfRange ==
    ASSUME NEW m \in Nat, NEW n \in Nat, NEW i \in 1..n
    PROVE  Nth((m + 1)..(m + n), i) = m + i
<1> DEFINE ids == (m + 1)..(m + n)
           UpTo(id) == {other \in ids : other <= id}
<1>1. ASSUME NEW id \in ids PROVE Cardinality(UpTo(id)) = id - m
  <2>1. UpTo(id) = (m + 1)..id
    <3>1. id \in Int /\ id <= m + n
      OBVIOUS
    <3>2. ASSUME NEW other PROVE other \in UpTo(id) <=> other \in (m + 1)..id
      BY <3>1
    <3> DEFINE below == UpTo(id)
               upto == (m + 1)..id
    <3>3. ASSUME NEW other PROVE other \in below <=> other \in upto
      BY <3>2
    <3> HIDE DEF below, upto
    <3>4. below = upto
      BY <3>3
    <3> QED
      BY <3>4 DEF below, upto
  <2>2. id \in Int /\ m + 1 <= id
    OBVIOUS
  <2>3. Cardinality((m + 1)..id) = id - (m + 1) + 1
    BY <2>2, FS_Interval
  <2> HIDE DEF UpTo
  <2>4. Cardinality(UpTo(id)) = id - (m + 1) + 1
    BY <2>1, <2>3
  <2> QED
    BY <2>2, <2>4
<1>2. m + i \in ids /\ (m + i) - m = i
  OBVIOUS
<1>3. \A id \in ids : id - m = i => id = m + i
  OBVIOUS
<1> HIDE DEF UpTo, ids
<1>4. \A id \in ids : Cardinality(UpTo(id)) = i <=> id = m + i
  BY <1>1, <1>2, <1>3
<1>5. Nth(ids, i) = CHOOSE id \in ids : Cardinality(UpTo(id)) = i
  BY DEF Nth, UpTo
<1>6. Nth(ids, i) \in ids /\ Cardinality(UpTo(Nth(ids, i))) = i
  BY <1>2, <1>4, <1>5
<1> QED
  BY <1>4, <1>6 DEF ids

\* The element of a window is one its class accepts.
LEMMA OwnElementAccepted ==
    ASSUME NEW config \in Configs
    PROVE  load_configuration_parameters(Entry(config))
<1> DEFINE entry == Entry(config)  kind == config.kind  start == config.start
<1>1. entry.kind = kind /\ entry.start = start /\ entry.max = MaxRegs(start)
  BY DEF Entry
<1>2. kind \in Kinds /\ start \in RegistersOf(kind) /\ start \in FileRegisters
  BY ConfigFields
<1> HIDE DEF entry, kind, start
<1>3. start \in Int
  BY <1>2, FileRegistersInt
<1>4. CASE kind = "CoilsDisplay"
  <2>1. start < 10000
    BY <1>2, <1>3, <1>4, OwnRegisters
  <2> QED
    BY <1>1, <1>4, <2>1 DEF load_configuration_parameters, entry
<1>5. CASE kind = "InputsDisplay"
  <2>1. 10001 <= start /\ start <= 19999
    BY <1>2, <1>3, <1>5, OwnRegisters
  <2>2. start > 10000 /\ start < 20000
    BY <1>3, <2>1
  <2> QED
    BY <1>1, <1>5, <2>2 DEF load_configuration_parameters, entry
<1>6. CASE kind = "RegisterDisplay"
  BY <1>1, <1>6 DEF load_configuration_parameters, entry
<1>7. CASE kind = "HoldingRegisterDisplay"
  <2>1. 40001 <= start /\ start <= 49999
    BY <1>2, <1>3, <1>7, OwnRegisters
  <2>2. start >= 40001 /\ start < 50000
    BY <1>3, <2>1
  <2> QED
    BY <1>1, <1>7, <2>2 DEF load_configuration_parameters, entry
<1> QED
  BY <1>2, <1>4, <1>5, <1>6, <1>7 DEF Kinds

\* A window that shows the last register of its range cannot be read back; every
\* other can.
LEMMA OwnElementLoadable ==
    ASSUME NEW config \in Configs
    PROVE  Loadable(Entry(config)) <=> config.start + config.count - 1 < LastRegister(config.start)
<1> DEFINE entry == Entry(config)  kind == config.kind  start == config.start
           count == config.count  node == config.node  last == LastRegister(start)
<1>1. /\ entry.kind = kind /\ entry.start = start /\ entry.count = count /\ entry.node = node
      /\ entry.max = MaxRegs(start)
  BY DEF Entry
<1>2. /\ kind \in Kinds /\ start \in FileRegisters /\ count \in 1..2000 /\ node \in 0..255
      /\ count <= MaxRegs(start)
  BY ConfigFields
<1> HIDE DEF entry, kind, start, count, node
<1>3. start \in Int /\ start <= 49999 /\ count \in Int /\ 1 <= count /\ count <= 2000
  BY <1>2, FileRegistersInt
<1>4. count \in 1..MaxRegs(start)
  BY <1>2, <1>3, WithinMax
<1>5. Loadable(entry) <=> (start + count) \div 10000 = start \div 10000
  <2>1. load_base_data(entry) <=>
           /\ node \in 0..255 /\ count \in 1..MaxRegs(start)
           /\ start \in FileRegisters
           /\ (start + count) \div 10000 = start \div 10000
    BY <1>1 DEF load_base_data
  <2>2. entry.kind \in Kinds
    BY <1>1, <1>2
  <2> QED
    BY <1>2, <1>4, <2>1, <2>2 DEF Loadable
<1>6. (start + count) \div 10000 = start \div 10000 <=> start + count - 1 < last
  <2>1. CASE 1 <= start /\ start <= 9999
    <3>1. last = 9999
      BY <1>2, <1>3, <2>1, RangeOf
    <3> HIDE DEF last
    <3> QED
      BY <1>3, <2>1, <3>1
  <2>2. CASE 10000 <= start /\ start <= 19999
    <3>1. last = 19999
      BY <1>2, <1>3, <2>2, RangeOf
    <3> HIDE DEF last
    <3> QED
      BY <1>3, <2>2, <3>1
  <2>3. CASE 30001 <= start /\ start <= 39999
    <3>1. last = 39999
      BY <1>2, <1>3, <2>3, RangeOf
    <3> HIDE DEF last
    <3> QED
      BY <1>3, <2>3, <3>1
  <2>4. CASE 40000 <= start
    <3>1. last = 49999
      BY <1>2, <1>3, <2>4, RangeOf
    <3> HIDE DEF last
    <3> QED
      BY <1>3, <2>4, <3>1
  <2> QED
    BY <1>2, <2>1, <2>2, <2>3, <2>4, RangeOf
<1> QED
  BY <1>5, <1>6 DEF entry, start, count, last

\* What the program has saved and nobody has spoilt.
LEMMA WholeFile ==
    ASSUME NEW f, SessionFile(f), f.damage = "no"
    PROVE  /\ f.windows \in Seq(Elements)
           /\ f.trend \in {"none", "saved"}
           /\ f = [settings |-> f.settings, windows |-> f.windows, trend |-> f.trend, damage |-> "no"]
           /\ \A i \in DOMAIN f.windows :
                 /\ Config(f.windows[i]) \in Configs
                 /\ f.windows[i] = Entry(Config(f.windows[i]))
                 /\ load_configuration_parameters(f.windows[i])
                 /\ Loadable(f.windows[i]) <=>
                       f.windows[i].start + f.windows[i].count - 1 < LastRegister(f.windows[i].start)
<1>1. /\ f.windows \in Seq(Elements) /\ f.trend \in {"none", "saved"}
      /\ f = [settings |-> f.settings, windows |-> f.windows, trend |-> f.trend, damage |-> "no"]
      /\ \A i \in DOMAIN f.windows :
            Config(f.windows[i]) \in Configs /\ f.windows[i] = Entry(Config(f.windows[i]))
  BY DEF SessionFile
<1>2. ASSUME NEW i \in DOMAIN f.windows
      PROVE  /\ load_configuration_parameters(f.windows[i])
             /\ Loadable(f.windows[i]) <=>
                   f.windows[i].start + f.windows[i].count - 1 < LastRegister(f.windows[i].start)
  <2> DEFINE entry == f.windows[i]
             config == Config(entry)
  <2>1. config \in Configs /\ entry = Entry(config)
    BY <1>1
  <2>2. config.start = entry.start /\ config.count = entry.count
    BY DEF Config
  <2> HIDE DEF entry, config
  <2>3. load_configuration_parameters(entry)
    BY <2>1, OwnElementAccepted
  <2>4. Loadable(entry) <=> entry.start + entry.count - 1 < LastRegister(entry.start)
    BY <2>1, <2>2, OwnElementLoadable
  <2> QED
    BY <2>3, <2>4 DEF entry
<1> QED
  BY <1>1, <1>2

\* A file nobody has spoilt is read back if its settings make sense and no window
\* shows the last register of its range, and otherwise is not (load_base_data() of
\* mainwindow.cpp wants the register after the last one to be of the range).
THEOREM SavedSessionRestored == Spec => SavedRestores
<1>1. SessionInv /\ [Next]_vars =>
         [Restores /\ file'.damage = "no" =>
             (outcome' = "restored" <=>
                 /\ file.settings.timeout >= 1 /\ file.settings.port \in Ports
                 /\ \A i \in DOMAIN file.windows :
                       LET w == file.windows[i] IN w.start + w.count - 1 < LastRegister(w.start))]_vars
  <2> SUFFICES ASSUME SessionInv, [Next]_vars, Restores, file'.damage = "no"
               PROVE  outcome' = "restored" <=>
                         /\ file.settings.timeout >= 1 /\ file.settings.port \in Ports
                         /\ \A i \in DOMAIN file.windows :
                               LET w == file.windows[i]
                               IN  w.start + w.count - 1 < LastRegister(w.start)
    OBVIOUS
  <2>1. SessionFile(file) /\ file' = file /\ file.damage = "no"
    BY RestoresIs
  <2>2. outcome' = "restored" <=> Readable(file)
    <3>1. PICK loaded : RestoreDone(loaded)
      BY RestoresIs
    <3> QED
      BY <2>1, <3>1 DEF RestoreDone
  <2>3. /\ file.trend \in {"none", "saved"}
        /\ \A i \in DOMAIN file.windows :
              Loadable(file.windows[i]) <=>
                 file.windows[i].start + file.windows[i].count - 1 < LastRegister(file.windows[i].start)
    BY <2>1, WholeFile
  <2>4. Readable(file) <=>
           /\ file.settings.timeout >= 1 /\ file.settings.port \in Ports
           /\ \A i \in DOMAIN file.windows : Loadable(file.windows[i])
    BY <2>1, <2>3 DEF Readable, SettingsGood
  <2> QED
    BY <2>2, <2>3, <2>4, Zenon
<1> QED
  BY <1>1, SessionInvariant, PTL DEF Spec, SavedRestores

\* What is on the screen after a Restore that succeeds.
LEMMA RestoredWindows ==
    ASSUME KnownState, NEW loaded, RestoreDone(loaded), SessionFile(file'), file'.damage = "no",
           Readable(file')
    PROVE  LET m == Len(ui.windows)
               n == Len(file'.windows)
           IN  /\ m \in Nat /\ n \in Nat /\ DOMAIN file'.windows = 1..n
               /\ ui'.registered = (m + 1)..(m + n)
               /\ \A i \in 1..n : ui'.windows[m + i].config = Config(file'.windows[i])
<1> DEFINE s == WithPointer(ui, NoTrend)
           m == Len(ui.windows)
           n == Len(file'.windows)
<1>1. ui \in UI /\ ui.windows \in Seq(WindowSet) /\ ui.registered \subseteq DOMAIN ui.windows
  BY UIFields DEF KnownState, WindowsKnown
<1>2. s.windows = ui.windows /\ s.registered = ui.registered
  <2>1. NoTrend \in Nat
    BY DEF NoTrend
  <2> QED
    BY <1>1, <2>1, PointerSet DEF TrendsOnly
<1>3. n \in Nat /\ DOMAIN file'.windows = 1..n
  <2>1. file'.windows \in Seq(Elements)
    BY WholeFile
  <2> QED
    BY <2>1
<1>4. m \in Nat /\ DOMAIN ui.windows = 1..m
  BY <1>1
<1>5. \A i \in DOMAIN file'.windows : Accepted(file'.windows[i])
  BY WholeFile DEF Readable, Accepted
<1>6. ReadWhole(s, loaded, file')
  BY DEF RestoreDone
<1> HIDE DEF s, m, n
<1>7. /\ loaded.registered = ui.registered \cup (m + 1)..Len(loaded.windows)
      /\ AllOpened(s, loaded, file'.windows, n)
  BY <1>2, <1>5, <1>6 DEF ReadWhole, m, n
<1>8. /\ Len(loaded.windows) = m + n
      /\ \A i \in 1..n : loaded.windows[m + i].config = Config(file'.windows[i])
  BY <1>2, <1>7 DEF AllOpened, m
<1>9. DOMAIN loaded.windows = 1..(m + n)
  <2>1. loaded \in UI
    BY DEF RestoreDone, BeforeAfter, Reads, WindowsKnown
  <2> QED
    BY <1>8, <2>1, UIFields
<1>10. /\ ui'.registered = loaded.registered \ ui.registered
       /\ \A id \in DOMAIN loaded.windows \ ui.registered : ui'.windows[id] = loaded.windows[id]
  BY DEF RestoreDone, Replaced
<1>11. \A id \in (m + 1)..(m + n) : id \notin ui.registered /\ id \in DOMAIN loaded.windows
  BY <1>1, <1>3, <1>4, <1>9
<1>12. ui'.registered = (m + 1)..(m + n)
  <2> DEFINE new == (m + 1)..(m + n)
  <2>1. loaded.registered = ui.registered \cup new
    BY <1>7, <1>8
  <2>2. \A id \in new : id \notin ui.registered
    BY <1>11
  <2> HIDE DEF new
  <2>3. ui'.registered = new
    BY <1>10, <2>1, <2>2
  <2> QED
    BY <2>3 DEF new
<1>13. ASSUME NEW i \in 1..n PROVE ui'.windows[m + i].config = Config(file'.windows[i])
  <2>1. m + i \in (m + 1)..(m + n)
    BY <1>3, <1>4
  <2>2. ui'.windows[m + i] = loaded.windows[m + i]
    BY <1>10, <1>11, <2>1
  <2> QED
    BY <1>8, <2>2
<1> QED
  BY <1>3, <1>4, <1>12, <1>13 DEF m, n

\* A session restored from what was saved would be saved as the same file: the
\* windows with their registers and nodes, the trend and the settings, and nothing
\* of the session before.
THEOREM RestoredExactly == Spec => RestoreExact
<1>1. SessionInv /\ [Next]_vars =>
         [Restores /\ outcome' = "restored" /\ file'.damage = "no" => save_config(ui') = file']_vars
  <2> SUFFICES ASSUME SessionInv, [Next]_vars, Restores, outcome' = "restored", file'.damage = "no"
               PROVE  save_config(ui') = file'
    OBVIOUS
  <2> DEFINE m == Len(ui.windows)
             n == Len(file'.windows)
             ids == (m + 1)..(m + n)
             saved == [i \in 1..Cardinality(ui'.registered) |->
                          Entry(ui'.windows[Nth(ui'.registered, i)].config)]
             trend == IF ui'.trend = NoTrend THEN "none" ELSE "saved"
  <2>1. KnownState /\ SessionFile(file')
    BY RestoresIs
  <2>2. PICK loaded : RestoreDone(loaded)
    BY RestoresIs
  <2>3. Readable(file')
    BY <2>2 DEF RestoreDone
  <2>4. /\ m \in Nat /\ n \in Nat /\ DOMAIN file'.windows = 1..n
        /\ ui'.registered = ids
        /\ \A i \in 1..n : ui'.windows[m + i].config = Config(file'.windows[i])
    BY <2>1, <2>2, <2>3, RestoredWindows
  <2>5. /\ file'.windows \in Seq(Elements)
        /\ file'.trend \in {"none", "saved"}
        /\ file' = [settings |-> file'.settings, windows |-> file'.windows, trend |-> file'.trend,
                    damage |-> "no"]
        /\ \A i \in DOMAIN file'.windows : file'.windows[i] = Entry(Config(file'.windows[i]))
    BY <2>1, WholeFile
  <2>6. ui'.settings = file'.settings /\ (ui'.trend = NoTrend <=> file'.trend = "none")
    BY <2>2, <2>3 DEF RestoreDone, ReadWhole
  <2>7. save_config(ui') = [settings |-> ui'.settings, windows |-> saved, trend |-> trend,
                            damage |-> "no"]
    BY DEF save_config
  <2>8. trend = file'.trend
    BY <2>5, <2>6
  <2>9. saved = file'.windows
    <3>1. Cardinality(ids) = n
      <4> HIDE DEF m, n
      <4> QED
        BY <2>4, CountOfRange
    <3>2. ASSUME NEW i \in 1..n PROVE Entry(ui'.windows[Nth(ui'.registered, i)].config) = file'.windows[i]
      <4>1. Nth(ui'.registered, i) = m + i
        <5> HIDE DEF m, n
        <5> QED
          BY <2>4, NthOfRange
      <4>2. ui'.windows[m + i].config = Config(file'.windows[i])
        BY <2>4
      <4> QED
        BY <2>4, <2>5, <4>1, <4>2
    <3>3. file'.windows = [i \in 1..n |-> file'.windows[i]]
      BY <2>4, <2>5
    <3> HIDE DEF m, n, ids
    <3>4. saved = [i \in 1..n |-> Entry(ui'.windows[Nth(ui'.registered, i)].config)]
      BY <2>4, <3>1
    <3> QED
      BY <3>2, <3>3, <3>4
  <2> HIDE DEF saved, trend
  <2> QED
    BY <2>5, <2>6, <2>7, <2>8, <2>9
<1> QED
  BY <1>1, SessionInvariant, PTL DEF Spec, RestoreExact

=============================================================================
