------------------------- MODULE RunnerWindowProofs -------------------------
(***************************************************************************)
(* Theorems about RunnerWindow.  The thread's call stack takes a few dozen *)
(* shapes; the inductive invariant says for every shape which stage of its *)
(* life the window is in and what of it exists there, or that the program  *)
(* has crashed and when.                                                   *)
(***************************************************************************)
EXTENDS RunnerWindow, SequenceTheorems, TLAPS

-----------------------------------------------------------------------------
(* The stages, from the first step of wWinMain to its return.              *)

\* What is true from the constructor to the end of the message loop.
Alive ==
    /\ result = "none"
    /\ isFlutterWindow
    /\ g_active_window_count = 1
    /\ destroys = 0

Hidden ==
    /\ ~os.shown
    /\ ~os.active

\* Nothing of the window exists.  The Destroy of Create finds nothing.
StartingStacks ==
    {<<"FlutterWindow", "Create", "IfCreated">>,
     <<"Create", "IfCreated">>,
     <<"Destroy", "GetWindowClass", "CreateWindow", "IfCreated">>,
     <<"OnDestroy", "DestroyHandle", "UnregisterWindowClass",
       "GetWindowClass", "CreateWindow", "IfCreated">>,
     <<"DestroyHandle", "UnregisterWindowClass",
       "GetWindowClass", "CreateWindow", "IfCreated">>,
     <<"UnregisterWindowClass", "GetWindowClass", "CreateWindow", "IfCreated">>,
     <<"GetWindowClass", "CreateWindow", "IfCreated">>,
     <<"CreateWindow", "IfCreated">>}

Starting ==
    /\ todo \in StartingStacks
    /\ ~created
    /\ result = "none"
    /\ ~window_handle_ /\ ~child_content_ /\ ~quit_on_close_
    /\ flutter_controller_ = "null"
    /\ isFlutterWindow
    /\ g_active_window_count = IF Running("FlutterWindow") THEN 0 ELSE 1
    /\ class_registered_ <=> Running("CreateWindow")
    /\ os.class <=> Running("CreateWindow")
    /\ os.window = "none"
    /\ Hidden
    /\ posted = {}
    /\ destroys = 0

\* Windows has made the window; engine, view and callback follow.
OpeningStacks ==
    {<<"UpdateTheme", "OnCreate", "IfCreated">>,
     <<"OnCreate", "IfCreated">>,
     <<"SetChildContent", "SetNextFrameCallback", "ForceRedraw", "IfCreated">>,
     <<"SetNextFrameCallback", "ForceRedraw", "IfCreated">>,
     <<"ForceRedraw", "IfCreated">>,
     <<"IfCreated">>}

Opening ==
    /\ todo \in OpeningStacks
    /\ Alive
    /\ class_registered_ /\ os.class
    /\ os.window = "live"
    /\ window_handle_
    /\ ~quit_on_close_
    /\ created <=> (flutter_controller_ = "ready")
    /\ Running("UpdateTheme") \/ Running("OnCreate") => flutter_controller_ = "null"
    /\ Running("SetChildContent") \/ Running("SetNextFrameCallback") \/ Running("ForceRedraw")
         => flutter_controller_ = "ready"
    /\ Running("IfCreated") => flutter_controller_ \in {"broken", "ready"}
    /\ child_content_ <=> (created /\ ~Running("SetChildContent"))
    /\ child_content_ => os.focus /\ os.childSize = os.size
    /\ Hidden
    /\ posted \subseteq {"theme"}

\* CreateWindow failed.
NoWindow ==
    /\ todo = <<"IfCreated">>
    /\ ~created
    /\ Alive
    /\ ~window_handle_ /\ ~child_content_ /\ ~quit_on_close_
    /\ flutter_controller_ = "null"
    /\ class_registered_ /\ os.class
    /\ os.window = "none"
    /\ Hidden
    /\ posted = {}

\* The message loop and the handlers it runs while the window lives.
OpenStacks ==
    {<<"GetMessage">>,
     <<"UpdateTheme", "GetMessage">>,
     <<"Show", "GetMessage">>,
     <<"WM_ACTIVATE", "WM_SIZE", "GetMessage">>,
     <<"WM_SIZE", "GetMessage">>,
     <<"WM_ACTIVATE", "GetMessage">>,
     <<"DestroyWindow", "GetMessage">>}

Open ==
    /\ todo \in OpenStacks
    /\ Alive
    /\ window_handle_ /\ child_content_ /\ quit_on_close_
    /\ flutter_controller_ = "ready"
    /\ class_registered_ /\ os.class
    /\ os.window = "live"
    /\ todo \notin {<<"WM_SIZE", "GetMessage">>, <<"WM_ACTIVATE", "WM_SIZE", "GetMessage">>}
         => os.childSize = os.size
    /\ os.active => os.focus \/ Running("WM_ACTIVATE")
    /\ "quit" \notin posted

\* The user closed the window: DestroyWindow and the Destroy inside it.
ClosingStacks ==
    {<<"WM_ACTIVATE", "WM_DESTROY", "WM_NCDESTROY", "GetMessage">>,
     <<"WM_DESTROY", "WM_NCDESTROY", "GetMessage">>,
     <<"Destroy", "PostQuit", "WM_NCDESTROY", "GetMessage">>,
     <<"OnDestroy", "DestroyHandle", "UnregisterWindowClass",
       "PostQuit", "WM_NCDESTROY", "GetMessage">>,
     <<"DestroyHandle", "UnregisterWindowClass",
       "PostQuit", "WM_NCDESTROY", "GetMessage">>,
     <<"UnregisterWindowClass", "PostQuit", "WM_NCDESTROY", "GetMessage">>,
     <<"PostQuit", "WM_NCDESTROY", "GetMessage">>,
     <<"WM_NCDESTROY", "GetMessage">>}

Closing ==
    /\ todo \in ClosingStacks
    /\ Alive
    /\ quit_on_close_
    /\ child_content_
    /\ class_registered_ /\ os.class
    /\ os.window = "dying"
    /\ ~os.active
    /\ window_handle_ <=> (Running("WM_ACTIVATE") \/ Running("WM_DESTROY"))
    /\ flutter_controller_ =
         IF Running("WM_ACTIVATE") \/ Running("WM_DESTROY") \/ Running("Destroy") \/
         Running("OnDestroy")
         THEN "ready" ELSE "null"
    /\ "quit" \in posted <=> Running("WM_NCDESTROY")

\* The window is gone, or never was; what is left is the class.
ClosedStacks ==
    {<<"GetMessage">>,
     <<"~FlutterWindow", "~Win32Window">>,
     <<"~Win32Window">>,
     <<"Destroy">>,
     <<"OnDestroy", "DestroyHandle", "UnregisterWindowClass">>,
     <<"DestroyHandle", "UnregisterWindowClass">>,
     <<"ClearHandle", "UnregisterWindowClass">>,
     <<"UnregisterWindowClass">>,
     <<>>}

Closed ==
    /\ todo \in ClosedStacks
    /\ os.window \in {"none", "gone"}
    /\ Waiting => os.window = "gone"
    /\ ~os.shown
    /\ ~window_handle_
    /\ flutter_controller_ = "null"
    /\ isFlutterWindow <=> (Waiting \/ Running("~FlutterWindow"))
    /\ g_active_window_count =
         IF Waiting \/ Running("~FlutterWindow") \/ Running("~Win32Window") THEN 1 ELSE 0
    /\ result = "none" <=> Waiting
    /\ os.class <=> todo # <<>>
    /\ todo = <<>> => ~class_registered_
    /\ Waiting => posted = {"quit"}
    /\ destroys <= 1

\* The start failed after the window was made: no engine or no view.  The
\* destructor is on its way to DestroyWindow.
FailedStacks ==
    {<<"~FlutterWindow", "~Win32Window">>,
     <<"~Win32Window">>,
     <<"Destroy">>,
     <<"OnDestroy", "DestroyHandle", "UnregisterWindowClass">>,
     <<"DestroyHandle", "UnregisterWindowClass">>,
     <<"DestroyWindow", "ClearHandle", "UnregisterWindowClass">>}

Failed ==
    /\ todo \in FailedStacks
    /\ ~created
    /\ result = "EXIT_FAILURE"
    /\ window_handle_ /\ ~child_content_ /\ ~quit_on_close_
    /\ flutter_controller_ = IF Running("~FlutterWindow") THEN "broken" ELSE "null"
    /\ isFlutterWindow <=> Running("~FlutterWindow")
    /\ g_active_window_count =
         IF Running("~FlutterWindow") \/ Running("~Win32Window") THEN 1 ELSE 0
    /\ class_registered_ /\ os.class
    /\ os.window = "live"
    /\ Hidden
    /\ posted \subseteq {"theme"}
    /\ destroys = IF Running("DestroyWindow") THEN 1 ELSE 0

\* The Destroy inside that DestroyWindow clears the flag of the class, too early
\* for Windows; the one around it is in time.
FallingStacks ==
    {<<"WM_DESTROY", "WM_NCDESTROY", "ClearHandle", "UnregisterWindowClass">>,
     <<"Destroy", "PostQuit", "WM_NCDESTROY", "ClearHandle", "UnregisterWindowClass">>,
     <<"OnDestroy", "DestroyHandle", "UnregisterWindowClass", "PostQuit",
       "WM_NCDESTROY", "ClearHandle", "UnregisterWindowClass">>,
     <<"DestroyHandle", "UnregisterWindowClass", "PostQuit",
       "WM_NCDESTROY", "ClearHandle", "UnregisterWindowClass">>,
     <<"UnregisterWindowClass", "PostQuit",
       "WM_NCDESTROY", "ClearHandle", "UnregisterWindowClass">>,
     <<"PostQuit", "WM_NCDESTROY", "ClearHandle", "UnregisterWindowClass">>,
     <<"WM_NCDESTROY", "ClearHandle", "UnregisterWindowClass">>}

Falling ==
    /\ todo \in FallingStacks
    /\ result = "EXIT_FAILURE"
    /\ window_handle_ <=> Running("WM_DESTROY")
    /\ ~child_content_ /\ ~quit_on_close_
    /\ flutter_controller_ = "null"
    /\ ~isFlutterWindow
    /\ g_active_window_count = 0
    /\ os.class
    /\ os.window = "dying"
    /\ Hidden
    /\ destroys = 1

\* A font change found no controller.  Nothing runs any more.
Ended ==
    /\ todo = <<>>
    /\ engine = Idle
    /\ ~created \/ os.window = "dying"
    /\ window_handle_ => os.window \in {"live", "dying"}
    /\ destroys <= 1

Stages == Starting \/ Opening \/ NoWindow \/ Open \/ Closing \/ Closed \/ Failed \/ Falling

\* Without an engine nothing is rendered and no callback is due.
EngineInv == flutter_controller_ # "ready" => engine = Idle

\* A change of theme is posted, being handled or on the title bar.
ThemeInv ==
    os.window = "live" /\ "theme" \notin posted /\ ~Running("UpdateTheme")
        /\ registry # "missing" => os.theme = registry

IInv ==
    /\ TypeOK
    /\ EngineInv
    /\ IF crashed THEN Ended ELSE Stages /\ ThemeInv

-----------------------------------------------------------------------------
(* Concatenations of short sequences, as calls push them on the stack.     *)

LEMMA Join11 ==
  ASSUME NEW a, NEW b
  PROVE  <<a>> \o <<b>> = <<a, b>>
<1> DEFINE S == {a, b}
<1>1. <<a>> \in Seq(S) /\ <<b>> \in Seq(S) /\ <<a, b>> \in Seq(S)
  OBVIOUS
<1> HIDE DEF S
<1>2. <<a>> \o <<b>> \in Seq(S) /\ Len(<<a>> \o <<b>>) = Len(<<a, b>>)
  BY <1>1
<1>3. \A i \in 1 .. Len(<<a>> \o <<b>>) : (<<a>> \o <<b>>)[i] = <<a, b>>[i]
  BY <1>1
<1> QED  BY <1>1, <1>2, <1>3, SeqEqual

LEMMA Join12 ==
  ASSUME NEW a, NEW b, NEW c
  PROVE  <<a>> \o <<b, c>> = <<a, b, c>>
<1> DEFINE S == {a, b, c}
<1>1. <<a>> \in Seq(S) /\ <<b, c>> \in Seq(S) /\ <<a, b, c>> \in Seq(S)
  OBVIOUS
<1> HIDE DEF S
<1>2. <<a>> \o <<b, c>> \in Seq(S) /\ Len(<<a>> \o <<b, c>>) = Len(<<a, b, c>>)
  BY <1>1
<1>3. \A i \in 1 .. Len(<<a>> \o <<b, c>>) : (<<a>> \o <<b, c>>)[i] = <<a, b, c>>[i]
  BY <1>1
<1> QED  BY <1>1, <1>2, <1>3, SeqEqual

LEMMA Join21 ==
  ASSUME NEW a, NEW b, NEW c
  PROVE  <<a, b>> \o <<c>> = <<a, b, c>>
<1> DEFINE S == {a, b, c}
<1>1. <<a, b>> \in Seq(S) /\ <<c>> \in Seq(S) /\ <<a, b, c>> \in Seq(S)
  OBVIOUS
<1> HIDE DEF S
<1>2. <<a, b>> \o <<c>> \in Seq(S) /\ Len(<<a, b>> \o <<c>>) = Len(<<a, b, c>>)
  BY <1>1
<1>3. \A i \in 1 .. Len(<<a, b>> \o <<c>>) : (<<a, b>> \o <<c>>)[i] = <<a, b, c>>[i]
  BY <1>1
<1> QED  BY <1>1, <1>2, <1>3, SeqEqual

LEMMA Join22 ==
  ASSUME NEW a, NEW b, NEW c, NEW d
  PROVE  <<a, b>> \o <<c, d>> = <<a, b, c, d>>
<1> DEFINE S == {a, b, c, d}
<1>1. <<a, b>> \in Seq(S) /\ <<c, d>> \in Seq(S) /\ <<a, b, c, d>> \in Seq(S)
  OBVIOUS
<1> HIDE DEF S
<1>2. <<a, b>> \o <<c, d>> \in Seq(S) /\ Len(<<a, b>> \o <<c, d>>) = Len(<<a, b, c, d>>)
  BY <1>1
<1>3. \A i \in 1 .. Len(<<a, b>> \o <<c, d>>) : (<<a, b>> \o <<c, d>>)[i] = <<a, b, c, d>>[i]
  BY <1>1
<1> QED  BY <1>1, <1>2, <1>3, SeqEqual

LEMMA Join23 ==
  ASSUME NEW a, NEW b, NEW c, NEW d, NEW e
  PROVE  <<a, b>> \o <<c, d, e>> = <<a, b, c, d, e>>
<1> DEFINE S == {a, b, c, d, e}
<1>1. <<a, b>> \in Seq(S) /\ <<c, d, e>> \in Seq(S) /\ <<a, b, c, d, e>> \in Seq(S)
  OBVIOUS
<1> HIDE DEF S
<1>2. /\ <<a, b>> \o <<c, d, e>> \in Seq(S)
      /\ Len(<<a, b>> \o <<c, d, e>>) = Len(<<a, b, c, d, e>>)
  BY <1>1
<1>3. \A i \in 1 .. Len(<<a, b>> \o <<c, d, e>>) :
       (<<a, b>> \o <<c, d, e>>)[i] = <<a, b, c, d, e>>[i]
  BY <1>1
<1> QED  BY <1>1, <1>2, <1>3, SeqEqual

LEMMA Join31 ==
  ASSUME NEW a, NEW b, NEW c, NEW d
  PROVE  <<a, b, c>> \o <<d>> = <<a, b, c, d>>
<1> DEFINE S == {a, b, c, d}
<1>1. <<a, b, c>> \in Seq(S) /\ <<d>> \in Seq(S) /\ <<a, b, c, d>> \in Seq(S)
  OBVIOUS
<1> HIDE DEF S
<1>2. <<a, b, c>> \o <<d>> \in Seq(S) /\ Len(<<a, b, c>> \o <<d>>) = Len(<<a, b, c, d>>)
  BY <1>1
<1>3. \A i \in 1 .. Len(<<a, b, c>> \o <<d>>) : (<<a, b, c>> \o <<d>>)[i] = <<a, b, c, d>>[i]
  BY <1>1
<1> QED  BY <1>1, <1>2, <1>3, SeqEqual

LEMMA Join33 ==
  ASSUME NEW a, NEW b, NEW c, NEW d, NEW e, NEW f
  PROVE  <<a, b, c>> \o <<d, e, f>> = <<a, b, c, d, e, f>>
<1> DEFINE S == {a, b, c, d, e, f}
<1>1. <<a, b, c>> \in Seq(S) /\ <<d, e, f>> \in Seq(S) /\ <<a, b, c, d, e, f>> \in Seq(S)
  OBVIOUS
<1> HIDE DEF S
<1>2. /\ <<a, b, c>> \o <<d, e, f>> \in Seq(S)
      /\ Len(<<a, b, c>> \o <<d, e, f>>) = Len(<<a, b, c, d, e, f>>)
  BY <1>1
<1>3. \A i \in 1 .. Len(<<a, b, c>> \o <<d, e, f>>) :
       (<<a, b, c>> \o <<d, e, f>>)[i] = <<a, b, c, d, e, f>>[i]
  BY <1>1
<1> QED  BY <1>1, <1>2, <1>3, SeqEqual

LEMMA Join34 ==
  ASSUME NEW a, NEW b, NEW c, NEW d, NEW e, NEW f, NEW g
  PROVE  <<a, b, c>> \o <<d, e, f, g>> = <<a, b, c, d, e, f, g>>
<1> DEFINE S == {a, b, c, d, e, f, g}
<1>1. <<a, b, c>> \in Seq(S) /\ <<d, e, f, g>> \in Seq(S) /\ <<a, b, c, d, e, f, g>> \in Seq(S)
  OBVIOUS
<1> HIDE DEF S
<1>2. /\ <<a, b, c>> \o <<d, e, f, g>> \in Seq(S)
      /\ Len(<<a, b, c>> \o <<d, e, f, g>>) = Len(<<a, b, c, d, e, f, g>>)
  BY <1>1
<1>3. \A i \in 1 .. Len(<<a, b, c>> \o <<d, e, f, g>>) :
       (<<a, b, c>> \o <<d, e, f, g>>)[i] = <<a, b, c, d, e, f, g>>[i]
  BY <1>1
<1> QED  BY <1>1, <1>2, <1>3, SeqEqual

-----------------------------------------------------------------------------
\* A step of the thread leads from one stage to the same or the next one.
LEMMA ThreadStages ==
  ASSUME TypeOK, Stages, EngineInv, Thread
  PROVE  Stages'
<1>0. os \in OsStates
  BY DEF TypeOK
<1>1. CASE Construct
  <2>1. CASE Starting
    <3>1. todo = <<"FlutterWindow", "Create", "IfCreated">>
      BY <1>1, <2>1 DEF Construct, Running, Starting, StartingStacks
    <3>2. todo' = <<"Create", "IfCreated">> /\ todo' \in StartingStacks
      BY <1>1, <2>1, <3>1 DEF Construct, Calls, StartingStacks
    <3> QED  BY <1>1, <2>1, <3>1, <3>2 DEF Construct, Starting, Stages, Running, Waiting,
          Alive, Hidden, object, globals, control, world
  <2> QED  BY <1>1, <2>1 DEF Stages, Construct, Running, Waiting, Opening,
        OpeningStacks, NoWindow, Open, OpenStacks, Closing, ClosingStacks, Closed,
        ClosedStacks, Failed, FailedStacks, Falling, FallingStacks
<1>2. CASE Create
  <2>1. CASE Starting
    <3>1. todo = <<"Create", "IfCreated">>
      BY <1>2, <2>1 DEF Create, Running, Starting, StartingStacks
    <3>2. todo' = <<"Destroy", "GetWindowClass", "CreateWindow", "IfCreated">> /\ todo' \in
          StartingStacks
      BY <1>2, <2>1, <3>1, Join31 DEF Create, Calls, StartingStacks
    <3> QED  BY <1>2, <2>1, <3>1, <3>2 DEF Create, Starting, Stages, Running, Waiting,
          Alive, Hidden, object, globals, control, world
  <2> QED  BY <1>2, <2>1 DEF Stages, Create, Running, Waiting, Opening, OpeningStacks,
        NoWindow, Open, OpenStacks, Closing, ClosingStacks, Closed, ClosedStacks, Failed,
        FailedStacks, Falling, FallingStacks
<1>3. CASE GetWindowClass
  <2>1. CASE Starting
    <3>1. todo = <<"GetWindowClass", "CreateWindow", "IfCreated">>
      BY <1>3, <2>1 DEF GetWindowClass, Running, Starting, StartingStacks
    <3>2. todo' = <<"CreateWindow", "IfCreated">> /\ todo' \in StartingStacks
      BY <1>3, <2>1, <3>1 DEF GetWindowClass, Calls, StartingStacks
    <3> QED  BY <1>3, <2>1, <3>1, <3>2 DEF GetWindowClass, Starting, Stages, Running,
          Waiting, Alive, Hidden, object, globals, control, world
  <2> QED  BY <1>3, <2>1 DEF Stages, GetWindowClass, Running, Waiting, Opening,
        OpeningStacks, NoWindow, Open, OpenStacks, Closing, ClosingStacks, Closed,
        ClosedStacks, Failed, FailedStacks, Falling, FallingStacks
<1>4. CASE CreateOsWindow
  <2>1. CASE Starting
    <3>1. todo = <<"CreateWindow", "IfCreated">>
      BY <1>4, <2>1 DEF CreateOsWindow, Running, Starting, StartingStacks
    <3>2. CASE /\ Calls(<<"UpdateTheme", "OnCreate">>)
               /\ os' = [os EXCEPT !.window = "live"]
               /\ window_handle_' = TRUE
               /\ UNCHANGED created
      <4>1. todo' = <<"UpdateTheme", "OnCreate", "IfCreated">> /\ todo' \in OpeningStacks
        BY <3>1, <3>2, Join21 DEF Calls, OpeningStacks
      <4>2. /\ os'.class /\ ~os'.shown /\ ~os'.active
            /\ os'.window = "live"
        BY <1>0, <2>1, <3>1, <3>2 DEF Starting, Hidden, Running, OsStates
      <4> QED  BY <1>4, <2>1, <3>1, <3>2, <4>1, <4>2 DEF CreateOsWindow, Starting, Opening,
            Stages, Running, Waiting, Alive, Hidden, object, globals, control, world
    <3>3. CASE created' = FALSE /\ Calls(<<>>) /\ UNCHANGED <<os, window_handle_>>
      <4>1. todo' = <<"IfCreated">>
        BY <3>1, <3>3 DEF Calls
      <4> QED  BY <1>4, <2>1, <3>1, <3>3, <4>1 DEF CreateOsWindow, Starting, NoWindow,
            Stages, Running, Waiting, Alive, Hidden, object, globals, control, world
    <3> QED  BY <1>4, <3>2, <3>3 DEF CreateOsWindow
  <2> QED  BY <1>4, <2>1 DEF Stages, CreateOsWindow, Running, Waiting, Opening,
        OpeningStacks, NoWindow, Open, OpenStacks, Closing, ClosingStacks, Closed,
        ClosedStacks, Failed, FailedStacks, Falling, FallingStacks
<1>5. CASE UpdateTheme
  <2>1. CASE Opening
    <3>1. todo = <<"UpdateTheme", "OnCreate", "IfCreated">>
      BY <1>5, <2>1 DEF UpdateTheme, Running, Opening, OpeningStacks
    <3>2. todo' = <<"OnCreate", "IfCreated">> /\ todo' \in OpeningStacks
      BY <1>5, <2>1, <3>1 DEF UpdateTheme, Calls, OpeningStacks
    <3> QED  BY <1>5, <2>1, <3>1, <3>2 DEF UpdateTheme, Opening, Stages, Running, Waiting,
          Alive, Hidden, object, globals, control, world
  <2>2. CASE Open
    <3>1. todo = <<"UpdateTheme", "GetMessage">>
      BY <1>5, <2>2 DEF UpdateTheme, Running, Open, OpenStacks
    <3>2. todo' = <<"GetMessage">> /\ todo' \in OpenStacks
      BY <1>5, <2>2, <3>1 DEF UpdateTheme, Calls, OpenStacks
    <3> QED  BY <1>5, <2>2, <3>1, <3>2 DEF UpdateTheme, Open, Stages, Running, Waiting,
          Alive, Hidden, object, globals, control, world
  <2> QED  BY <1>5, <2>1, <2>2 DEF Stages, UpdateTheme, Running, Waiting, Starting,
        StartingStacks, NoWindow, Closing, ClosingStacks, Closed, ClosedStacks, Failed,
        FailedStacks, Falling, FallingStacks
<1>6. CASE OnCreate
  <2>1. CASE Opening
    <3>1. todo = <<"OnCreate", "IfCreated">>
      BY <1>6, <2>1 DEF OnCreate, Running, Opening, OpeningStacks
    <3>2. CASE flutter_controller_' = "ready"
      <4>1. created' /\ todo' = <<"SetChildContent", "SetNextFrameCallback", "ForceRedraw">>
            \o Tail(todo)
        BY <1>6, <3>2 DEF OnCreate, Calls, When
      <4>2. todo' = <<"SetChildContent", "SetNextFrameCallback", "ForceRedraw", "IfCreated">>
        BY <3>1, <4>1, Join31
      <4>3. todo' \in OpeningStacks
        BY <4>2 DEF OpeningStacks
      <4> QED  BY <1>6, <2>1, <3>1, <3>2, <4>1, <4>2, <4>3 DEF OnCreate, Opening, Stages,
            Running, Waiting, Alive, Hidden, object, globals, control, world
    <3>3. CASE flutter_controller_' = "broken"
      <4>1. ~created' /\ todo' = <<>> \o Tail(todo)
        BY <1>6, <3>3 DEF OnCreate, Calls, When
      <4>2. todo' = <<"IfCreated">> /\ todo' \in OpeningStacks
        BY <3>1, <4>1 DEF OpeningStacks
      <4> QED  BY <1>6, <2>1, <3>1, <3>3, <4>1, <4>2 DEF OnCreate, Opening, Stages, Running,
            Waiting, Alive, Hidden, object, globals, control, world
    <3> QED  BY <1>6, <3>2, <3>3 DEF OnCreate
  <2> QED  BY <1>6, <2>1 DEF Stages, OnCreate, Running, Waiting, Starting,
        StartingStacks, NoWindow, Open, OpenStacks, Closing, ClosingStacks, Closed,
        ClosedStacks, Failed, FailedStacks, Falling, FallingStacks
<1>7. CASE SetChildContent
  <2>1. CASE Opening
    <3>1. todo = <<"SetChildContent", "SetNextFrameCallback", "ForceRedraw", "IfCreated">>
      BY <1>7, <2>1 DEF SetChildContent, Running, Opening, OpeningStacks
    <3>2. todo' = <<"SetNextFrameCallback", "ForceRedraw", "IfCreated">> /\ todo' \in
          OpeningStacks
      BY <1>7, <2>1, <3>1 DEF SetChildContent, Calls, OpeningStacks
    <3> QED  BY <1>7, <2>1, <3>1, <3>2 DEF SetChildContent, Opening, Stages, Running,
          Waiting, Alive, Hidden, object, globals, control, world
  <2> QED  BY <1>7, <2>1 DEF Stages, SetChildContent, Running, Waiting, Starting,
        StartingStacks, NoWindow, Open, OpenStacks, Closing, ClosingStacks, Closed,
        ClosedStacks, Failed, FailedStacks, Falling, FallingStacks
<1>8. CASE SetNextFrameCallback
  <2>1. CASE Opening
    <3>1. todo = <<"SetNextFrameCallback", "ForceRedraw", "IfCreated">>
      BY <1>8, <2>1 DEF SetNextFrameCallback, Running, Opening, OpeningStacks
    <3>2. todo' = <<"ForceRedraw", "IfCreated">> /\ todo' \in OpeningStacks
      BY <1>8, <2>1, <3>1 DEF SetNextFrameCallback, Calls, OpeningStacks
    <3> QED  BY <1>8, <2>1, <3>1, <3>2 DEF SetNextFrameCallback, Opening, Stages, Running,
          Waiting, Alive, Hidden, object, globals, control, world
  <2> QED  BY <1>8, <2>1 DEF Stages, SetNextFrameCallback, Running, Waiting, Starting,
        StartingStacks, NoWindow, Open, OpenStacks, Closing, ClosingStacks, Closed,
        ClosedStacks, Failed, FailedStacks, Falling, FallingStacks
<1>9. CASE ForceRedraw
  <2>1. CASE Opening
    <3>1. todo = <<"ForceRedraw", "IfCreated">>
      BY <1>9, <2>1 DEF ForceRedraw, Running, Opening, OpeningStacks
    <3>2. todo' = <<"IfCreated">> /\ todo' \in OpeningStacks
      BY <1>9, <2>1, <3>1 DEF ForceRedraw, Calls, OpeningStacks
    <3> QED  BY <1>9, <2>1, <3>1, <3>2 DEF ForceRedraw, Opening, Stages, Running, Waiting,
          Alive, Hidden, object, globals, control, world
  <2> QED  BY <1>9, <2>1 DEF Stages, ForceRedraw, Running, Waiting, Starting,
        StartingStacks, NoWindow, Open, OpenStacks, Closing, ClosingStacks, Closed,
        ClosedStacks, Failed, FailedStacks, Falling, FallingStacks
<1>10. CASE IfCreated
  <2>1. CASE Opening
    <3>1. todo = <<"IfCreated">>
      BY <1>10, <2>1 DEF IfCreated, Running, Opening, OpeningStacks
    <3>2. CASE created
      <4>1. todo' = <<"GetMessage">> /\ todo' \in OpenStacks
        BY <1>10, <2>1, <3>1, <3>2 DEF IfCreated, Calls, OpenStacks, Opening
      <4> QED  BY <1>10, <2>1, <3>1, <3>2, <4>1 DEF IfCreated, Opening, Open, Stages,
            Running, Waiting, Alive, Hidden, object, globals, control, world
    <3>3. CASE ~created
      <4>1. todo' = <<"~FlutterWindow", "~Win32Window">> /\ todo' \in FailedStacks
        BY <1>10, <2>1, <3>1, <3>3 DEF IfCreated, Calls, FailedStacks, Opening
      <4> QED  BY <1>10, <2>1, <3>1, <3>3, <4>1 DEF IfCreated, Opening, Failed, Stages,
            Running, Waiting, Alive, Hidden, object, globals, control, world
    <3> QED  BY <3>2, <3>3
  <2>2. CASE NoWindow
    <3>1. todo = <<"IfCreated">>
      BY <1>10, <2>2 DEF IfCreated, Running, NoWindow
    <3>2. todo' = <<"~FlutterWindow", "~Win32Window">> /\ todo' \in ClosedStacks
      BY <1>10, <2>2, <3>1 DEF IfCreated, Calls, ClosedStacks, NoWindow, Running
    <3> QED  BY <1>10, <2>2, <3>1, <3>2 DEF IfCreated, NoWindow, Closed, Stages, Running,
          Waiting, Alive, Hidden, object, globals, control, world
  <2> QED  BY <1>10, <2>1, <2>2 DEF Stages, IfCreated, Running, Waiting, Starting,
        StartingStacks, Open, OpenStacks, Closing, ClosingStacks, Closed, ClosedStacks,
        Failed, FailedStacks, Falling, FallingStacks
<1>11. CASE LeaveLoop
  <2>1. CASE Closed
    <3>1. todo = <<"GetMessage">>
      BY <1>11, <2>1 DEF LeaveLoop, Waiting, Running, Closed, ClosedStacks
    <3>2. todo' = <<"~FlutterWindow", "~Win32Window">>
      BY <1>11, <3>1 DEF LeaveLoop, Calls
    <3>3. todo' \in ClosedStacks
      BY <3>2 DEF ClosedStacks
    <3> QED  BY <1>11, <2>1, <3>1, <3>2, <3>3 DEF LeaveLoop, Closed, Stages, Running,
          Waiting, Alive, Hidden, object, globals, control, world
  <2> QED  BY <1>11, <2>1 DEF Stages, LeaveLoop, Running, Waiting, Starting,
        StartingStacks, Opening, OpeningStacks, NoWindow, Open, OpenStacks, Closing,
        ClosingStacks, Failed, FailedStacks, Falling, FallingStacks
<1>12. CASE DestroyFlutterWindow
  <2>1. CASE Closed
    <3>1. todo = <<"~FlutterWindow", "~Win32Window">>
      BY <1>12, <2>1 DEF DestroyFlutterWindow, Running, Closed, ClosedStacks
    <3>2. todo' = <<"~Win32Window">> /\ todo' \in ClosedStacks
      BY <1>12, <2>1, <3>1 DEF DestroyFlutterWindow, Calls, ClosedStacks
    <3> QED  BY <1>12, <2>1, <3>1, <3>2 DEF DestroyFlutterWindow, Closed, Stages, Running,
          Waiting, Alive, Hidden, object, globals, control, world
  <2>2. CASE Failed
    <3>1. todo = <<"~FlutterWindow", "~Win32Window">>
      BY <1>12, <2>2 DEF DestroyFlutterWindow, Running, Failed, FailedStacks
    <3>2. todo' = <<"~Win32Window">> /\ todo' \in FailedStacks
      BY <1>12, <2>2, <3>1 DEF DestroyFlutterWindow, Calls, FailedStacks
    <3> QED  BY <1>12, <2>2, <3>1, <3>2 DEF DestroyFlutterWindow, Failed, Stages, Running,
          Waiting, Alive, Hidden, object, globals, control, world
  <2> QED  BY <1>12, <2>1, <2>2 DEF Stages, DestroyFlutterWindow, Running, Waiting,
        Starting, StartingStacks, Opening, OpeningStacks, NoWindow, Open, OpenStacks,
        Closing, ClosingStacks, Falling, FallingStacks
<1>13. CASE DestroyWin32Window
  <2>1. CASE Closed
    <3>1. todo = <<"~Win32Window">>
      BY <1>13, <2>1 DEF DestroyWin32Window, Running, Closed, ClosedStacks
    <3>2. todo' = <<"Destroy">> /\ todo' \in ClosedStacks
      BY <1>13, <2>1, <3>1 DEF DestroyWin32Window, Calls, ClosedStacks
    <3> QED  BY <1>13, <2>1, <3>1, <3>2 DEF DestroyWin32Window, Closed, Stages, Running,
          Waiting, Alive, Hidden, object, globals, control, world
  <2>2. CASE Failed
    <3>1. todo = <<"~Win32Window">>
      BY <1>13, <2>2 DEF DestroyWin32Window, Running, Failed, FailedStacks
    <3>2. todo' = <<"Destroy">> /\ todo' \in FailedStacks
      BY <1>13, <2>2, <3>1 DEF DestroyWin32Window, Calls, FailedStacks
    <3> QED  BY <1>13, <2>2, <3>1, <3>2 DEF DestroyWin32Window, Failed, Stages, Running,
          Waiting, Alive, Hidden, object, globals, control, world
  <2> QED  BY <1>13, <2>1, <2>2 DEF Stages, DestroyWin32Window, Running, Waiting,
        Starting, StartingStacks, Opening, OpeningStacks, NoWindow, Open, OpenStacks,
        Closing, ClosingStacks, Falling, FallingStacks
<1>14. CASE Show
  <2>1. CASE Open
    <3>1. todo = <<"Show", "GetMessage">>
      BY <1>14, <2>1 DEF Show, Running, Open, OpenStacks
    <3>2. todo' = <<"WM_ACTIVATE", "WM_SIZE">> \o Tail(todo)
      BY <1>14, <2>1 DEF Show, Calls, Open
    <3>3. todo' = <<"WM_ACTIVATE", "WM_SIZE", "GetMessage">> /\ todo' \in OpenStacks
      BY <3>1, <3>2, Join21 DEF OpenStacks
    <3>4. os'.class /\ os'.window = "live" /\ os'.childSize = os'.size
      BY <1>0, <1>14, <2>1, <3>1 DEF Show, Open, OsStates
    <3> QED  BY <1>14, <2>1, <3>1, <3>3, <3>4 DEF Show, Open, Stages, Running, Waiting,
          Alive, Hidden, object, globals, control, world
  <2> QED  BY <1>14, <2>1 DEF Stages, Show, Running, Waiting, Starting,
        StartingStacks, Opening, OpeningStacks, NoWindow, Closing, ClosingStacks, Closed,
        ClosedStacks, Failed, FailedStacks, Falling, FallingStacks
<1>15. CASE Destroy
  <2>1. CASE Starting
    <3>1. todo = <<"Destroy", "GetWindowClass", "CreateWindow", "IfCreated">>
      BY <1>15, <2>1 DEF Destroy, Running, Starting, StartingStacks
    <3>2. todo' = <<"OnDestroy", "DestroyHandle", "UnregisterWindowClass", "GetWindowClass",
          "CreateWindow", "IfCreated">> /\ todo' \in StartingStacks
      BY <1>15, <2>1, <3>1, Join33 DEF Destroy, Calls, StartingStacks
    <3> QED  BY <1>15, <2>1, <3>1, <3>2 DEF Destroy, Starting, Stages, Running, Waiting,
          Alive, Hidden, object, globals, control, world
  <2>2. CASE Closing
    <3>1. todo = <<"Destroy", "PostQuit", "WM_NCDESTROY", "GetMessage">>
      BY <1>15, <2>2 DEF Destroy, Running, Closing, ClosingStacks
    <3>2. todo' = <<"OnDestroy", "DestroyHandle", "UnregisterWindowClass", "PostQuit",
          "WM_NCDESTROY", "GetMessage">> /\ todo' \in ClosingStacks
      BY <1>15, <2>2, <3>1, Join33 DEF Destroy, Calls, ClosingStacks
    <3> QED  BY <1>15, <2>2, <3>1, <3>2 DEF Destroy, Closing, Stages, Running, Waiting,
          Alive, Hidden, object, globals, control, world
  <2>3. CASE Closed
    <3>1. todo = <<"Destroy">>
      BY <1>15, <2>3 DEF Destroy, Running, Closed, ClosedStacks
    <3>2. todo' = <<"OnDestroy", "DestroyHandle", "UnregisterWindowClass">> /\ todo' \in
          ClosedStacks
      BY <1>15, <2>3, <3>1 DEF Destroy, Calls, ClosedStacks
    <3> QED  BY <1>15, <2>3, <3>1, <3>2 DEF Destroy, Closed, Stages, Running, Waiting,
          Alive, Hidden, object, globals, control, world
  <2>4. CASE Failed
    <3>1. todo = <<"Destroy">>
      BY <1>15, <2>4 DEF Destroy, Running, Failed, FailedStacks
    <3>2. todo' = <<"OnDestroy", "DestroyHandle", "UnregisterWindowClass">> /\ todo' \in
          FailedStacks
      BY <1>15, <2>4, <3>1 DEF Destroy, Calls, FailedStacks
    <3> QED  BY <1>15, <2>4, <3>1, <3>2 DEF Destroy, Failed, Stages, Running, Waiting,
          Alive, Hidden, object, globals, control, world
  <2>5. CASE Falling
    <3>1. todo = <<"Destroy", "PostQuit", "WM_NCDESTROY", "ClearHandle",
          "UnregisterWindowClass">>
      BY <1>15, <2>5 DEF Destroy, Running, Falling, FallingStacks
    <3>2. todo' = <<"OnDestroy", "DestroyHandle", "UnregisterWindowClass", "PostQuit",
          "WM_NCDESTROY", "ClearHandle", "UnregisterWindowClass">> /\ todo' \in
          FallingStacks
      BY <1>15, <2>5, <3>1, Join34 DEF Destroy, Calls, FallingStacks
    <3> QED  BY <1>15, <2>5, <3>1, <3>2 DEF Destroy, Falling, Stages, Running, Waiting,
          Alive, Hidden, object, globals, control, world
  <2> QED  BY <1>15, <2>1, <2>2, <2>3, <2>4, <2>5 DEF Stages, Destroy, Running,
        Waiting, Opening, OpeningStacks, NoWindow, Open, OpenStacks
<1>16. CASE OnDestroy
  <2>1. CASE Starting
    <3>1. todo = <<"OnDestroy", "DestroyHandle", "UnregisterWindowClass", "GetWindowClass",
          "CreateWindow", "IfCreated">>
      BY <1>16, <2>1 DEF OnDestroy, Running, Starting, StartingStacks
    <3>2. todo' = <<"DestroyHandle", "UnregisterWindowClass", "GetWindowClass",
          "CreateWindow", "IfCreated">> /\ todo' \in StartingStacks
      BY <1>16, <2>1, <3>1 DEF OnDestroy, Calls, StartingStacks
    <3> QED  BY <1>16, <2>1, <3>1, <3>2 DEF OnDestroy, Starting, Stages, Running, Waiting,
          Alive, Hidden, object, globals, control, world
  <2>2. CASE Closing
    <3>1. todo = <<"OnDestroy", "DestroyHandle", "UnregisterWindowClass", "PostQuit",
          "WM_NCDESTROY", "GetMessage">>
      BY <1>16, <2>2 DEF OnDestroy, Running, Closing, ClosingStacks
    <3>2. todo' = <<"DestroyHandle", "UnregisterWindowClass", "PostQuit", "WM_NCDESTROY",
          "GetMessage">> /\ todo' \in ClosingStacks
      BY <1>16, <2>2, <3>1 DEF OnDestroy, Calls, ClosingStacks
    <3> QED  BY <1>16, <2>2, <3>1, <3>2 DEF OnDestroy, Closing, Stages, Running, Waiting,
          Alive, Hidden, object, globals, control, world
  <2>3. CASE Closed
    <3>1. todo = <<"OnDestroy", "DestroyHandle", "UnregisterWindowClass">>
      BY <1>16, <2>3 DEF OnDestroy, Running, Closed, ClosedStacks
    <3>2. todo' = <<"DestroyHandle", "UnregisterWindowClass">> /\ todo' \in ClosedStacks
      BY <1>16, <2>3, <3>1 DEF OnDestroy, Calls, ClosedStacks
    <3> QED  BY <1>16, <2>3, <3>1, <3>2 DEF OnDestroy, Closed, Stages, Running, Waiting,
          Alive, Hidden, object, globals, control, world
  <2>4. CASE Failed
    <3>1. todo = <<"OnDestroy", "DestroyHandle", "UnregisterWindowClass">>
      BY <1>16, <2>4 DEF OnDestroy, Running, Failed, FailedStacks
    <3>2. todo' = <<"DestroyHandle", "UnregisterWindowClass">> /\ todo' \in FailedStacks
      BY <1>16, <2>4, <3>1 DEF OnDestroy, Calls, FailedStacks
    <3> QED  BY <1>16, <2>4, <3>1, <3>2 DEF OnDestroy, Failed, Stages, Running, Waiting,
          Alive, Hidden, object, globals, control, world
  <2>5. CASE Falling
    <3>1. todo = <<"OnDestroy", "DestroyHandle", "UnregisterWindowClass", "PostQuit",
          "WM_NCDESTROY", "ClearHandle", "UnregisterWindowClass">>
      BY <1>16, <2>5 DEF OnDestroy, Running, Falling, FallingStacks
    <3>2. todo' = <<"DestroyHandle", "UnregisterWindowClass", "PostQuit", "WM_NCDESTROY",
          "ClearHandle", "UnregisterWindowClass">> /\ todo' \in FallingStacks
      BY <1>16, <2>5, <3>1 DEF OnDestroy, Calls, FallingStacks
    <3> QED  BY <1>16, <2>5, <3>1, <3>2 DEF OnDestroy, Falling, Stages, Running, Waiting,
          Alive, Hidden, object, globals, control, world
  <2> QED  BY <1>16, <2>1, <2>2, <2>3, <2>4, <2>5 DEF Stages, OnDestroy, Running,
        Waiting, Opening, OpeningStacks, NoWindow, Open, OpenStacks
<1>17. CASE DestroyHandle
  <2>1. CASE Starting
    <3>1. todo = <<"DestroyHandle", "UnregisterWindowClass", "GetWindowClass",
          "CreateWindow", "IfCreated">>
      BY <1>17, <2>1 DEF DestroyHandle, Running, Starting, StartingStacks
    <3>2. todo' = <<"UnregisterWindowClass", "GetWindowClass", "CreateWindow", "IfCreated">>
          /\ todo' \in StartingStacks
      BY <1>17, <2>1, <3>1 DEF DestroyHandle, Calls, When, StartingStacks, Starting, Running
    <3> QED  BY <1>17, <2>1, <3>1, <3>2 DEF DestroyHandle, Starting, Stages, Running,
          Waiting, Alive, Hidden, object, globals, control, world
  <2>2. CASE Closing
    <3>1. todo = <<"DestroyHandle", "UnregisterWindowClass", "PostQuit", "WM_NCDESTROY",
          "GetMessage">>
      BY <1>17, <2>2 DEF DestroyHandle, Running, Closing, ClosingStacks
    <3>2. todo' = <<"UnregisterWindowClass", "PostQuit", "WM_NCDESTROY", "GetMessage">> /\
          todo' \in ClosingStacks
      BY <1>17, <2>2, <3>1 DEF DestroyHandle, Calls, When, ClosingStacks, Closing, Running
    <3> QED  BY <1>17, <2>2, <3>1, <3>2 DEF DestroyHandle, Closing, Stages, Running,
          Waiting, Alive, Hidden, object, globals, control, world
  <2>3. CASE Closed
    <3>1. todo = <<"DestroyHandle", "UnregisterWindowClass">>
      BY <1>17, <2>3 DEF DestroyHandle, Running, Closed, ClosedStacks
    <3>2. todo' = <<"UnregisterWindowClass">> /\ todo' \in ClosedStacks
      BY <1>17, <2>3, <3>1 DEF DestroyHandle, Calls, When, ClosedStacks, Closed, Running
    <3> QED  BY <1>17, <2>3, <3>1, <3>2 DEF DestroyHandle, Closed, Stages, Running, Waiting,
          Alive, Hidden, object, globals, control, world
  <2>4. CASE Failed
    <3>1. todo = <<"DestroyHandle", "UnregisterWindowClass">>
      BY <1>17, <2>4 DEF DestroyHandle, Running, Failed, FailedStacks
    <3>2. todo' = <<"DestroyWindow", "ClearHandle", "UnregisterWindowClass">> /\ todo' \in
          FailedStacks
      BY <1>17, <2>4, <3>1, Join21 DEF DestroyHandle, Calls, When, FailedStacks, Failed,
         Running
    <3> QED  BY <1>17, <2>4, <3>1, <3>2 DEF DestroyHandle, Failed, Stages, Running, Waiting,
          Alive, Hidden, object, globals, control, world
  <2>5. CASE Falling
    <3>1. todo = <<"DestroyHandle", "UnregisterWindowClass", "PostQuit", "WM_NCDESTROY",
          "ClearHandle", "UnregisterWindowClass">>
      BY <1>17, <2>5 DEF DestroyHandle, Running, Falling, FallingStacks
    <3>2. todo' = <<"UnregisterWindowClass", "PostQuit", "WM_NCDESTROY", "ClearHandle",
          "UnregisterWindowClass">> /\ todo' \in FallingStacks
      BY <1>17, <2>5, <3>1 DEF DestroyHandle, Calls, When, FallingStacks, Falling, Running
    <3> QED  BY <1>17, <2>5, <3>1, <3>2 DEF DestroyHandle, Falling, Stages, Running,
          Waiting, Alive, Hidden, object, globals, control, world
  <2> QED  BY <1>17, <2>1, <2>2, <2>3, <2>4, <2>5 DEF Stages, DestroyHandle, Running,
        Waiting, Opening, OpeningStacks, NoWindow, Open, OpenStacks
<1>18. CASE ClearHandle
  <2>1. CASE Closed
    <3>1. todo = <<"ClearHandle", "UnregisterWindowClass">>
      BY <1>18, <2>1 DEF ClearHandle, Running, Closed, ClosedStacks
    <3>2. todo' = <<"UnregisterWindowClass">> /\ todo' \in ClosedStacks
      BY <1>18, <2>1, <3>1 DEF ClearHandle, Calls, ClosedStacks
    <3> QED  BY <1>18, <2>1, <3>1, <3>2 DEF ClearHandle, Closed, Stages, Running, Waiting,
          Alive, Hidden, object, globals, control, world
  <2> QED  BY <1>18, <2>1 DEF Stages, ClearHandle, Running, Waiting, Starting,
        StartingStacks, Opening, OpeningStacks, NoWindow, Open, OpenStacks, Closing,
        ClosingStacks, Failed, FailedStacks, Falling, FallingStacks
<1>19. CASE UnregisterWindowClass
  <2>1. CASE Starting
    <3>1. todo = <<"UnregisterWindowClass", "GetWindowClass", "CreateWindow", "IfCreated">>
      BY <1>19, <2>1 DEF UnregisterWindowClass, Running, Starting, StartingStacks
    <3>2. todo' = <<"GetWindowClass", "CreateWindow", "IfCreated">> /\ todo' \in StartingStacks
      BY <1>19, <3>1 DEF UnregisterWindowClass, Calls, StartingStacks
    <3> QED  BY <1>19, <2>1, <3>1, <3>2 DEF UnregisterWindowClass, Starting, Stages,
          Running, Waiting, Alive, Hidden, object, globals, control, world
  <2>2. CASE Closing
    <3>1. todo = <<"UnregisterWindowClass", "PostQuit", "WM_NCDESTROY", "GetMessage">>
      BY <1>19, <2>2 DEF UnregisterWindowClass, Running, Closing, ClosingStacks
    <3>2. todo' = <<"PostQuit", "WM_NCDESTROY", "GetMessage">> /\ todo' \in ClosingStacks
      BY <1>19, <3>1 DEF UnregisterWindowClass, Calls, ClosingStacks
    <3> QED  BY <1>19, <2>2, <3>1, <3>2 DEF UnregisterWindowClass, Closing, Stages, Running,
          Waiting, Alive, Hidden, object, globals, control, world
  <2>3. CASE Closed
    <3>1. todo = <<"UnregisterWindowClass">>
      BY <1>19, <2>3 DEF UnregisterWindowClass, Running, Closed, ClosedStacks
    <3>2. todo' = <<>> /\ todo' \in ClosedStacks
      BY <1>19, <3>1 DEF UnregisterWindowClass, Calls, ClosedStacks
    <3>3. ~class_registered_' /\ ~os'.class /\ os'.window = os.window /\ os'.shown = os.shown
      BY <1>0, <1>19, <2>3, <3>1 DEF UnregisterWindowClass, Closed, Running, Waiting, OsStates
    <3> QED  BY <1>19, <2>3, <3>1, <3>2, <3>3 DEF UnregisterWindowClass, Closed, Stages,
          Running, Waiting, Alive, Hidden, object, globals, control, world
  <2>4. CASE Falling
    <3>1. todo = <<"UnregisterWindowClass", "PostQuit", "WM_NCDESTROY", "ClearHandle",
          "UnregisterWindowClass">>
      BY <1>19, <2>4 DEF UnregisterWindowClass, Running, Falling, FallingStacks
    <3>2. todo' = <<"PostQuit", "WM_NCDESTROY", "ClearHandle", "UnregisterWindowClass">>
      BY <1>19, <3>1 DEF UnregisterWindowClass, Calls
    <3>3. todo' \in FallingStacks
      BY <3>2 DEF FallingStacks
    <3>4. os'.class /\ os'.window = "dying" /\ Hidden'
      BY <1>0, <1>19, <2>4 DEF UnregisterWindowClass, Falling, Hidden, OsStates
    <3> QED  BY <1>19, <2>4, <3>1, <3>2, <3>3, <3>4 DEF UnregisterWindowClass, Falling,
          Stages, Running, Waiting, Alive, Hidden, object, globals, control, world
  <2> QED  BY <1>19, <2>1, <2>2, <2>3, <2>4 DEF Stages, UnregisterWindowClass,
        Running, Waiting, Opening, OpeningStacks, NoWindow, Open, OpenStacks, Failed,
        FailedStacks
<1>20. CASE DestroyWindow
  <2>1. CASE Open
    <3>1. todo = <<"DestroyWindow", "GetMessage">>
      BY <1>20, <2>1 DEF DestroyWindow, Running, Open, OpenStacks
    <3>2. CASE os.active
      <4>0. <<"WM_ACTIVATE">> \o <<"WM_DESTROY", "WM_NCDESTROY">> = <<"WM_ACTIVATE",
            "WM_DESTROY", "WM_NCDESTROY">>
        BY Join12
      <4>1. todo' = <<"WM_ACTIVATE", "WM_DESTROY", "WM_NCDESTROY">> \o Tail(todo)
        BY <1>20, <3>2, <4>0 DEF DestroyWindow, Calls, When
      <4>2. todo' = <<"WM_ACTIVATE", "WM_DESTROY", "WM_NCDESTROY", "GetMessage">>
        BY <3>1, <4>1, Join31
      <4>3. todo' \in ClosingStacks
        BY <4>2 DEF ClosingStacks
      <4> QED  BY <1>0, <1>20, <2>1, <3>1, <4>2, <4>3 DEF DestroyWindow, OsStates, Open,
            Closing, Stages, Running, Waiting, Alive, Hidden, object, globals, control,
            world
    <3>3. CASE ~os.active
      <4>1. todo' = <<"WM_DESTROY", "WM_NCDESTROY", "GetMessage">> /\ todo' \in ClosingStacks
        BY <1>20, <3>1, <3>3, Join21 DEF DestroyWindow, Calls, When, ClosingStacks
      <4> QED  BY <1>0, <1>20, <2>1, <3>1, <4>1 DEF DestroyWindow, OsStates, Open, Closing,
            Stages, Running, Waiting, Alive, Hidden, object, globals, control, world
    <3> QED  BY <3>2, <3>3
  <2>2. CASE Failed
    <3>1. todo = <<"DestroyWindow", "ClearHandle", "UnregisterWindowClass">>
      BY <1>20, <2>2 DEF DestroyWindow, Running, Failed, FailedStacks
    <3>2. todo' = (<<>> \o <<"WM_DESTROY", "WM_NCDESTROY">>) \o Tail(todo)
      BY <1>20, <2>2 DEF DestroyWindow, Calls, When, Failed, Hidden
    <3>3. todo' = <<"WM_DESTROY", "WM_NCDESTROY", "ClearHandle", "UnregisterWindowClass">>
      BY <3>1, <3>2, Join22
    <3>4. todo' \in FallingStacks
      BY <3>3 DEF FallingStacks
    <3> QED  BY <1>0, <1>20, <2>2, <3>1, <3>3, <3>4 DEF DestroyWindow, OsStates, Failed,
          Falling, Stages, Running, Waiting, Alive, Hidden, object, globals, control, world
  <2> QED  BY <1>20, <2>1, <2>2 DEF Stages, DestroyWindow, Running, Waiting, Starting,
        StartingStacks, Opening, OpeningStacks, NoWindow, Closing, ClosingStacks, Closed,
        ClosedStacks, Falling, FallingStacks
<1>21. CASE OnWmDestroy
  <2>1. CASE Closing
    <3>1. todo = <<"WM_DESTROY", "WM_NCDESTROY", "GetMessage">>
      BY <1>21, <2>1 DEF OnWmDestroy, Running, Closing, ClosingStacks
    <3>2. todo' = <<"Destroy", "PostQuit", "WM_NCDESTROY", "GetMessage">> /\ todo' \in
          ClosingStacks
      BY <1>21, <2>1, <3>1, Join22 DEF OnWmDestroy, Calls, ClosingStacks
    <3> QED  BY <1>21, <2>1, <3>1, <3>2 DEF OnWmDestroy, Closing, Stages, Running, Waiting,
          Alive, Hidden, object, globals, control, world
  <2>2. CASE Falling
    <3>1. todo = <<"WM_DESTROY", "WM_NCDESTROY", "ClearHandle", "UnregisterWindowClass">>
      BY <1>21, <2>2 DEF OnWmDestroy, Running, Falling, FallingStacks
    <3>2. todo' = <<"Destroy", "PostQuit", "WM_NCDESTROY", "ClearHandle",
          "UnregisterWindowClass">> /\ todo' \in FallingStacks
      BY <1>21, <2>2, <3>1, Join23 DEF OnWmDestroy, Calls, FallingStacks
    <3> QED  BY <1>21, <2>2, <3>1, <3>2 DEF OnWmDestroy, Falling, Stages, Running, Waiting,
          Alive, Hidden, object, globals, control, world
  <2> QED  BY <1>21, <2>1, <2>2 DEF Stages, OnWmDestroy, Running, Waiting, Starting,
        StartingStacks, Opening, OpeningStacks, NoWindow, Open, OpenStacks, Closed,
        ClosedStacks, Failed, FailedStacks
<1>22. CASE PostQuit
  <2>1. CASE Closing
    <3>1. todo = <<"PostQuit", "WM_NCDESTROY", "GetMessage">>
      BY <1>22, <2>1 DEF PostQuit, Running, Closing, ClosingStacks
    <3>2. todo' = <<"WM_NCDESTROY", "GetMessage">> /\ todo' \in ClosingStacks
      BY <1>22, <2>1, <3>1 DEF PostQuit, Calls, ClosingStacks
    <3> QED  BY <1>22, <2>1, <3>1, <3>2 DEF PostQuit, Closing, Stages, Running, Waiting,
          Alive, Hidden, object, globals, control, world
  <2>2. CASE Falling
    <3>1. todo = <<"PostQuit", "WM_NCDESTROY", "ClearHandle", "UnregisterWindowClass">>
      BY <1>22, <2>2 DEF PostQuit, Running, Falling, FallingStacks
    <3>2. todo' = <<"WM_NCDESTROY", "ClearHandle", "UnregisterWindowClass">> /\ todo' \in
          FallingStacks
      BY <1>22, <2>2, <3>1 DEF PostQuit, Calls, FallingStacks
    <3> QED  BY <1>22, <2>2, <3>1, <3>2 DEF PostQuit, Falling, Stages, Running, Waiting,
          Alive, Hidden, object, globals, control, world
  <2> QED  BY <1>22, <2>1, <2>2 DEF Stages, PostQuit, Running, Waiting, Starting,
        StartingStacks, Opening, OpeningStacks, NoWindow, Open, OpenStacks, Closed,
        ClosedStacks, Failed, FailedStacks
<1>23. CASE OnWmNcDestroy
  <2>1. CASE Closing
    <3>1. todo = <<"WM_NCDESTROY", "GetMessage">>
      BY <1>23, <2>1 DEF OnWmNcDestroy, Running, Closing, ClosingStacks
    <3>2. todo' = <<"GetMessage">> /\ todo' \in ClosedStacks
      BY <1>23, <2>1, <3>1 DEF OnWmNcDestroy, Calls, ClosedStacks
    <3> QED  BY <1>23, <2>1, <3>1, <3>2 DEF OnWmNcDestroy, Closing, Closed, Stages, Running,
          Waiting, Alive, Hidden, object, globals, control, world
  <2>2. CASE Falling
    <3>1. todo = <<"WM_NCDESTROY", "ClearHandle", "UnregisterWindowClass">>
      BY <1>23, <2>2 DEF OnWmNcDestroy, Running, Falling, FallingStacks
    <3>2. todo' = <<"ClearHandle", "UnregisterWindowClass">> /\ todo' \in ClosedStacks
      BY <1>23, <2>2, <3>1 DEF OnWmNcDestroy, Calls, ClosedStacks
    <3> QED  BY <1>23, <2>2, <3>1, <3>2 DEF OnWmNcDestroy, Falling, Closed, Stages, Running,
          Waiting, Alive, Hidden, object, globals, control, world
  <2> QED  BY <1>23, <2>1, <2>2 DEF Stages, OnWmNcDestroy, Running, Waiting, Starting,
        StartingStacks, Opening, OpeningStacks, NoWindow, Open, OpenStacks, Closed,
        ClosedStacks, Failed, FailedStacks
<1>24. CASE OnWmSize
  <2>1. CASE Open
    <3>1. todo = <<"WM_SIZE", "GetMessage">>
      BY <1>24, <2>1 DEF OnWmSize, Running, Open, OpenStacks
    <3>2. todo' = <<"GetMessage">> /\ todo' \in OpenStacks
      BY <1>24, <2>1, <3>1 DEF OnWmSize, Calls, OpenStacks
    <3> QED  BY <1>24, <2>1, <3>1, <3>2 DEF OnWmSize, Open, Stages, Running, Waiting, Alive,
          Hidden, object, globals, control, world
  <2> QED  BY <1>24, <2>1 DEF Stages, OnWmSize, Running, Waiting, Starting,
        StartingStacks, Opening, OpeningStacks, NoWindow, Closing, ClosingStacks, Closed,
        ClosedStacks, Failed, FailedStacks, Falling, FallingStacks
<1>25. CASE OnWmActivate
  <2>1. CASE Open
    <3>1. CASE todo = <<"WM_ACTIVATE", "GetMessage">>
      <4>1. todo' = <<"GetMessage">> /\ todo' \in OpenStacks
        BY <1>25, <3>1 DEF OnWmActivate, Calls, OpenStacks
      <4> QED  BY <1>25, <2>1, <3>1, <4>1 DEF OnWmActivate, Open, Stages, Running, Waiting,
            Alive, Hidden, object, globals, control, world
    <3>2. CASE todo = <<"WM_ACTIVATE", "WM_SIZE", "GetMessage">>
      <4>1. todo' = <<"WM_SIZE", "GetMessage">> /\ todo' \in OpenStacks
        BY <1>25, <3>2 DEF OnWmActivate, Calls, OpenStacks
      <4> QED  BY <1>25, <2>1, <3>2, <4>1 DEF OnWmActivate, Open, Stages, Running, Waiting,
            Alive, Hidden, object, globals, control, world
    <3> QED  BY <1>25, <2>1, <3>1, <3>2 DEF OnWmActivate, Running, Open, OpenStacks
  <2>2. CASE Closing
    <3>1. todo = <<"WM_ACTIVATE", "WM_DESTROY", "WM_NCDESTROY", "GetMessage">>
      BY <1>25, <2>2 DEF OnWmActivate, Running, Closing, ClosingStacks
    <3>2. todo' = <<"WM_DESTROY", "WM_NCDESTROY", "GetMessage">> /\ todo' \in ClosingStacks
      BY <1>25, <3>1 DEF OnWmActivate, Calls, ClosingStacks
    <3> QED  BY <1>25, <2>2, <3>1, <3>2 DEF OnWmActivate, Closing, Stages, Running, Waiting,
          Alive, Hidden, object, globals, control, world
  <2> QED  BY <1>25, <2>1, <2>2 DEF Stages, OnWmActivate, Running, Waiting, Starting,
        StartingStacks, Opening, OpeningStacks, NoWindow, Closed, ClosedStacks, Failed,
        FailedStacks, Falling, FallingStacks
<1>26. CASE Dispatch
  <2>1. CASE Open
    <3>1. todo = <<"GetMessage">>
      BY <1>26, <2>1 DEF Dispatch, CalledBack, Waiting, Running, Open, OpenStacks
    <3>2. /\ \/ todo' = <<"DestroyWindow", "GetMessage">>
             \/ todo' = <<"UpdateTheme", "GetMessage">>
          /\ todo' \in OpenStacks
      BY <1>26, <3>1, Join11 DEF Dispatch, CalledBack, OpenStacks
    <3> QED  BY <1>26, <2>1, <3>1, <3>2 DEF Dispatch, Open, Stages, Running, Waiting, Alive,
          Hidden, object, globals, control, world
  <2> QED  BY <1>26, <2>1 DEF Stages, Dispatch, Running, Waiting, CalledBack,
        Starting, StartingStacks, Opening, OpeningStacks, NoWindow, Closing, ClosingStacks,
        Closed, ClosedStacks, Failed, FailedStacks, Falling, FallingStacks
<1>27. CASE FrameCallback
  <2>1. CASE Open
    <3>1. todo = <<"GetMessage">>
      BY <1>27, <2>1 DEF FrameCallback, CalledBack, Waiting, Running, Open, OpenStacks
    <3>2. todo' = <<"Show", "GetMessage">> /\ todo' \in OpenStacks
      BY <1>27, <3>1, Join11 DEF FrameCallback, CalledBack, OpenStacks
    <3> QED  BY <1>27, <2>1, <3>1, <3>2 DEF FrameCallback, Open, Stages, Running, Waiting,
          Alive, Hidden, object, globals, control, world
  <2>2. CASE Closed
    BY <1>27, <2>2 DEF EngineInv, Idle, Closed, FrameCallback
  <2> QED  BY <1>27, <2>1, <2>2 DEF Stages, FrameCallback, Running, Waiting,
        CalledBack, Starting, StartingStacks, Opening, OpeningStacks, NoWindow, Closing,
        ClosingStacks, Failed, FailedStacks, Falling, FallingStacks
<1> QED  BY <1>1, <1>2, <1>3, <1>4, <1>5, <1>6, <1>7, <1>8, <1>9, <1>10, <1>11, <1>12,
      <1>13, <1>14, <1>15, <1>16, <1>17, <1>18, <1>19, <1>20, <1>21, <1>22, <1>23, <1>24,
      <1>25, <1>26, <1>27 DEF Thread

\* The user and the system act on an open window, or leave its stage alone.
LEMMA OtherStages ==
  ASSUME TypeOK, Stages, ~crashed',
         Environment \/ EngineFrame \/ AppRedraws \/ UNCHANGED vars
  PROVE  Stages'
<1>0. os \in OsStates
  BY DEF TypeOK
<1>1. ASSUME os.shown, Waiting PROVE Open /\ todo = <<"GetMessage">>
  BY <1>1 DEF Stages, Hidden, Waiting, Running, Starting, StartingStacks, Opening,
     NoWindow,
     Open, OpenStacks, Closing, ClosingStacks, Closed, Failed, Falling
<1>2. CASE UserResizes
  <2>1. /\ Open /\ todo = <<"GetMessage">>
        /\ todo' = <<"WM_SIZE", "GetMessage">> /\ todo' \in OpenStacks
    BY <1>1, <1>2, Join11 DEF UserResizes, CalledBack, OpenStacks
  <2> QED  BY <1>0, <1>2, <2>1 DEF UserResizes, Event, OsStates, Open, Stages, Running,
            Waiting, Alive, Hidden, object, globals, control, world
<1>3. CASE UserSwitches
  <2>1. /\ Open /\ todo = <<"GetMessage">>
        /\ todo' = <<"WM_ACTIVATE", "GetMessage">> /\ todo' \in OpenStacks
    BY <1>1, <1>3, Join11 DEF UserSwitches, CalledBack, OpenStacks
  <2> QED  BY <1>0, <1>3, <2>1 DEF UserSwitches, Event, OsStates, Open, Stages, Running,
            Waiting, Alive, Hidden, object, globals, control, world
<1>4. CASE FontChanges
  <2>1. UNCHANGED <<todo, control, object, globals, os, engine, posted, destroys>>
    BY <1>4 DEF FontChanges
  <2> QED  BY <2>1 DEF Stages, Starting, Opening, NoWindow, Open, Closing, Closed, Failed,
        Falling, Running, Waiting, Alive, Hidden, object, globals, control
<1>5. CASE ThemeChanges
  <2>1. UNCHANGED <<todo, control, object, globals, os, destroys>>
    BY <1>5 DEF ThemeChanges
  <2>2. CASE posted' = posted
    BY <2>1, <2>2 DEF Stages, Starting, Opening, NoWindow, Open, Closing, Closed, Failed,
       Falling,
       Running, Waiting, Alive, Hidden, object, globals, control
  <2>3. CASE os.window = "live" /\ posted' = posted \cup {"theme"}
    BY <2>1, <2>3 DEF Stages, Starting, Opening, NoWindow, Open, Closing, Closed, Failed,
       Falling,
       Running, Waiting, Alive, Hidden, object, globals, control
  <2>4. posted' = posted \/ (os.window = "live" /\ posted' = posted \cup {"theme"})
    BY <1>5 DEF ThemeChanges
  <2> QED  BY <2>2, <2>3, <2>4
<1>6. CASE UserCloses
  <2>1. Open
    BY <1>6 DEF UserCloses, Stages, Starting, Opening, NoWindow, Closing, Closed, Failed,
       Falling, Hidden
  <2> QED  BY <1>6, <2>1 DEF UserCloses, Event, Open, Stages, Running, Waiting, Alive, Hidden,
            object, globals, control, world
<1>7. CASE EngineFrame \/ AppRedraws \/ UNCHANGED vars
  BY <1>7 DEF EngineFrame, AppRedraws, vars, Stages, Starting, Opening, NoWindow, Open,
     Closing,
     Closed, Failed, Falling, Running, Waiting, Alive, Hidden, object, globals, control, world
<1>8. CASE DpiChanges
  <2>1. UNCHANGED <<todo, control, object, globals, posted, destroys>>
    BY <1>8 DEF DpiChanges
  <2>2. /\ os.window = "live"
        /\ os'.class = os.class /\ os'.window = os.window /\ os'.shown = os.shown
        /\ os'.active = os.active /\ os'.focus = os.focus
        /\ child_content_ => os'.childSize = os'.size
    BY <1>0, <1>8 DEF DpiChanges, OsStates
  <2>3. CASE Opening
    BY <2>1, <2>2, <2>3 DEF Stages, Opening, Running, Alive, Hidden, object, globals, control
  <2>4. CASE Open
    BY <2>1, <2>2, <2>4 DEF Stages, Open, Running, Alive, object, globals, control
  <2>5. CASE Failed
    BY <2>1, <2>2, <2>5 DEF Stages, Failed, Running, Hidden, object, globals, control
  <2> QED  BY <2>2, <2>3, <2>4, <2>5 DEF Stages, Starting, NoWindow, Closing, Closed, Falling
<1> QED  BY <1>2, <1>3, <1>4, <1>5, <1>6, <1>7, <1>8 DEF Environment

\* A font change that ends the program finds the start unfinished or the window
\* on its way out.
LEMMA FontEnds ==
  ASSUME TypeOK, Stages, ~crashed, crashed', FontChanges
  PROVE  Ended'
<1>1. /\ todo' = <<>> /\ engine' = Idle
      /\ UNCHANGED <<created, window_handle_, os, destroys>>
      /\ isFlutterWindow
      /\ flutter_controller_ # "ready" \/ Running("OnDestroy")
  BY DEF FontChanges, HasController, object, control, TypeOK
<1>2. todo # <<>> /\ os.window \in {"live", "dying"}
  BY DEF FontChanges, Interruptible
<1>3. ~created \/ os.window = "dying"
  BY <1>1, <1>2 DEF Stages, Starting, Opening, OpeningStacks, NoWindow, Open, OpenStacks,
     Closing, Closed, Failed, Falling, Running
<1>4. destroys <= 1
  BY <1>2 DEF Stages, Starting, Opening, NoWindow, Open, Closing, Closed, Failed, Falling, Alive
<1> QED  BY <1>1, <1>2, <1>3, <1>4 DEF Ended

\* Nothing happens to a program that has crashed.
LEMMA EndedStays ==
  ASSUME Ended, [Next]_vars
  PROVE  UNCHANGED vars
<1>1. todo = <<>> /\ ~engine.frame /\ ~engine.rendered
  BY DEF Ended, Idle
<1>2. ~Thread
  BY <1>1 DEF Thread, Running, Waiting, CalledBack, Construct, IfCreated, LeaveLoop,
     DestroyFlutterWindow, DestroyWin32Window, Create, GetWindowClass, CreateOsWindow,
     UpdateTheme, OnCreate, SetChildContent, SetNextFrameCallback, ForceRedraw, Show, Destroy,
     OnDestroy, DestroyHandle, ClearHandle, UnregisterWindowClass, DestroyWindow, OnWmDestroy,
     PostQuit, OnWmNcDestroy, OnWmSize, OnWmActivate, Dispatch, FrameCallback
<1>3. ~EngineFrame /\ ~AppRedraws
  BY <1>1 DEF EngineFrame, AppRedraws
<1>4. ~Environment
  BY <1>1 DEF Environment, UserResizes, UserSwitches, FontChanges, DpiChanges, ThemeChanges,
     UserCloses, Interruptible, CalledBack, Waiting, Running
<1> QED  BY <1>2, <1>3, <1>4 DEF Next

\* Only a font change ends the program out of turn.
LEMMA OthersEndNothing ==
  ASSUME [Next]_vars, ~FontChanges
  PROVE  crashed' = crashed
<1> USE DEF control
<1>1. CASE Thread
  BY <1>1 DEF Thread, Construct, IfCreated, LeaveLoop, DestroyFlutterWindow,
     DestroyWin32Window, Create, GetWindowClass, CreateOsWindow, UpdateTheme, OnCreate,
     SetChildContent, SetNextFrameCallback, ForceRedraw, Show, Destroy, OnDestroy,
     DestroyHandle, ClearHandle, UnregisterWindowClass, DestroyWindow, OnWmDestroy, PostQuit,
     OnWmNcDestroy, OnWmSize, OnWmActivate, Dispatch, FrameCallback
<1>2. CASE EngineFrame \/ AppRedraws \/ UNCHANGED vars
  BY <1>2 DEF EngineFrame, AppRedraws, vars
<1>3. CASE Environment
  BY <1>3 DEF Environment, UserResizes, UserSwitches, DpiChanges, ThemeChanges, UserCloses
<1> QED  BY <1>1, <1>2, <1>3 DEF Next

-----------------------------------------------------------------------------
\* The stage determines the types of the stack and the count of windows.
LEMMA StageStacks == Stages => todo \in Seq(Steps)
<1>1. /\ "FlutterWindow" \in Steps
      /\ "Create" \in Steps
      /\ "IfCreated" \in Steps
      /\ "GetWindowClass" \in Steps
      /\ "CreateWindow" \in Steps
      /\ "UpdateTheme" \in Steps
      /\ "OnCreate" \in Steps
      /\ "SetChildContent" \in Steps
      /\ "SetNextFrameCallback" \in Steps
      /\ "ForceRedraw" \in Steps
      /\ "GetMessage" \in Steps
      /\ "~FlutterWindow" \in Steps
      /\ "~Win32Window" \in Steps
      /\ "Show" \in Steps
      /\ "Destroy" \in Steps
      /\ "OnDestroy" \in Steps
      /\ "DestroyHandle" \in Steps
      /\ "UnregisterWindowClass" \in Steps
      /\ "DestroyWindow" \in Steps
      /\ "ClearHandle" \in Steps
      /\ "PostQuit" \in Steps
      /\ "WM_DESTROY" \in Steps
      /\ "WM_NCDESTROY" \in Steps
      /\ "WM_SIZE" \in Steps
      /\ "WM_ACTIVATE" \in Steps
  BY DEF Steps
<1>2. Starting => todo \in Seq(Steps)
  <2>1. /\ <<"FlutterWindow", "Create", "IfCreated">> \in Seq(Steps)
        /\ <<"Create", "IfCreated">> \in Seq(Steps)
        /\ <<"Destroy", "GetWindowClass", "CreateWindow", "IfCreated">> \in Seq(Steps)
        /\ <<"OnDestroy", "DestroyHandle", "UnregisterWindowClass", "GetWindowClass",
             "CreateWindow", "IfCreated">> \in Seq(Steps)
        /\ <<"DestroyHandle", "UnregisterWindowClass", "GetWindowClass", "CreateWindow",
             "IfCreated">> \in Seq(Steps)
        /\ <<"UnregisterWindowClass", "GetWindowClass", "CreateWindow",
             "IfCreated">> \in Seq(Steps)
        /\ <<"GetWindowClass", "CreateWindow", "IfCreated">> \in Seq(Steps)
        /\ <<"CreateWindow", "IfCreated">> \in Seq(Steps)
    BY <1>1
  <2> QED  BY <2>1, Zenon DEF Starting, StartingStacks
<1>3. Opening => todo \in Seq(Steps)
  <2>1. /\ <<"UpdateTheme", "OnCreate", "IfCreated">> \in Seq(Steps)
        /\ <<"OnCreate", "IfCreated">> \in Seq(Steps)
        /\ <<"SetChildContent", "SetNextFrameCallback", "ForceRedraw",
             "IfCreated">> \in Seq(Steps)
        /\ <<"SetNextFrameCallback", "ForceRedraw", "IfCreated">> \in Seq(Steps)
        /\ <<"ForceRedraw", "IfCreated">> \in Seq(Steps)
        /\ <<"IfCreated">> \in Seq(Steps)
    BY <1>1
  <2> QED  BY <2>1, Zenon DEF Opening, OpeningStacks
<1>4. NoWindow => todo \in Seq(Steps)
  BY <1>1 DEF NoWindow
<1>5. Open => todo \in Seq(Steps)
  <2>1. /\ <<"GetMessage">> \in Seq(Steps)
        /\ <<"UpdateTheme", "GetMessage">> \in Seq(Steps)
        /\ <<"Show", "GetMessage">> \in Seq(Steps)
        /\ <<"WM_ACTIVATE", "WM_SIZE", "GetMessage">> \in Seq(Steps)
        /\ <<"WM_SIZE", "GetMessage">> \in Seq(Steps)
        /\ <<"WM_ACTIVATE", "GetMessage">> \in Seq(Steps)
        /\ <<"DestroyWindow", "GetMessage">> \in Seq(Steps)
    BY <1>1
  <2> QED  BY <2>1, Zenon DEF Open, OpenStacks
<1>6. Closing => todo \in Seq(Steps)
  <2>1. /\ <<"WM_ACTIVATE", "WM_DESTROY", "WM_NCDESTROY", "GetMessage">> \in Seq(Steps)
        /\ <<"WM_DESTROY", "WM_NCDESTROY", "GetMessage">> \in Seq(Steps)
        /\ <<"Destroy", "PostQuit", "WM_NCDESTROY", "GetMessage">> \in Seq(Steps)
        /\ <<"OnDestroy", "DestroyHandle", "UnregisterWindowClass", "PostQuit",
             "WM_NCDESTROY", "GetMessage">> \in Seq(Steps)
        /\ <<"DestroyHandle", "UnregisterWindowClass", "PostQuit", "WM_NCDESTROY",
             "GetMessage">> \in Seq(Steps)
        /\ <<"UnregisterWindowClass", "PostQuit", "WM_NCDESTROY", "GetMessage">> \in Seq(Steps)
        /\ <<"PostQuit", "WM_NCDESTROY", "GetMessage">> \in Seq(Steps)
        /\ <<"WM_NCDESTROY", "GetMessage">> \in Seq(Steps)
    BY <1>1
  <2> QED  BY <2>1, Zenon DEF Closing, ClosingStacks
<1>7. Closed => todo \in Seq(Steps)
  <2>1. /\ <<"GetMessage">> \in Seq(Steps)
        /\ <<"~FlutterWindow", "~Win32Window">> \in Seq(Steps)
        /\ <<"~Win32Window">> \in Seq(Steps)
        /\ <<"Destroy">> \in Seq(Steps)
        /\ <<"OnDestroy", "DestroyHandle", "UnregisterWindowClass">> \in Seq(Steps)
        /\ <<"DestroyHandle", "UnregisterWindowClass">> \in Seq(Steps)
        /\ <<"ClearHandle", "UnregisterWindowClass">> \in Seq(Steps)
        /\ <<"UnregisterWindowClass">> \in Seq(Steps)
        /\ <<>> \in Seq(Steps)
    BY <1>1
  <2> QED  BY <2>1, Zenon DEF Closed, ClosedStacks
<1>8. Failed => todo \in Seq(Steps)
  <2>1. /\ <<"~FlutterWindow", "~Win32Window">> \in Seq(Steps)
        /\ <<"~Win32Window">> \in Seq(Steps)
        /\ <<"Destroy">> \in Seq(Steps)
        /\ <<"OnDestroy", "DestroyHandle", "UnregisterWindowClass">> \in Seq(Steps)
        /\ <<"DestroyHandle", "UnregisterWindowClass">> \in Seq(Steps)
        /\ <<"DestroyWindow", "ClearHandle", "UnregisterWindowClass">> \in Seq(Steps)
    BY <1>1
  <2> QED  BY <2>1, Zenon DEF Failed, FailedStacks
<1>9. Falling => todo \in Seq(Steps)
  <2>1. /\ <<"WM_DESTROY", "WM_NCDESTROY", "ClearHandle",
             "UnregisterWindowClass">> \in Seq(Steps)
        /\ <<"Destroy", "PostQuit", "WM_NCDESTROY", "ClearHandle",
             "UnregisterWindowClass">> \in Seq(Steps)
        /\ <<"OnDestroy", "DestroyHandle", "UnregisterWindowClass", "PostQuit",
             "WM_NCDESTROY", "ClearHandle", "UnregisterWindowClass">> \in Seq(Steps)
        /\ <<"DestroyHandle", "UnregisterWindowClass", "PostQuit", "WM_NCDESTROY",
             "ClearHandle", "UnregisterWindowClass">> \in Seq(Steps)
        /\ <<"UnregisterWindowClass", "PostQuit", "WM_NCDESTROY", "ClearHandle",
             "UnregisterWindowClass">> \in Seq(Steps)
        /\ <<"PostQuit", "WM_NCDESTROY", "ClearHandle",
             "UnregisterWindowClass">> \in Seq(Steps)
        /\ <<"WM_NCDESTROY", "ClearHandle", "UnregisterWindowClass">> \in Seq(Steps)
    BY <1>1
  <2> QED  BY <2>1, Zenon DEF Falling, FallingStacks
<1> QED  BY <1>2, <1>3, <1>4, <1>5, <1>6, <1>7, <1>8, <1>9 DEF Stages

LEMMA StageCounts == Stages => g_active_window_count \in {0, 1}
  BY DEF Stages, Starting, Opening, NoWindow, Open, Closing, Closed, Failed, Falling, Alive

\* The types of all variables but those two.
Typed ==
    /\ created \in BOOLEAN
    /\ result \in {"none", "EXIT_SUCCESS", "EXIT_FAILURE"}
    /\ crashed \in BOOLEAN
    /\ window_handle_ \in BOOLEAN
    /\ child_content_ \in BOOLEAN
    /\ quit_on_close_ \in BOOLEAN
    /\ flutter_controller_ \in {"null", "broken", "ready"}
    /\ isFlutterWindow \in BOOLEAN
    /\ class_registered_ \in BOOLEAN
    /\ os \in OsStates
    /\ engine \in EngineStates
    /\ posted \subseteq {"close", "theme", "quit"}
    /\ registry \in Themes
    /\ destroys \in Nat
    /\ events \in 0..MaxEvents

LEMMA ThreadTyped ==
  ASSUME Typed, Thread
  PROVE  Typed'
<1> USE DEF object, globals, control, world
<1>1. CASE Construct
  BY <1>1, Zenon DEF Construct, Typed
<1>2. CASE IfCreated
  BY <1>2, Zenon DEF IfCreated, Typed
<1>3. CASE LeaveLoop
  <2>1. posted' \subseteq {"close", "theme", "quit"}
    BY <1>3 DEF LeaveLoop, Typed
  <2> QED  BY <1>3, <2>1, Zenon DEF LeaveLoop, Typed
<1>4. CASE DestroyFlutterWindow
  <2>1. engine' \in EngineStates
    BY <1>4 DEF DestroyFlutterWindow, Typed, EngineStates, Idle
  <2> QED  BY <1>4, <2>1, Zenon DEF DestroyFlutterWindow, Typed
<1>5. CASE DestroyWin32Window
  BY <1>5, Zenon DEF DestroyWin32Window, Typed
<1>6. CASE Create
  BY <1>6, Zenon DEF Create, Typed
<1>7. CASE GetWindowClass
  <2>1. os' \in OsStates
    BY <1>7 DEF GetWindowClass, Typed, OsStates
  <2> QED  BY <1>7, <2>1, Zenon DEF GetWindowClass, Typed
<1>8. CASE CreateOsWindow
  <2>1. os' \in OsStates
    BY <1>8 DEF CreateOsWindow, Typed, OsStates
  <2> QED  BY <1>8, <2>1, Zenon DEF CreateOsWindow, Typed
<1>9. CASE UpdateTheme
  <2>1. os' \in OsStates
    BY <1>9, ThemesAssumption DEF UpdateTheme, Typed, OsStates
  <2> QED  BY <1>9, <2>1, Zenon DEF UpdateTheme, Typed
<1>10. CASE OnCreate
  <2>1. engine' \in EngineStates
    BY <1>10 DEF OnCreate, Typed, EngineStates, Idle
  <2> QED  BY <1>10, <2>1, Zenon DEF OnCreate, Typed
<1>11. CASE SetChildContent
  <2>1. os' \in OsStates
    BY <1>11 DEF SetChildContent, Typed, OsStates
  <2> QED  BY <1>11, <2>1, Zenon DEF SetChildContent, Typed
<1>12. CASE SetNextFrameCallback
  <2>1. engine' \in EngineStates
    BY <1>12 DEF SetNextFrameCallback, Typed, EngineStates, Idle
  <2> QED  BY <1>12, <2>1, Zenon DEF SetNextFrameCallback, Typed
<1>13. CASE ForceRedraw
  <2>1. engine' \in EngineStates
    BY <1>13 DEF ForceRedraw, Typed, EngineStates, Idle
  <2> QED  BY <1>13, <2>1, Zenon DEF ForceRedraw, Typed
<1>14. CASE Show
  <2>1. os' \in OsStates
    BY <1>14 DEF Show, Typed, OsStates
  <2> QED  BY <1>14, <2>1, Zenon DEF Show, Typed
<1>15. CASE Destroy
  BY <1>15, Zenon DEF Destroy, Typed
<1>16. CASE OnDestroy
  <2>1. engine' = engine \/ engine' = Idle
    BY <1>16 DEF OnDestroy
  <2>2. Idle \in EngineStates
    BY DEF EngineStates, Idle
  <2>3. flutter_controller_' \in {"null", "broken", "ready"}
    BY <1>16, Zenon DEF OnDestroy, Typed
  <2> QED  BY <1>16, <2>1, <2>2, <2>3, Zenon DEF OnDestroy, Typed
<1>17. CASE DestroyHandle
  <2>1. destroys' \in Nat
    BY <1>17 DEF DestroyHandle, Typed
  <2> QED  BY <1>17, <2>1, Zenon DEF DestroyHandle, Typed
<1>18. CASE ClearHandle
  BY <1>18, Zenon DEF ClearHandle, Typed
<1>19. CASE UnregisterWindowClass
  <2>1. os' \in OsStates
    BY <1>19 DEF UnregisterWindowClass, Typed, OsStates
  <2> QED  BY <1>19, <2>1, Zenon DEF UnregisterWindowClass, Typed
<1>20. CASE DestroyWindow
  <2>1. os' \in OsStates
    BY <1>20 DEF DestroyWindow, Typed, OsStates
  <2> QED  BY <1>20, <2>1, Zenon DEF DestroyWindow, Typed
<1>21. CASE OnWmDestroy
  BY <1>21, Zenon DEF OnWmDestroy, Typed
<1>22. CASE PostQuit
  <2>1. posted' \subseteq {"close", "theme", "quit"}
    BY <1>22 DEF PostQuit, Typed
  <2> QED  BY <1>22, <2>1, Zenon DEF PostQuit, Typed
<1>23. CASE OnWmNcDestroy
  <2>1. os' \in OsStates
    BY <1>23 DEF OnWmNcDestroy, Typed, OsStates
  <2>2. posted' \subseteq {"close", "theme", "quit"}
    BY <1>23 DEF OnWmNcDestroy, Typed
  <2> QED  BY <1>23, <2>1, <2>2, Zenon DEF OnWmNcDestroy, Typed
<1>24. CASE OnWmSize
  <2>1. os' \in OsStates
    BY <1>24 DEF OnWmSize, Typed, OsStates
  <2> QED  BY <1>24, <2>1, Zenon DEF OnWmSize, Typed
<1>25. CASE OnWmActivate
  <2>1. os' \in OsStates
    BY <1>25 DEF OnWmActivate, Typed, OsStates
  <2> QED  BY <1>25, <2>1, Zenon DEF OnWmActivate, Typed
<1>26. CASE Dispatch
  <2>1. posted' \subseteq {"close", "theme", "quit"}
    BY <1>26 DEF Dispatch, Typed
  <2> QED  BY <1>26, <2>1, Zenon DEF Dispatch, Typed
<1>27. CASE FrameCallback
  <2>1. engine' \in EngineStates
    BY <1>27 DEF FrameCallback, Typed, EngineStates, Idle
  <2> QED  BY <1>27, <2>1, Zenon DEF FrameCallback, Typed
<1> QED  BY <1>1, <1>2, <1>3, <1>4, <1>5, <1>6, <1>7, <1>8, <1>9, <1>10, <1>11, <1>12, <1>13,
          <1>14, <1>15, <1>16, <1>17, <1>18, <1>19, <1>20, <1>21, <1>22, <1>23, <1>24, <1>25,
          <1>26, <1>27 DEF Thread

LEMMA OtherTyped ==
  ASSUME Typed, Environment \/ EngineFrame \/ AppRedraws \/ UNCHANGED vars
  PROVE  Typed'
<1> USE DEF object, globals, control, world
<1>1. CASE UserResizes
  <2>1. os' \in OsStates
    BY <1>1 DEF UserResizes, Typed, OsStates
  <2>2. events' \in 0..MaxEvents
    BY <1>1, EventsAssumption DEF UserResizes, Event, Typed
  <2> QED  BY <1>1, <2>1, <2>2, Zenon DEF UserResizes, Typed
<1>2. CASE UserSwitches
  <2>1. os' \in OsStates
    BY <1>2 DEF UserSwitches, Typed, OsStates
  <2>2. events' \in 0..MaxEvents
    BY <1>2, EventsAssumption DEF UserSwitches, Event, Typed
  <2> QED  BY <1>2, <2>1, <2>2, Zenon DEF UserSwitches, Typed
<1>3. CASE FontChanges
  <2>1. events' \in 0..MaxEvents
    BY <1>3, EventsAssumption DEF FontChanges, Event, Typed
  <2>2. engine' = engine \/ engine' = Idle
    BY <1>3 DEF FontChanges
  <2>3. Idle \in EngineStates
    BY DEF EngineStates, Idle
  <2>4. crashed' \in BOOLEAN
    BY <1>3, Zenon DEF FontChanges, Typed
  <2> QED  BY <1>3, <2>1, <2>2, <2>3, <2>4, Zenon DEF FontChanges, Typed
<1>4. CASE ThemeChanges
  <2>1. events' \in 0..MaxEvents
    BY <1>4, EventsAssumption DEF ThemeChanges, Event, Typed
  <2>2. posted' \subseteq {"close", "theme", "quit"}
    BY <1>4 DEF ThemeChanges, Typed
  <2> QED  BY <1>4, <2>1, <2>2, Zenon DEF ThemeChanges, Typed
<1>5. CASE UserCloses
  <2>1. events' \in 0..MaxEvents
    BY <1>5, EventsAssumption DEF UserCloses, Event, Typed
  <2>2. posted' \subseteq {"close", "theme", "quit"}
    BY <1>5 DEF UserCloses, Typed
  <2> QED  BY <1>5, <2>1, <2>2, Zenon DEF UserCloses, Typed
<1>6. CASE EngineFrame
  <2>1. engine' \in EngineStates
    BY <1>6 DEF EngineFrame, Typed, EngineStates, Idle
  <2> QED  BY <1>6, <2>1, Zenon DEF EngineFrame, Typed
<1>7. CASE AppRedraws
  <2>1. engine' \in EngineStates
    BY <1>7 DEF AppRedraws, Typed, EngineStates, Idle
  <2> QED  BY <1>7, <2>1, Zenon DEF AppRedraws, Typed
<1>8. CASE UNCHANGED vars
  BY <1>8, Zenon DEF vars, Typed
<1>9. CASE DpiChanges
  <2>1. os' \in OsStates
    BY <1>9 DEF DpiChanges, Typed, OsStates
  <2>2. events' \in 0..MaxEvents
    BY <1>9, EventsAssumption DEF DpiChanges, Event, Typed
  <2> QED  BY <1>9, <2>1, <2>2, Zenon DEF DpiChanges, Typed
<1> QED  BY <1>1, <1>2, <1>3, <1>4, <1>5, <1>6, <1>7, <1>8, <1>9
      DEF Environment

\* Only a controller that is ready has an engine that renders.
LEMMA EngineStep ==
  ASSUME Typed, Stages, EngineInv, [Next]_vars
  PROVE  EngineInv'
<1> USE DEF EngineInv, Idle, object, globals, control, world
<1>1. CASE SetNextFrameCallback
  BY <1>1 DEF SetNextFrameCallback, Stages, Running, Starting, StartingStacks, Opening,
     OpeningStacks,
     NoWindow, Open, OpenStacks, Closing, ClosingStacks, Closed, ClosedStacks, Failed,
     FailedStacks,
     Falling, FallingStacks
<1>2. CASE ForceRedraw
  BY <1>2 DEF ForceRedraw, Stages, Running, Starting, StartingStacks, Opening, OpeningStacks,
     NoWindow, Open, OpenStacks, Closing, ClosingStacks, Closed, ClosedStacks, Failed,
     FailedStacks,
     Falling, FallingStacks
<1>3. CASE OnCreate
  BY <1>3 DEF OnCreate
<1>4. CASE OnDestroy
  BY <1>4 DEF OnDestroy
<1>5. CASE DestroyFlutterWindow
  BY <1>5 DEF DestroyFlutterWindow
<1>6. CASE FrameCallback
  BY <1>6 DEF FrameCallback
<1>7. CASE EngineFrame
  BY <1>7 DEF EngineFrame
<1>8. CASE AppRedraws
  BY <1>8 DEF AppRedraws
<1>9. CASE Thread /\ UNCHANGED engine /\ flutter_controller_' = flutter_controller_
  BY <1>9
<1>10. ASSUME Thread,
              ~SetNextFrameCallback, ~ForceRedraw, ~OnCreate, ~OnDestroy,
              ~DestroyFlutterWindow, ~FrameCallback
       PROVE  UNCHANGED engine /\ flutter_controller_' = flutter_controller_
  BY <1>10 DEF Thread, Construct, IfCreated, LeaveLoop, DestroyWin32Window, Create,
     GetWindowClass, CreateOsWindow, UpdateTheme, SetChildContent, Show, Destroy,
     DestroyHandle, ClearHandle, UnregisterWindowClass, DestroyWindow, OnWmDestroy, PostQuit,
     OnWmNcDestroy, OnWmSize, OnWmActivate, Dispatch
<1>11. CASE Environment \/ UNCHANGED vars
  BY <1>11 DEF Environment, vars, UserResizes, UserSwitches, FontChanges, DpiChanges,
     ThemeChanges, UserCloses
<1> QED  BY <1>1, <1>2, <1>3, <1>4, <1>5, <1>6, <1>7, <1>8, <1>9, <1>10, <1>11 DEF Next

\* Between a change of the theme and the title bar there is a message in the
\* queue or the handler is on the stack.
LEMMA ThemeStep ==
  ASSUME TypeOK, Stages, ThemeInv, ~crashed', [Next]_vars
  PROVE  ThemeInv'
<1> DEFINE
      Kept ==
        /\ os'.window = "live" => os.window = "live" /\ os'.theme = os.theme
        /\ registry' = registry
        /\ "theme" \in posted => "theme" \in posted'
        /\ Running("UpdateTheme") => Running("UpdateTheme")'
<1> USE DEF object, globals, control, world
<1>0. os \in OsStates
  BY DEF TypeOK
<1>1. CASE Kept
  BY <1>1 DEF ThemeInv
<1>2. CASE UpdateTheme
  BY <1>0, <1>2, ThemesAssumption DEF UpdateTheme, ThemeInv, OsStates, TypeOK
<1>3. CASE CreateOsWindow
  <2>1. todo = <<"CreateWindow", "IfCreated">> /\ os.window = "none"
    BY <1>3 DEF CreateOsWindow, Running, Stages, Starting, StartingStacks, Opening,
       OpeningStacks,
       NoWindow, Open, OpenStacks, Closing, ClosingStacks, Closed, ClosedStacks, Failed,
       FailedStacks,
       Falling, FallingStacks
  <2>2. UNCHANGED os \/ todo' = <<"UpdateTheme", "OnCreate", "IfCreated">>
    BY <1>3, <2>1, Join21 DEF CreateOsWindow, Calls
  <2> QED  BY <2>1, <2>2 DEF ThemeInv, Running
<1>4. CASE Dispatch
  <2>1. Waiting /\ os' = os /\ registry' = registry
    BY <1>4 DEF Dispatch, CalledBack
  <2>2. CASE "theme" \in posted => "theme" \in posted'
    <3>1. ~Running("UpdateTheme")
      BY <2>1 DEF Waiting, Running
    <3> QED  BY <1>1, <2>1, <2>2, <3>1
  <2>3. CASE CalledBack(<<"UpdateTheme">>)
    <3>1. todo = <<"GetMessage">>
      BY <2>1 DEF Waiting, Running, Stages, Starting, StartingStacks, Opening,
         OpeningStacks,
         NoWindow, Open, OpenStacks, Closing, ClosingStacks, Closed, ClosedStacks, Failed,
         FailedStacks,
         Falling, FallingStacks
    <3>2. todo' = <<"UpdateTheme", "GetMessage">>
      BY <2>3, <3>1, Join11 DEF CalledBack
    <3> QED  BY <3>2 DEF ThemeInv, Running
  <2> QED  BY <1>4, <2>2, <2>3 DEF Dispatch
<1>5. CASE ThemeChanges
  <2>1. os' = os /\ (os.window = "live" => "theme" \in posted')
    BY <1>5 DEF ThemeChanges
  <2> QED  BY <2>1 DEF ThemeInv
<1>6. ASSUME GetWindowClass \/ SetChildContent \/ Show \/ UnregisterWindowClass \/ DestroyWindow
             \/ OnWmNcDestroy \/ OnWmSize \/ OnWmActivate
      PROVE  /\ os'.window = "live" => os.window = "live" /\ os'.theme = os.theme
             /\ registry' = registry
             /\ os'.window = "gone" \/ posted' = posted
             /\ ~Running("UpdateTheme")
  BY <1>0, <1>6 DEF OsStates, Running, GetWindowClass, SetChildContent, Show,
     UnregisterWindowClass,
     DestroyWindow, OnWmNcDestroy, OnWmSize, OnWmActivate
<1>7. ASSUME UserResizes \/ UserSwitches \/ FontChanges \/ DpiChanges
      PROVE  Kept
  BY <1>0, <1>7 DEF OsStates, Running, Waiting, CalledBack, UserResizes, UserSwitches,
     FontChanges, DpiChanges
<1>8. ASSUME \/ Construct \/ IfCreated \/ LeaveLoop \/ DestroyFlutterWindow \/ DestroyWin32Window
             \/ Create \/ OnCreate \/ SetNextFrameCallback \/ ForceRedraw \/ Destroy \/ OnDestroy
             \/ DestroyHandle \/ ClearHandle \/ OnWmDestroy \/ PostQuit
             \/ FrameCallback
      PROVE  Kept
  BY <1>8 DEF Running, Waiting, CalledBack, Construct, IfCreated, LeaveLoop,
     DestroyFlutterWindow,
     DestroyWin32Window, Create, OnCreate, SetNextFrameCallback, ForceRedraw, Destroy,
     OnDestroy,
     DestroyHandle, ClearHandle, OnWmDestroy, PostQuit, FrameCallback
<1>9. ASSUME EngineFrame \/ AppRedraws \/ UserCloses \/ UNCHANGED vars
      PROVE  Kept
  BY <1>9 DEF Running, Waiting, CalledBack, EngineFrame, AppRedraws, UserCloses,
     vars
<1>10. CASE GetWindowClass \/ SetChildContent \/ Show \/ UnregisterWindowClass \/ DestroyWindow
             \/ OnWmNcDestroy \/ OnWmSize \/ OnWmActivate
  BY <1>6, <1>10 DEF ThemeInv
<1> HIDE DEF Kept
<1> QED  BY <1>1, <1>2, <1>3, <1>4, <1>5, <1>7, <1>8, <1>9, <1>10 DEF Next, Thread, Environment

-----------------------------------------------------------------------------
LEMMA Initially == Init => IInv
<1> SUFFICES ASSUME Init PROVE IInv
  OBVIOUS
<1>1. /\ os \in OsStates
      /\ os.window = "none" /\ ~os.class /\ ~os.shown /\ ~os.active
  <2>1. PICK s \in Sizes : os = [class |-> FALSE, window |-> "none", size |-> s, childSize |-> s,
                shown |-> FALSE, active |-> FALSE, focus |-> FALSE, theme |-> "light"]
    BY DEF Init
  <2> QED  BY <2>1 DEF OsStates
<1>2. engine \in EngineStates /\ engine = Idle
  BY DEF Init, EngineStates, Idle
<1>3. todo = <<"FlutterWindow", "Create", "IfCreated">> /\ todo \in StartingStacks
  BY DEF Init, StartingStacks
<1>4. Starting
  BY <1>1, <1>3 DEF Init, Starting, Running, Hidden
<1>5. Stages
  BY <1>4 DEF Stages
<1>6. Typed
  <2>1. destroys \in Nat /\ events \in 0..MaxEvents
    BY EventsAssumption DEF Init
  <2> QED  BY <1>1, <1>2, <2>1, Zenon DEF Init, Typed
<1>7. TypeOK
  BY <1>5, <1>6, StageStacks, StageCounts DEF Typed, TypeOK
<1> QED  BY <1>1, <1>2, <1>5, <1>7 DEF Init, IInv, EngineInv, ThemeInv

\* The two facts about the stages at the end of a step.
LEMMA NextStageTypes == Stages' => (todo \in Seq(Steps) /\ g_active_window_count \in {0, 1})'
<1>1. Stages => todo \in Seq(Steps) /\ g_active_window_count \in {0, 1}
  BY StageStacks, StageCounts
<1> QED  BY <1>1, PTL

LEMMA Inductive ==
  ASSUME IInv, [Next]_vars
  PROVE  IInv'
<1>1. CASE crashed
  <2>1. UNCHANGED vars
    BY <1>1, EndedStays DEF IInv
  <2> QED  BY <1>1, <2>1 DEF IInv, TypeOK, EngineInv, Ended, vars, object, globals, control, world
<1>2. CASE ~crashed
  <2>1. Typed /\ TypeOK /\ Stages /\ EngineInv /\ ThemeInv
    BY <1>2 DEF IInv, TypeOK, Typed
  <2>2. Typed'
    BY <2>1, ThreadTyped, OtherTyped DEF Next
  <2>3. EngineInv'
    BY <2>1, EngineStep
  <2>4. CASE crashed'
    <3>1. FontChanges
      BY <1>2, <2>4, OthersEndNothing
    <3>2. Ended'
      BY <1>2, <2>1, <2>4, <3>1, FontEnds
    <3>3. todo' = <<>> /\ g_active_window_count' = g_active_window_count
      BY <3>1, <3>2 DEF FontChanges, Ended, globals
    <3>4. TypeOK'
      BY <2>1, <2>2, <3>3 DEF Typed, TypeOK
    <3> QED  BY <2>3, <2>4, <3>2, <3>4 DEF IInv
  <2>5. CASE ~crashed'
    <3>1. Stages'
      BY <2>1, <2>5, ThreadStages, OtherStages DEF Next
    <3>2. ThemeInv'
      BY <2>1, <2>5, ThemeStep
    <3>3. todo' \in Seq(Steps) /\ g_active_window_count' \in {0, 1}
      BY <3>1, NextStageTypes
    <3>4. TypeOK'
      BY <2>2, <3>3 DEF Typed, TypeOK
    <3> QED  BY <2>3, <2>5, <3>1, <3>2, <3>4 DEF IInv
  <2> QED  BY <2>4, <2>5
<1> QED  BY <1>1, <1>2

\* The invariant holds in every reachable state, for every set of sizes and
\* themes and every number of events.
THEOREM Invariance == Spec => []IInv
<1>1. IInv /\ [Next]_vars => IInv'
  BY Inductive
<1> QED  BY <1>1, Initially, PTL DEF Spec

-----------------------------------------------------------------------------
\* Types of the variables of wWinMain, FlutterWindow, Win32Window and of what
\* Windows keeps: whatever calls whom, the thread has only known steps to run.
THEOREM HostTypes == Spec => []TypeOK
<1>1. IInv => TypeOK
  BY DEF IInv
<1> QED  BY <1>1, Invariance, PTL

\* A WM_FONTCHANGE, whenever it is delivered, is fatal only before OnCreate has
\* succeeded or while the window is destroyed, and the other handlers never miss
\* the view (flutter_window.cpp:54-72, win32_window.cpp:176-219).
THEOREM OpenWindowsHaveFlutter == Spec => []OpenWindowHasFlutter
<1>1. IInv => OpenWindowHasFlutter
  BY DEF IInv, Ended, Stages, OpenWindowHasFlutter, Running, Starting, StartingStacks, Opening,
     OpeningStacks,
     NoWindow, Open, OpenStacks, Closing, ClosingStacks, Closed, ClosedStacks, Failed,
     FailedStacks,
     Falling, FallingStacks
<1> QED  BY <1>1, Invariance, PTL

\* Destroy, entered up to three times, calls DestroyWindow at most once and only
\* on a window that Windows still has (win32_window.cpp:183, 224-234).
THEOREM HandleStaysLive == Spec => []HandleIsLive
<1>1. IInv => HandleIsLive
  BY DEF IInv, Ended, Stages, HandleIsLive, Running, Alive, Starting, StartingStacks, Opening,
     OpeningStacks,
     NoWindow, Open, OpenStacks, Closing, ClosingStacks, Closed, ClosedStacks, Failed,
     FailedStacks,
     Falling, FallingStacks
<1> QED  BY <1>1, Invariance, PTL

\* Whenever the message loop waits, the view fills the window and has the
\* keyboard of an active one (win32_window.cpp:190-214).
THEOREM ViewStaysWithWindow == Spec => []ViewFollowsWindow
<1>1. IInv => ViewFollowsWindow
  BY DEF IInv, Ended, Stages, ViewFollowsWindow, Running, Waiting, Alive, Starting, StartingStacks,
     Opening,
     OpeningStacks, NoWindow, Open, OpenStacks, Closing, ClosingStacks, Closed, ClosedStacks,
     Failed,
     FailedStacks, Falling, FallingStacks
<1> QED  BY <1>1, Invariance, PTL

\* Whenever the message loop waits with no change of the theme on its way, the
\* title bar has the theme of the registry (win32_window.cpp:216-218, 275-288).
THEOREM ThemeStaysWithSystem == Spec => []ThemeFollowsSystem
<1>1. IInv => ThemeFollowsSystem
  BY DEF IInv, Ended, ThemeInv, ThemeFollowsSystem, Waiting, Running
<1> QED  BY <1>1, Invariance, PTL

\* wWinMain, when it returns, leaves no window, no class, no engine and a count of
\* zero, whether the window was closed, the engine did not start or there never was
\* a window (win32_window.cpp:118-121, 224-234).
THEOREM NothingIsLeft == Spec => []NothingLeft
<1>1. IInv => NothingLeft
  BY DEF IInv, Ended, Stages, NothingLeft, Running, Waiting, Starting, StartingStacks, Opening,
     OpeningStacks, NoWindow, Open, OpenStacks, Closing, ClosingStacks, Closed, ClosedStacks,
     Failed,
     FailedStacks, Falling, FallingStacks
<1> QED  BY <1>1, Invariance, PTL
=============================================================================
