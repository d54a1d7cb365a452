---------------------------- MODULE RunnerWindow ----------------------------
(***************************************************************************)
(* The Windows host of the app: wWinMain, FlutterWindow and Win32Window.   *)
(*                                                                         *)
(* One thread runs all of it, but not in the order it is written: Windows  *)
(* calls the window procedure back from inside CreateWindow, ShowWindow,   *)
(* SetWindowPos and DestroyWindow, and Destroy is entered again from the   *)
(* WM_DESTROY that it caused.  'todo' is the thread's call stack, as the   *)
(* steps still to run, the innermost call first.  The engine renders on    *)
(* threads of its own, and the user and the system act at any time: a      *)
(* message that another thread sends reaches the window procedure from     *)
(* within whatever call into Windows or the engine the thread is in.       *)
(***************************************************************************)
EXTENDS Integers, Sequences

CONSTANTS
    Sizes,       \* client areas the window can have
    Themes,      \* what the registry can say: "light", "dark" or "missing"
    MaxEvents    \* bound on what the user and the system do to the window

ASSUME SizesAssumption == Sizes # {}
ASSUME ThemesAssumption == Themes # {} /\ Themes \subseteq {"light", "dark", "missing"}
ASSUME EventsAssumption == MaxEvents \in Nat

VARIABLES
    todo,                   \* call stack of the thread
    created,                \* what Create and OnCreate return
    result,                 \* what wWinMain returns
    crashed,                \* the program ended on a bad pointer; the rest stays as it was then
    window_handle_, child_content_, quit_on_close_, flutter_controller_,
    isFlutterWindow,        \* virtual calls still reach FlutterWindow
    g_active_window_count, class_registered_,
    os,                     \* what Windows knows of the class, the window and its child
    engine,                 \* a frame due, one completed, the callback of the next one
    posted,                 \* messages in the thread's queue
    registry,               \* the user's theme
    destroys,               \* calls of DestroyWindow that the host made
    events

object == <<window_handle_, child_content_, quit_on_close_, flutter_controller_, isFlutterWindow>>
globals == <<g_active_window_count, class_registered_>>
control == <<created, result, crashed>>
world == <<posted, registry, events>>
vars == <<todo, control, object, globals, os, engine, world, destroys>>

Steps == {"FlutterWindow", "Create", "IfCreated", "GetWindowClass", "CreateWindow",
          "UpdateTheme", "OnCreate", "SetChildContent", "SetNextFrameCallback",
          "ForceRedraw", "GetMessage", "~FlutterWindow", "~Win32Window", "Show",
          "Destroy", "OnDestroy", "DestroyHandle", "UnregisterWindowClass", "DestroyWindow",
          "ClearHandle", "PostQuit", "WM_DESTROY", "WM_NCDESTROY", "WM_SIZE",
          "WM_ACTIVATE"}

OsStates == [class : BOOLEAN, window : {"none", "live", "dying", "gone"}, size : Sizes,
             childSize : Sizes, shown : BOOLEAN, active : BOOLEAN, focus : BOOLEAN,
             theme : {"light", "dark"}]

EngineStates == [frame : BOOLEAN, rendered : BOOLEAN, callback : {"none", "armed", "posted"}]

Idle == [frame |-> FALSE, rendered |-> FALSE, callback |-> "none"]

TypeOK ==
    /\ todo \in Seq(Steps)
    /\ created \in BOOLEAN
    /\ result \in {"none", "EXIT_SUCCESS", "EXIT_FAILURE"}
    /\ crashed \in BOOLEAN
    /\ window_handle_ \in BOOLEAN
    /\ child_content_ \in BOOLEAN
    /\ quit_on_close_ \in BOOLEAN
    /\ flutter_controller_ \in {"null", "broken", "ready"}
    /\ isFlutterWindow \in BOOLEAN
    /\ g_active_window_count \in {0, 1}
    /\ class_registered_ \in BOOLEAN
    /\ os \in OsStates
    /\ engine \in EngineStates
    /\ posted \subseteq {"close", "theme", "quit"}
    /\ registry \in Themes
    /\ destroys \in Nat
    /\ events \in 0..MaxEvents

Init ==
    /\ todo = <<"FlutterWindow", "Create", "IfCreated">>
    /\ created = FALSE
    /\ result = "none"
    /\ crashed = FALSE
    /\ window_handle_ = FALSE
    /\ child_content_ = FALSE
    /\ quit_on_close_ = FALSE
    /\ flutter_controller_ = "null"
    /\ isFlutterWindow = TRUE
    /\ g_active_window_count = 0
    /\ class_registered_ = FALSE
    /\ os \in {[class |-> FALSE, window |-> "none", size |-> s, childSize |-> s,
                shown |-> FALSE, active |-> FALSE, focus |-> FALSE, theme |-> "light"] : s \in Sizes}
    /\ engine = Idle
    /\ posted = {}
    /\ registry \in Themes
    /\ destroys = 0
    /\ events = 0

-----------------------------------------------------------------------------
\* The call stack

Running(step) == todo # <<>> /\ Head(todo) = step

\* The running step ends; what it called runs first.
Calls(steps) == todo' = steps \o Tail(todo)

When(condition, steps) == IF condition THEN steps ELSE <<>>

Waiting == Running("GetMessage")

\* Windows interrupts the wait in GetMessage with a call of the window procedure.
CalledBack(steps) == Waiting /\ todo' = steps \o todo

-----------------------------------------------------------------------------
(* Mutants: each definition as a plausible mistake would leave it *)

ConstructUncounted ==
    /\ Running("FlutterWindow")
    /\ Calls(<<>>)
    /\ UNCHANGED <<control, object, globals, os, engine, world, destroys>>

\* The check of the engine and the view is missing.
OnCreateUnchecked ==
    /\ Running("OnCreate")
    /\ \E outcome \in {"broken", "ready"} :
         /\ flutter_controller_' = outcome
         /\ engine' = [Idle EXCEPT !.frame = (outcome = "ready")]
    /\ created' = TRUE
    /\ Calls(<<"SetChildContent", "SetNextFrameCallback", "ForceRedraw">>)
    /\ UNCHANGED <<result, crashed, window_handle_, child_content_, quit_on_close_,
                   isFlutterWindow, globals, os, world, destroys>>

\* The handle is cleared after Destroy and not before it.
OnWmDestroyLate ==
    /\ Running("WM_DESTROY")
    /\ Calls(<<"Destroy", "ClearHandle", "PostQuit">>)
    /\ UNCHANGED <<control, object, globals, os, engine, world, destroys>>

OnWmSizeIgnored ==
    /\ Running("WM_SIZE")
    /\ Calls(<<>>)
    /\ UNCHANGED <<control, object, globals, os, engine, world, destroys>>

CreateOsWindowUnthemed ==
    /\ Running("CreateWindow")
    /\ \/ /\ os.class
          /\ os' = [os EXCEPT !.window = "live"]
          /\ window_handle_' = TRUE
          /\ Calls(<<"OnCreate">>)
          /\ UNCHANGED created
       \/ /\ created' = FALSE
          /\ Calls(<<>>)
          /\ UNCHANGED <<os, window_handle_>>
    /\ UNCHANGED <<result, crashed, child_content_, quit_on_close_, flutter_controller_,
                   isFlutterWindow, globals, engine, world, destroys>>

\* A second call is "not needed": but the first was refused.
UnregisterOnce ==
    /\ Running("UnregisterWindowClass")
    /\ IF g_active_window_count = 0 /\ class_registered_
         THEN /\ class_registered_' = FALSE
              /\ os' = [os EXCEPT !.class = @ /\ os.window \in {"live", "dying"}]
         ELSE UNCHANGED <<class_registered_, os>>
    /\ Calls(<<>>)
    /\ UNCHANGED <<control, object, g_active_window_count, engine, world, destroys>>

\* SetQuitOnClose is forgotten.
IfCreatedOnly ==
    /\ Running("IfCreated")
    /\ Calls(IF created THEN <<"GetMessage">> ELSE <<"~FlutterWindow", "~Win32Window">>)
    /\ result' = IF created THEN result ELSE "EXIT_FAILURE"
    /\ UNCHANGED <<created, crashed, object, globals, os, engine, world, destroys>>

ForceNoRedraw ==
    /\ Running("ForceRedraw")
    /\ Calls(<<>>)
    /\ UNCHANGED <<control, object, globals, os, engine, world, destroys>>

-----------------------------------------------------------------------------
\* wWinMain and the constructor

Construct ==
    /\ Running("FlutterWindow")
    /\ g_active_window_count' = g_active_window_count + 1
    /\ Calls(<<>>)
    /\ UNCHANGED <<control, object, class_registered_, os, engine, world, destroys>>

\* COM is left out: CoInitializeEx, and CoUninitialize, which this path skips.
IfCreated ==
    /\ Running("IfCreated")
    /\ IF created
         THEN /\ quit_on_close_' = TRUE
              /\ Calls(<<"GetMessage">>)
              /\ UNCHANGED result
         ELSE /\ result' = "EXIT_FAILURE"
              /\ Calls(<<"~FlutterWindow", "~Win32Window">>)
              /\ UNCHANGED quit_on_close_
    /\ UNCHANGED <<created, crashed, window_handle_, child_content_, flutter_controller_,
                   isFlutterWindow, globals, os, engine, world, destroys>>

\* GetMessage returns 0 only when nothing but the quit message is left.
LeaveLoop ==
    /\ Waiting
    /\ posted = {"quit"}
    /\ result' = "EXIT_SUCCESS"
    /\ posted' = {}
    /\ Calls(<<"~FlutterWindow", "~Win32Window">>)
    /\ UNCHANGED <<created, crashed, object, globals, os, engine, registry, events, destroys>>

\* The body of the destructor is empty, but it destroys the members, and with
\* the controller the engine and its view.
DestroyFlutterWindow ==
    /\ Running("~FlutterWindow")
    /\ isFlutterWindow' = FALSE
    /\ flutter_controller_' = "null"
    /\ engine' = Idle
    /\ Calls(<<>>)
    /\ UNCHANGED <<control, window_handle_, child_content_, quit_on_close_, globals, os, world, destroys>>

DestroyWin32Window ==
    /\ Running("~Win32Window")
    /\ g_active_window_count' = g_active_window_count - 1
    /\ Calls(<<"Destroy">>)
    /\ UNCHANGED <<control, object, class_registered_, os, engine, world, destroys>>

-----------------------------------------------------------------------------
\* Creation

Create ==
    /\ Running("Create")
    /\ Calls(<<"Destroy", "GetWindowClass", "CreateWindow">>)
    /\ UNCHANGED <<control, object, globals, os, engine, world, destroys>>

GetWindowClass ==
    /\ Running("GetWindowClass")
    /\ class_registered_' = TRUE
    /\ os' = IF class_registered_ THEN os ELSE [os EXCEPT !.class = TRUE]
    /\ Calls(<<>>)
    /\ UNCHANGED <<control, object, g_active_window_count, engine, world, destroys>>

\* WM_NCCREATE stores the handle; no other message finds a view to act on.
CreateOsWindow ==
    /\ Running("CreateWindow")
    /\ \/ /\ os.class
          /\ os' = [os EXCEPT !.window = "live"]
          /\ window_handle_' = TRUE
          /\ Calls(<<"UpdateTheme", "OnCreate">>)
          /\ UNCHANGED created
       \/ /\ created' = FALSE
          /\ Calls(<<>>)
          /\ UNCHANGED <<os, window_handle_>>
    /\ UNCHANGED <<result, crashed, child_content_, quit_on_close_, flutter_controller_,
                   isFlutterWindow, globals, engine, world, destroys>>

UpdateTheme ==
    /\ Running("UpdateTheme")
    /\ os' = IF registry = "missing" THEN os ELSE [os EXCEPT !.theme = registry]
    /\ Calls(<<>>)
    /\ UNCHANGED <<control, object, globals, engine, world, destroys>>

\* The engine starts to render before the calls that follow.
OnCreate ==
    /\ Running("OnCreate")
    /\ \E outcome \in {"broken", "ready"} :
         /\ flutter_controller_' = outcome
         /\ created' = (outcome = "ready")
         /\ engine' = [Idle EXCEPT !.frame = (outcome = "ready")]
         /\ Calls(When(created', <<"SetChildContent", "SetNextFrameCallback", "ForceRedraw">>))
    /\ UNCHANGED <<result, crashed, window_handle_, child_content_, quit_on_close_,
                   isFlutterWindow, globals, os, world, destroys>>

SetChildContent ==
    /\ Running("SetChildContent")
    /\ child_content_' = TRUE
    /\ os' = [os EXCEPT !.childSize = os.size, !.focus = TRUE]
    /\ Calls(<<>>)
    /\ UNCHANGED <<control, window_handle_, quit_on_close_, flutter_controller_, isFlutterWindow,
                   globals, engine, world, destroys>>

SetNextFrameCallback ==
    /\ Running("SetNextFrameCallback")
    /\ engine' = [engine EXCEPT !.callback = "armed"]
    /\ Calls(<<>>)
    /\ UNCHANGED <<control, object, globals, os, world, destroys>>

\* "It is a no-op if the first frame hasn't completed yet."
ForceRedraw ==
    /\ Running("ForceRedraw")
    /\ engine' = [engine EXCEPT !.frame = @ \/ engine.rendered]
    /\ Calls(<<>>)
    /\ UNCHANGED <<control, object, globals, os, world, destroys>>

\* ShowWindow activates the window and sends it its size.
Show ==
    /\ Running("Show")
    /\ IF window_handle_
         THEN /\ os' = [os EXCEPT !.shown = TRUE, !.active = TRUE, !.focus = FALSE]
              /\ Calls(<<"WM_ACTIVATE", "WM_SIZE">>)
         ELSE /\ Calls(<<>>)
              /\ UNCHANGED os
    /\ UNCHANGED <<control, object, globals, engine, world, destroys>>

-----------------------------------------------------------------------------
\* Destruction

Destroy ==
    /\ Running("Destroy")
    /\ Calls(<<"OnDestroy", "DestroyHandle", "UnregisterWindowClass">>)
    /\ UNCHANGED <<control, object, globals, os, engine, world, destroys>>

OnDestroy ==
    /\ Running("OnDestroy")
    /\ IF isFlutterWindow
         THEN flutter_controller_' = "null" /\ engine' = Idle
         ELSE UNCHANGED <<flutter_controller_, engine>>
    /\ Calls(<<>>)
    /\ UNCHANGED <<control, window_handle_, child_content_, quit_on_close_, isFlutterWindow,
                   globals, os, world, destroys>>

DestroyHandle ==
    /\ Running("DestroyHandle")
    /\ destroys' = IF window_handle_ THEN destroys + 1 ELSE destroys
    /\ Calls(When(window_handle_, <<"DestroyWindow", "ClearHandle">>))
    /\ UNCHANGED <<control, object, globals, os, engine, world>>

ClearHandle ==
    /\ Running("ClearHandle")
    /\ window_handle_' = FALSE
    /\ Calls(<<>>)
    /\ UNCHANGED <<control, child_content_, quit_on_close_, flutter_controller_, isFlutterWindow,
                   globals, os, engine, world, destroys>>

\* Windows refuses while a window of the class exists; the flag is cleared anyway.
UnregisterWindowClass ==
    /\ Running("UnregisterWindowClass")
    /\ IF g_active_window_count = 0
         THEN /\ class_registered_' = FALSE
              /\ os' = [os EXCEPT !.class = @ /\ os.window \in {"live", "dying"}]
         ELSE UNCHANGED <<class_registered_, os>>
    /\ Calls(<<>>)
    /\ UNCHANGED <<control, object, g_active_window_count, engine, world, destroys>>

\* Windows deactivates the window, then sends its last two messages.
DestroyWindow ==
    /\ Running("DestroyWindow")
    /\ os' = [os EXCEPT !.window = "dying", !.active = FALSE]
    /\ Calls(When(os.active, <<"WM_ACTIVATE">>) \o <<"WM_DESTROY", "WM_NCDESTROY">>)
    /\ UNCHANGED <<control, object, globals, engine, world, destroys>>

OnWmDestroy ==
    /\ Running("WM_DESTROY")
    /\ window_handle_' = FALSE
    /\ Calls(<<"Destroy", "PostQuit">>)
    /\ UNCHANGED <<control, child_content_, quit_on_close_, flutter_controller_, isFlutterWindow,
                   globals, os, engine, world, destroys>>

PostQuit ==
    /\ Running("PostQuit")
    /\ posted' = IF quit_on_close_ THEN posted \cup {"quit"} ELSE posted
    /\ Calls(<<>>)
    /\ UNCHANGED <<control, object, globals, os, engine, registry, events, destroys>>

\* The queue of a window goes with it; the quit message belongs to the thread.
OnWmNcDestroy ==
    /\ Running("WM_NCDESTROY")
    /\ os' = [os EXCEPT !.window = "gone", !.shown = FALSE]
    /\ posted' = posted \cap {"quit"}
    /\ Calls(<<>>)
    /\ UNCHANGED <<control, object, globals, engine, registry, events, destroys>>

-----------------------------------------------------------------------------
\* The other messages

OnWmSize ==
    /\ Running("WM_SIZE")
    /\ os' = IF child_content_ THEN [os EXCEPT !.childSize = os.size] ELSE os
    /\ Calls(<<>>)
    /\ UNCHANGED <<control, object, globals, engine, world, destroys>>

OnWmActivate ==
    /\ Running("WM_ACTIVATE")
    /\ os' = IF child_content_ THEN [os EXCEPT !.focus = TRUE] ELSE os
    /\ Calls(<<>>)
    /\ UNCHANGED <<control, object, globals, engine, world, destroys>>

\* The message loop takes a message from the queue.  Closing is left to
\* DefWindowProc, which destroys the window.
Dispatch ==
    /\ \/ /\ "close" \in posted
          /\ posted' = posted \ {"close"}
          /\ CalledBack(<<"DestroyWindow">>)
       \/ /\ "theme" \in posted
          /\ posted' = posted \ {"theme"}
          /\ CalledBack(<<"UpdateTheme">>)
    /\ UNCHANGED <<control, object, globals, os, engine, registry, events, destroys>>

\* The callback of the first frame arrives as a task of the same loop.
FrameCallback ==
    /\ engine.callback = "posted"
    /\ engine' = [engine EXCEPT !.callback = "none"]
    /\ CalledBack(<<"Show">>)
    /\ UNCHANGED <<control, object, globals, os, world, destroys>>

-----------------------------------------------------------------------------
\* The engine's own threads

EngineFrame ==
    /\ engine.frame
    /\ engine' = [frame |-> FALSE, rendered |-> TRUE,
                  callback |-> IF engine.callback = "armed" THEN "posted" ELSE engine.callback]
    /\ UNCHANGED <<todo, control, object, globals, os, world, destroys>>

\* The app has something new to draw.
AppRedraws ==
    /\ engine.rendered
    /\ engine' = [engine EXCEPT !.frame = TRUE]
    /\ UNCHANGED <<todo, control, object, globals, os, world, destroys>>

-----------------------------------------------------------------------------
\* The user and the system

Event == events < MaxEvents /\ events' = events + 1

UserResizes ==
    /\ Event
    /\ os.shown
    /\ \E s \in Sizes : os' = [os EXCEPT !.size = s]
    /\ CalledBack(<<"WM_SIZE">>)
    /\ UNCHANGED <<control, object, globals, engine, posted, registry, destroys>>

UserSwitches ==
    /\ Event
    /\ os.shown
    /\ os' = [os EXCEPT !.active = ~@, !.focus = FALSE]
    /\ CalledBack(<<"WM_ACTIVATE">>)
    /\ UNCHANGED <<control, object, globals, engine, posted, registry, destroys>>

\* The calls in which the thread may take a message sent by another thread: the
\* wait, and the long calls that create, show and destroy window and engine.
\* UpdateTheme stands for the rest of CreateWindow too.  MoveWindow and SetFocus
\* are taken as one with the handlers that end in them.
CallsOut == {"GetMessage", "UpdateTheme", "OnCreate", "SetChildContent", "Show", "OnDestroy",
             "DestroyWindow", "WM_NCDESTROY", "~FlutterWindow"}

Interruptible ==
    /\ todo # <<>>
    /\ Head(todo) \in CallsOut
    /\ os.window \in {"live", "dying"}

\* OnDestroy resets the pointer before the engine behind it is torn down.
HasController == flutter_controller_ # "null" /\ ~Running("OnDestroy")

\* WM_FONTCHANGE.  FlutterWindow's handler follows flutter_controller_ without
\* asking for it: it reloads the fonts, or the program crashes.  Either may
\* happen with a controller whose engine did not start.
FontChanges ==
    /\ Event
    /\ Interruptible
    /\ \/ /\ isFlutterWindow => HasController
          /\ UNCHANGED <<todo, control, engine>>
       \/ /\ isFlutterWindow
          /\ HasController => flutter_controller_ = "broken"
          /\ crashed' = TRUE
          /\ todo' = <<>>
          /\ engine' = Idle
          /\ UNCHANGED <<created, result>>
    /\ UNCHANGED <<object, globals, os, posted, registry, destroys>>

\* WM_DPICHANGED.  SetWindowPos with the rectangle that came with the message
\* sends WM_SIZE when the size is another one.
DpiChanges ==
    /\ Event
    /\ Interruptible
    /\ os.window = "live"
    /\ \E s \in Sizes \ {os.size} :
         os' = [os EXCEPT !.size = s, !.childSize = IF child_content_ THEN s ELSE @]
    /\ UNCHANGED <<todo, control, object, globals, engine, posted, registry, destroys>>

\* Every window there is gets a message; the thread may be anywhere.
ThemeChanges ==
    /\ Event
    /\ todo # <<>>
    /\ \E t \in Themes \ {registry} : registry' = t
    /\ posted' = IF os.window = "live" THEN posted \cup {"theme"} ELSE posted
    /\ UNCHANGED <<todo, control, object, globals, os, engine, destroys>>

UserCloses ==
    /\ Event
    /\ todo # <<>>
    /\ os.shown
    /\ os.window = "live"
    /\ posted' = posted \cup {"close"}
    /\ UNCHANGED <<todo, control, object, globals, os, engine, registry, destroys>>

-----------------------------------------------------------------------------
Thread ==
    \/ Construct \/ IfCreated \/ LeaveLoop \/ DestroyFlutterWindow \/ DestroyWin32Window
    \/ Create \/ GetWindowClass \/ CreateOsWindow \/ UpdateTheme \/ OnCreate
    \/ SetChildContent \/ SetNextFrameCallback \/ ForceRedraw \/ Show
    \/ Destroy \/ OnDestroy \/ DestroyHandle \/ ClearHandle \/ UnregisterWindowClass
    \/ DestroyWindow \/ OnWmDestroy \/ PostQuit \/ OnWmNcDestroy
    \/ OnWmSize \/ OnWmActivate \/ Dispatch \/ FrameCallback

Environment == UserResizes \/ UserSwitches \/ FontChanges \/ DpiChanges \/ ThemeChanges \/ UserCloses

Next == Thread \/ EngineFrame \/ AppRedraws \/ Environment

Spec == Init /\ [][Next]_vars

\* The thread runs and the engine renders a frame that is due.  Nothing is
\* assumed of the app, the user or the system.
LiveSpec == Spec /\ WF_vars(Thread) /\ WF_vars(EngineFrame)

-----------------------------------------------------------------------------
(* Properties *)

\* A font change is fatal only while the start has not succeeded or the window is
\* being destroyed, never to a program with an open window (flutter_window.cpp:28,
\* 64-67).  The other handlers that need the view find it: child_content_ is never
\* reset when the controller takes the view with it (win32_window.cpp:202-214).
OpenWindowHasFlutter ==
    /\ crashed => ~created \/ os.window = "dying"
    /\ (Running("WM_SIZE") \/ Running("WM_ACTIVATE")) /\ child_content_ =>
           flutter_controller_ = "ready"

\* However often Destroy is entered, from Create, from the destructor and from
\* the WM_DESTROY it causes itself, it destroys a window only while Windows has
\* it, and once (win32_window.cpp:183, 224-234).
HandleIsLive ==
    /\ window_handle_ => os.window \in {"live", "dying"}
    /\ destroys <= 1
    /\ Running("DestroyWindow") => os.window = "live"

\* While the thread waits for messages, the Flutter view fills the client area
\* and has the keyboard when the window is active, whatever resized or switched
\* to the window (win32_window.cpp:190-214).
ViewFollowsWindow ==
    Waiting /\ os.window = "live" =>
        /\ os.childSize = os.size
        /\ os.active => os.focus

\* "Update the window frame's theme to match the system theme": it does whenever
\* no message about a change is on its way and the registry names a theme
\* (win32_window.h, UpdateTheme).
ThemeFollowsSystem ==
    Waiting /\ os.window = "live" /\ "theme" \notin posted /\ registry # "missing"
        => os.theme = registry

\* wWinMain, when it returns, leaves nothing: no window, no class, no engine,
\* whichever step of the start failed (win32_window.cpp:118-121, 224-234).
NothingLeft ==
    todo = <<>> /\ ~crashed =>
        /\ result # "none"
        /\ os.window \in {"none", "gone"}
        /\ ~os.class
        /\ ~class_registered_
        /\ flutter_controller_ = "null"
        /\ g_active_window_count = 0

\* Once the user has closed the window the program ends, even if a font change
\* reaches it while the window goes.
CloseEnds == ("close" \in posted) ~> (todo = <<>>)

\* The window is shown in the end, even when the engine completes its first
\* frame before the callback is registered (flutter_window.cpp:34-37), unless it
\* is destroyed first.
WindowShows == Waiting ~> (os.shown \/ os.window # "live")
=============================================================================
