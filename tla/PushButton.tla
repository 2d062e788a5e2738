----------------------------- MODULE PushButton -----------------------------
(***************************************************************************)
(* The push button (dev/button-sensor.c) and the part of er_uart_server    *)
(* that hears of long presses.  Every edge of the pin interrupts; an edge  *)
(* within DEBOUNCE_DURATION of the last one that counted is ignored.  A    *)
(* press starts a callback timer that posts an event every press_duration, *)
(* a release stops it.  The interrupt comes within the tick of its edge,   *)
(* between any two steps of the processes and in the middle of the timer's *)
(* callback; the processes may be late by any number of ticks.             *)
(***************************************************************************)
EXTENDS Integers

CONSTANTS
    DEBOUNCE_DURATION,    \* in ticks
    press_duration,       \* in ticks
    CounterSize,          \* values of press_event_counter, a uint8_t
    eventsActive,         \* of pushbuttonconfig
    MaxPosted,            \* events that find a place in the event queue
    MaxHeld               \* bound of the history variable held

VARIABLES
    pressed,        \* the pin is at BUTTON_SENSOR_PRESSED_LEVEL
    edge,           \* the interrupt of the pin is pending
    debounce,       \* ticks until debouncetimer expires
    press_counter,  \* ticks until the timer expires, or Stopped
    listed,         \* press_counter is in the list of callback timers
    due,            \* its PROCESS_EVENT_TIMER is in the event queue
    callback,       \* what its callback has yet to do, or "idle"
    loaded,         \* the count it adds 1 to
    press_event_counter,
    posted,         \* button_press_duration_exceeded events in the event queue
    heard,          \* the count er_uart_server read from the last one, or 0
    raised,         \* events of the last interrupt that counted
    held,           \* history: ticks the button has been pressed since the last press
    dropped,        \* history: the last edge was ignored
    raced           \* history: the last edge that counted met the timer's expiry

buttonVars == <<pressed, edge, debounce, press_counter, listed, due, callback, loaded,
                press_event_counter, posted, heard, raised, held, dropped, raced>>

Stopped == -1

Init ==
    /\ pressed = FALSE /\ edge = FALSE /\ debounce = 0
    /\ press_counter = Stopped /\ listed = FALSE /\ due = FALSE
    /\ callback = "idle" /\ loaded = 0 /\ press_event_counter = 0
    /\ posted = 0 /\ heard = 0 /\ raised = {}
    /\ held = 0 /\ dropped = FALSE /\ raced = FALSE

(* ctimer_set starts the timer and lists it, ctimer_stop undoes both;      *)
(* neither takes back an event that is in the queue.                       *)
ctimer_set == press_counter' = press_duration /\ listed' = TRUE
ctimer_stop == press_counter' = Stopped /\ listed' = FALSE

(* The pin changes; a second edge before the interrupt is served adds no   *)
(* interrupt.                                                              *)
Pin ==
    /\ pressed' = ~pressed
    /\ edge' = TRUE
    /\ UNCHANGED <<debounce, press_counter, listed, due, callback, loaded,
                   press_event_counter, posted, heard, raised, held, dropped, raced>>

Tick ==
    /\ ~edge
    /\ debounce' = IF debounce > 0 THEN debounce - 1 ELSE 0
    /\ press_counter' = IF press_counter > 0 THEN press_counter - 1 ELSE press_counter
    /\ held' = IF pressed /\ held < MaxHeld THEN held + 1 ELSE held
    /\ UNCHANGED <<pressed, edge, listed, due, callback, loaded, press_event_counter,
                   posted, heard, raised, dropped, raced>>

-----------------------------------------------------------------------------
(* btn_callback.  An edge within the debounce time is ignored ...          *)
Ignored ==
    /\ edge /\ debounce > 0
    /\ edge' = FALSE
    /\ dropped' = TRUE
    /\ UNCHANGED <<pressed, debounce, press_counter, listed, due, callback, loaded,
                   press_event_counter, posted, heard, raised, held, raced>>

(* ... any other sets the debounce timer and reads the pin.  A press meets *)
(* the expiry of a timer that was left running; a release meets a callback *)
(* that will set the timer again.                                          *)
Press ==
    /\ ctimer_set
    /\ raised' = {"below", "change"} \cap eventsActive
    /\ held' = 0
    /\ raced' = (due \/ callback = "counts")
ReleaseKeepsTimer ==    \* slip: ctimer_stop is forgotten
    /\ UNCHANGED <<press_counter, listed, held>>
    /\ raised' = {"above", "change"} \cap eventsActive
    /\ raced' = (callback # "idle")
Release ==
    /\ ctimer_stop
    /\ raised' = {"above", "change"} \cap eventsActive
    /\ UNCHANGED held
    /\ raced' = (callback # "idle")
CountNotReset ==    \* slip: the count of the last press goes on
    /\ edge /\ debounce = 0
    /\ edge' = FALSE
    /\ debounce' = DEBOUNCE_DURATION
    /\ IF pressed THEN Press ELSE Release
    /\ dropped' = FALSE
    /\ UNCHANGED <<pressed, due, callback, loaded, press_event_counter, posted, heard>>
btn_callback ==
    /\ edge /\ debounce = 0
    /\ edge' = FALSE
    /\ debounce' = DEBOUNCE_DURATION
    /\ press_event_counter' = 0
    /\ IF pressed THEN Press ELSE Release
    /\ dropped' = FALSE
    /\ UNCHANGED <<pressed, due, callback, loaded, posted, heard>>

-----------------------------------------------------------------------------
(* The timer has expired: etimer_process posts its event and forgets it.   *)
(* The guard ~due is a bound: a timer set anew expires only after the      *)
(* event of the time before was taken.                                     *)
etimer_process ==
    /\ press_counter = 0 /\ callback = "idle" /\ ~due
    /\ press_counter' = Stopped
    /\ due' = TRUE
    /\ UNCHANGED <<pressed, edge, debounce, listed, callback, loaded, press_event_counter,
                   posted, heard, raised, held, dropped, raced>>

(* ctimer_process gets the event and calls back if it finds the timer in   *)
(* its list, be it one that was set anew after the event was posted; the   *)
(* callback loads the count it adds 1 to.                                  *)
ctimer_process ==
    /\ due /\ callback = "idle"
    /\ due' = FALSE
    /\ listed' = FALSE
    /\ IF listed THEN callback' = "counts" /\ loaded' = press_event_counter
                 ELSE UNCHANGED <<callback, loaded>>
    /\ UNCHANGED <<pressed, edge, debounce, press_counter, press_event_counter, posted,
                   heard, raised, held, dropped, raced>>

(* duration_exceeded_callback stores the count and posts it, unless the    *)
(* event queue is full ...                                                 *)
Count ==
    /\ callback = "counts"
    /\ callback' = "sets"
    /\ press_event_counter' = (loaded + 1) % CounterSize
    /\ posted' \in {posted, posted + 1} \cap 0..MaxPosted
    /\ UNCHANGED <<pressed, edge, debounce, press_counter, listed, due, loaded, heard,
                   raised, held, dropped, raced>>

(* ... and sets the timer again.                                           *)
SetAgain ==
    /\ callback = "sets"
    /\ callback' = "idle"
    /\ ctimer_set
    /\ UNCHANGED <<pressed, edge, debounce, due, loaded, press_event_counter, posted, heard,
                   raised, held, dropped, raced>>

(* er_uart_server gets an event: its data is a pointer to the counter.     *)
LongPress ==
    /\ posted > 0 /\ callback = "idle"
    /\ posted' = posted - 1
    /\ heard' = press_event_counter
    /\ UNCHANGED <<pressed, edge, debounce, press_counter, listed, due, callback, loaded,
                   press_event_counter, raised, held, dropped, raced>>

Next ==
    \/ Pin \/ Tick \/ Ignored \/ btn_callback
    \/ etimer_process \/ ctimer_process \/ Count \/ SetAgain \/ LongPress
Spec == Init /\ [][Next]_buttonVars

-----------------------------------------------------------------------------

(* The value of every variable.                                            *)
TypeOK ==
    /\ pressed \in BOOLEAN /\ edge \in BOOLEAN /\ listed \in BOOLEAN /\ due \in BOOLEAN
    /\ debounce \in 0..DEBOUNCE_DURATION
    /\ press_counter \in Stopped..press_duration
    /\ callback \in {"idle", "counts", "sets"}
    /\ loaded \in 0..CounterSize - 1
    /\ press_event_counter \in 0..CounterSize - 1 /\ heard \in 0..CounterSize - 1
    /\ posted \in 0..MaxPosted
    /\ raised \in SUBSET {"above", "below", "change"}
    /\ held \in 0..MaxHeld /\ dropped \in BOOLEAN /\ raced \in BOOLEAN

(* The timer runs, or its callback is to come or under way.                *)
Running == press_counter # Stopped \/ (due /\ listed) \/ callback # "idle"

(* The long-press timer runs while the button is pressed, whatever the     *)
(* interrupt of an edge meets; after a release it runs on only when the    *)
(* debounce has ignored the edge or the release met the callback, which    *)
(* sets the timer again (duration_exceeded_callback).                      *)
TimerFollowsPin ==
    ~dropped /\ ~edge => /\ pressed => Running
                         /\ ~raced /\ Running => pressed

(* A long press of n intervals is counted only when the button has been    *)
(* held for n intervals, unless an edge was ignored or met the expiry of   *)
(* the timer.                                                              *)
CountedIsHeld ==
    ~dropped /\ ~raced /\ ~edge /\ held < MaxHeld
        => held >= press_event_counter * press_duration

(* "Long press event - postes a new event every second": an event that is  *)
(* posted counts no more intervals than the button was held for.  It does  *)
(* not hold: the interrupt of an edge may come between the expiry of the   *)
(* timer and the end of its callback.                                      *)
EventEverySecond ==
    [][posted' > posted /\ ~dropped /\ ~edge /\ held < MaxHeld
           => held >= press_event_counter' * press_duration]_buttonVars
=============================================================================
