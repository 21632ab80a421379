------------------------------- MODULE AppTask -------------------------------
(***************************************************************************)
(* The button and its task (main/AppTask.cpp, main/Button.cpp).  app_main  *)
(* creates the queue and the task; the task hooks the interrupt, sets the  *)
(* handler and then receives events; an interrupt may come between any two *)
(* of these steps.  What becomes of an event after ScheduleWork is in      *)
(* BindingHandler and CoapServer.                                          *)
(***************************************************************************)
EXTENDS Integers, Sequences

CONSTANTS
  Presses,         \* presses of the button
  EventQueueSize,  \* APP_EVENT_QUEUE_SIZE
  NoQueue,         \* the queue is NULL
  NoPress          \* no event is being dispatched

ASSUME AppTaskAssumption ==
  /\ EventQueueSize \in Nat \ {0}
  /\ NoQueue \notin Seq(Presses)
  /\ NoPress \notin Presses

VARIABLES
  app_main,             \* where app_main is
  sAppEventQueue,       \* the events posted
  appTask,              \* where AppTaskMain is
  event,                \* the event AppTaskMain dispatches
  hooked,               \* the interrupt of the pin is enabled
  button_press_handler, \* the handler has been set
  fate,                 \* history: what became of each press
  nullPost              \* history: PostEvent has found no queue

appTaskVars == <<app_main, sAppEventQueue, appTask, event, hooked,
                 button_press_handler, fate, nullPost>>

AppTaskTypeOK ==
  /\ app_main \in {"init", "schedule", "queue", "task", "returned"}
  /\ \/ sAppEventQueue = NoQueue
     \/ sAppEventQueue \in Seq(Presses) /\ Len(sAppEventQueue) <= EventQueueSize
  /\ appTask \in {"none", "init", "hooked", "receive", "dispatch"}
  /\ event \in Presses \cup {NoPress}
  /\ hooked \in BOOLEAN
  /\ button_press_handler \in BOOLEAN
  /\ fate \in [Presses -> {"none", "ignored", "refused", "queued", "sent"}]
  /\ nullPost \in BOOLEAN

AppTaskInit ==
  /\ app_main = "init"
  /\ sAppEventQueue = NoQueue
  /\ appTask = "none"
  /\ event = NoPress
  /\ hooked = FALSE
  /\ button_press_handler = FALSE
  /\ fate = [p \in Presses |-> "none"]
  /\ nullPost = FALSE

-----------------------------------------------------------------------------
(* StartAppTask, on the task of app_main. *)

\* A slip: the task is started whether or not there is a queue.
CreateEventQueueUnchecked ==
  /\ app_main = "queue"
  /\ app_main' = "task"
  /\ sAppEventQueue' \in {<<>>, NoQueue}
  /\ UNCHANGED <<appTask, event, hooked, button_press_handler, fate, nullPost>>

\* xQueueCreate: without a queue there is no task either.
CreateEventQueue ==
  /\ app_main = "queue"
  /\ \/ app_main' = "task" /\ sAppEventQueue' = <<>>
     \/ app_main' = "returned" /\ sAppEventQueue' = NoQueue
  /\ UNCHANGED <<appTask, event, hooked, button_press_handler, fate, nullPost>>

\* xTaskCreate: app_main logs the error and returns in any case.
CreateAppTask ==
  /\ app_main = "task"
  /\ app_main' = "returned"
  /\ appTask' \in {"init", "none"}
  /\ UNCHANGED <<sAppEventQueue, event, hooked, button_press_handler, fate,
                 nullPost>>

StartAppTask == CreateEventQueue \/ CreateAppTask

-----------------------------------------------------------------------------
(* AppTaskMain. *)

\* Button::Init enables the interrupt ...
ButtonInit ==
  /\ appTask = "init"
  /\ appTask' = "hooked"
  /\ hooked' = TRUE
  /\ UNCHANGED <<app_main, sAppEventQueue, event, button_press_handler, fate,
                 nullPost>>

\* ... before SetButtonPressCallback stores what it is to call.
SetButtonPressCallback ==
  /\ appTask = "hooked"
  /\ appTask' = "receive"
  /\ button_press_handler' = TRUE
  /\ UNCHANGED <<app_main, sAppEventQueue, event, hooked, fate, nullPost>>

ReceiveEvent ==
  /\ appTask = "receive"
  /\ sAppEventQueue \notin {NoQueue, <<>>}
  /\ event' = Head(sAppEventQueue)
  /\ sAppEventQueue' = Tail(sAppEventQueue)
  /\ appTask' = "dispatch"
  /\ UNCHANGED <<app_main, hooked, button_press_handler, fate, nullPost>>

\* A slip: the inner loop receives the next event before it dispatches.
DispatchEventLate ==
  /\ appTask = "dispatch"
  /\ appTask' = "receive"
  /\ event' = NoPress
  /\ IF sAppEventQueue = <<>>
     THEN /\ fate' = [fate EXCEPT ![event] = "sent"]
          /\ sAppEventQueue' = sAppEventQueue
     ELSE /\ fate' = [fate EXCEPT ![Head(sAppEventQueue)] = "sent"]
          /\ sAppEventQueue' = Tail(sAppEventQueue)
  /\ UNCHANGED <<app_main, hooked, button_press_handler, nullPost>>

\* DispatchEvent calls SwitchActionEventHandler, which allocates a block for the
\* toggle command and schedules SwitchWorkerFunction on the CHIP task.
DispatchEvent ==
  /\ appTask = "dispatch"
  /\ appTask' = "receive"
  /\ event' = NoPress
  /\ fate' = [fate EXCEPT ![event] = "sent"]
  /\ UNCHANGED <<app_main, sAppEventQueue, hooked, button_press_handler,
                 nullPost>>

AppTaskMain ==
  ButtonInit \/ SetButtonPressCallback \/ ReceiveEvent \/ DispatchEvent

-----------------------------------------------------------------------------
(* The interrupt. *)

\* A slip: the queue is taken to have a place for one more event than it has.
PostEventUnbounded(p) ==
  /\ sAppEventQueue # NoQueue
  /\ Len(sAppEventQueue) <= EventQueueSize
  /\ sAppEventQueue' = Append(sAppEventQueue, p)
  /\ fate' = [fate EXCEPT ![p] = "queued"]
  /\ UNCHANGED nullPost

\* xQueueSendFromISR does not wait: a full queue refuses the event.
PostEvent(p) ==
  \/ /\ sAppEventQueue = NoQueue
     /\ nullPost' = TRUE
     /\ fate' = [fate EXCEPT ![p] = "refused"]
     /\ UNCHANGED sAppEventQueue
  \/ /\ sAppEventQueue # NoQueue
     /\ Len(sAppEventQueue) < EventQueueSize
     /\ sAppEventQueue' = Append(sAppEventQueue, p)
     /\ fate' = [fate EXCEPT ![p] = "queued"]
     /\ UNCHANGED nullPost
  \/ /\ sAppEventQueue # NoQueue
     /\ Len(sAppEventQueue) >= EventQueueSize
     /\ fate' = [fate EXCEPT ![p] = "refused"]
     /\ UNCHANGED <<sAppEventQueue, nullPost>>

\* gpio_isr_handler does nothing as long as there is no handler.
gpio_isr_handler(p) ==
  /\ hooked
  /\ fate[p] = "none"
  /\ \/ /\ button_press_handler
        /\ PostEvent(p)
     \/ /\ ~button_press_handler
        /\ fate' = [fate EXCEPT ![p] = "ignored"]
        /\ UNCHANGED <<sAppEventQueue, nullPost>>
  /\ UNCHANGED <<app_main, appTask, event, hooked, button_press_handler>>

-----------------------------------------------------------------------------
(* Properties *)

\* What PostEvent says of itself: "Event Queue is NULL should never happen".
\* Whatever fails in StartAppTask, no interrupt posts before there is a queue.
PostFindsQueue == ~nullPost
=============================================================================
