--------------------------- MODULE TunController ---------------------------
(***************************************************************************)
(* The tunnel controller of the agent, crates/agent/src/tun_controller.rs, *)
(* with the supervisor task of a frpc child, crates/agent/src/frpc.rs, and *)
(* the handlers that switch the tunnel, handlers/admin/tun.rs.             *)
(*                                                                         *)
(* The controller's state is behind a Mutex.  open holds it without an     *)
(* await, so it is one step; close holds it while it waits for the task it *)
(* has signalled, and may be dropped there, as any handler may when its    *)
(* client goes away.  A task is the service id it was started with: each   *)
(* open makes a new one.                                                   *)
(***************************************************************************)
EXTENDS Naturals, FiniteSets

CONSTANTS
  Call,         \* calls of the toggle handler in flight at one time
  Task,         \* service ids, and the tasks that supervise their child
  None          \* no id, no holder

ASSUME TunConstants ==
  /\ None \notin Call \cup Task
  /\ "none" \notin Task /\ "launched" \notin Task

VARIABLES
  holder,       \* the call that holds the Mutex across an await
  serviceId,    \* TunState.service_id
  shutdown,     \* TunState.shutdown_tx: the task it signals, or None
  handle,       \* TunState.task_handle: the task it waits for, or None
  task,         \* where each supervisor task stands
  signalled,    \* tasks that have been sent true, or whose sender is gone
  child,        \* frpc of each task: "none", "launched", or the id it serves
  config,       \* the id that frpc.toml was last written for
  at,           \* where each call stands
  joining,      \* the task each call waits for
  abandoned     \* a call was dropped while it closed the tunnel (history)

tunState   == <<serviceId, shutdown, handle>>
supervised == <<task, child, config>>
vars == <<holder, tunState, supervised, signalled, at, joining, abandoned>>

TunInit ==
  /\ holder    = None
  /\ serviceId = None /\ shutdown = None /\ handle = None
  /\ task      = [t \in Task |-> "ended"]
  /\ signalled = {}
  /\ child     = [t \in Task |-> "none"]
  /\ config    = None
  /\ at        = [c \in Call |-> "idle"]
  /\ joining   = [c \in Call |-> None]
  /\ abandoned = FALSE

-----------------------------------------------------------------------------
(* A call of the toggle handler: the status is read under one lock, and    *)
(* acted on under another.                                                 *)

Active == shutdown # None

GoTo(c, where) == at' = [at EXCEPT ![c] = where]

ReadStatus(c) ==
  /\ at[c] = "idle" /\ holder = None
  /\ GoTo(c, IF Active THEN "close" ELSE "open")
  /\ UNCHANGED <<holder, tunState, supervised, signalled, joining, abandoned>>

(* Wrong: open does not look whether the tunnel is open.                   *)
OpenAgain(c) ==
  /\ at[c] = "open" /\ holder = None
  /\ \E t \in Task :
       /\ task[t] = "ended" /\ child[t] = "none"
       /\ serviceId' = t /\ shutdown' = t /\ handle' = t
       /\ task' = [task EXCEPT ![t] = "starting"]
       /\ signalled' = signalled \ {t}
  /\ GoTo(c, "idle")
  /\ UNCHANGED <<holder, child, config, joining, abandoned>>

(* If the tunnel is open by now, it stays as it is.                        *)
Open(c) ==
  /\ at[c] = "open" /\ holder = None
  /\ \/ Active /\ UNCHANGED <<tunState, task, signalled>>
     \/ /\ ~Active
        /\ \E t \in Task :
             /\ task[t] = "ended" /\ child[t] = "none"
             /\ serviceId' = t /\ shutdown' = t /\ handle' = t
             /\ task' = [task EXCEPT ![t] = "starting"]
             /\ signalled' = signalled \ {t}
  /\ GoTo(c, "idle")
  /\ UNCHANGED <<holder, child, config, joining, abandoned>>

(* Wrong: the lock is released before the task is awaited.                 *)
SignalUnlocked(c) ==
  /\ at[c] = "close" /\ holder = None
  /\ signalled' = IF Active THEN signalled \cup {shutdown} ELSE signalled
  /\ joining'   = [joining EXCEPT ![c] = handle]
  /\ shutdown'  = None /\ handle' = None
  /\ GoTo(c, "join")
  /\ UNCHANGED <<holder, serviceId, supervised, abandoned>>

(* The sender is used and dropped, the handle is taken and awaited.        *)
Signal(c) ==
  /\ at[c] = "close" /\ holder = None
  /\ holder'    = c
  /\ signalled' = IF Active THEN signalled \cup {shutdown} ELSE signalled
  /\ joining'   = [joining EXCEPT ![c] = handle]
  /\ shutdown'  = None /\ handle' = None
  /\ GoTo(c, "join")
  /\ UNCHANGED <<serviceId, supervised, abandoned>>

(* Wrong: close does not wait for the task.                                *)
JoinedAtOnce(c) == TRUE

Joined(c) == joining[c] # None => task[joining[c]] = "ended"

Close(c) ==
  /\ at[c] = "join" /\ Joined(c)
  /\ serviceId' = None
  /\ holder'    = None
  /\ joining'   = [joining EXCEPT ![c] = None]
  /\ GoTo(c, "idle")
  /\ UNCHANGED <<shutdown, handle, supervised, signalled, abandoned>>

(* The handler's future is dropped while it waits: the lock is released    *)
(* and the task goes on without its handle.                                *)
Leave(c) ==
  /\ at[c] = "join"
  /\ abandoned' = TRUE
  /\ holder'  = None
  /\ joining' = [joining EXCEPT ![c] = None]
  /\ GoTo(c, "idle")
  /\ UNCHANGED <<tunState, supervised, signalled>>

-----------------------------------------------------------------------------
(* supervise_frpc.  A watch channel keeps its last value, so a signal sent *)
(* at any time is seen by the next select.                                 *)

TaskGoes(t, where) == task' = [task EXCEPT ![t] = where]

Start(t) ==
  /\ task[t] = "starting"
  /\ config' = t
  /\ \/ child' = [child EXCEPT ![t] = "launched"] /\ TaskGoes(t, "waiting")
     \/ UNCHANGED child /\ TaskGoes(t, "backoff")           \* spawn fails
  /\ UNCHANGED <<holder, tunState, signalled, at, joining, abandoned>>

(* The child reads its configuration some time after it was spawned.       *)
ChildReads(t) ==
  /\ child[t] = "launched"
  /\ child' = [child EXCEPT ![t] = config]
  /\ UNCHANGED <<holder, tunState, task, config, signalled, at, joining, abandoned>>

ChildExits(t) ==
  /\ child[t] # "none" /\ task[t] = "waiting"
  /\ child' = [child EXCEPT ![t] = "none"]
  /\ TaskGoes(t, "backoff")
  /\ UNCHANGED <<holder, tunState, config, signalled, at, joining, abandoned>>

(* The signal wins the select: the child is killed and waited for.         *)
Kill(t) ==
  /\ task[t] = "waiting" /\ t \in signalled
  /\ TaskGoes(t, "killing")
  /\ UNCHANGED <<holder, tunState, child, config, signalled, at, joining, abandoned>>

Killed(t) ==
  /\ task[t] = "killing"
  /\ child' = [child EXCEPT ![t] = "none"]
  /\ TaskGoes(t, "ended")
  /\ UNCHANGED <<holder, tunState, config, signalled, at, joining, abandoned>>

(* Wrong: a task that backs off has forgotten the signal.                  *)
BackOffDeaf(t) ==
  /\ task[t] = "backoff"
  /\ TaskGoes(t, "starting")
  /\ UNCHANGED <<holder, tunState, child, config, signalled, at, joining, abandoned>>

(* Wrong: the task gives up when its child has gone.                       *)
BackOffOnce(t) ==
  /\ task[t] = "backoff"
  /\ TaskGoes(t, "ended")
  /\ UNCHANGED <<holder, tunState, child, config, signalled, at, joining, abandoned>>

(* Five seconds, or the signal.                                            *)
BackOff(t) ==
  /\ task[t] = "backoff"
  /\ TaskGoes(t, IF t \in signalled THEN "ended" ELSE "starting")
  /\ UNCHANGED <<holder, tunState, child, config, signalled, at, joining, abandoned>>

Supervise(t) == Start(t) \/ Kill(t) \/ Killed(t) \/ BackOff(t)

TunNext ==
  \/ \E c \in Call : ReadStatus(c) \/ Open(c) \/ Signal(c) \/ Close(c) \/ Leave(c)
  \/ \E t \in Task : Supervise(t) \/ ChildReads(t) \/ ChildExits(t)

TunSpec == TunInit /\ [][TunNext]_vars

(* Tasks run, a call that was woken goes on, and a child that was spawned  *)
(* reads its file.                                                         *)
FairTunSpec ==
  /\ TunSpec
  /\ \A t \in Task : WF_vars(Supervise(t)) /\ WF_vars(ChildReads(t))
  /\ \A t \in Task : SF_vars(Start(t) /\ child'[t] = "launched")
  /\ \A c \in Call : WF_vars(Close(c))

-----------------------------------------------------------------------------
TunTypeOK ==
  /\ holder    \in Call \cup {None}
  /\ serviceId \in Task \cup {None}
  /\ shutdown  \in Task \cup {None}
  /\ handle    \in Task \cup {None}
  /\ task      \in [Task -> {"ended", "starting", "waiting", "killing", "backoff"}]
  /\ signalled \subseteq Task
  /\ child     \in [Task -> {"none", "launched"} \cup Task]
  /\ config    \in Task \cup {None}
  /\ at        \in [Call -> {"idle", "open", "close", "join"}]
  /\ joining   \in [Call -> Task \cup {None}]
  /\ abandoned \in BOOLEAN
  /\ \A c \in Call : at[c] = "join" <=> holder = c

Alive == {t \in Task : child[t] # "none"}

(* "Close: send the signal, wait for frpc to exit" (tun_controller.rs:78): *)
(* an inactive controller that no call is closing names no service and has *)
(* no frpc.  It takes that every close is waited for to its end: a call    *)
(* that is dropped meanwhile leaves the id in the state and frpc running,  *)
(* but only frpc whose task has been told to end.                          *)
InactiveMeansClosed ==
  ~Active /\ holder = None =>
    /\ Alive \subseteq signalled
    /\ ~abandoned => serviceId = None /\ Alive = {}

(* One frpc at a time, whoever toggles: all of them share frpc.toml, and   *)
(* in TCP mode one remote port.  When a close was abandoned a new one may  *)
(* start before the old one has been killed; never a second one that stays.*)
OneTunnelAtATime ==
  /\ ~abandoned => Cardinality(Alive) <= 1
  /\ Cardinality(Alive \ signalled) <= 1

(* The frpc that runs serves the id that the controller reports, so the    *)
(* url in the status leads somewhere.  With two tasks at a time, as after  *)
(* an abandoned close, a child may read the file written for the other;    *)
(* one of the two has been told to end.                                    *)
StatusNamesTheTunnel ==
  \A t \in Task : child[t] \in Task =>
    /\ child[t] = t \/ t \in signalled \/ child[t] \in signalled
    /\ ~abandoned => child[t] = t /\ (Active => serviceId = t)

(* A call that closes the tunnel returns, and frpc is gone: the task sees  *)
(* the signal in whichever state it is, though the call be dropped before. *)
CloseReturns ==
  /\ holder # None ~> holder = None
  /\ \A t \in Task : t \in signalled ~> task[t] = "ended" /\ child[t] = "none"

(* "Watch the child, restart it when it crashes" (design 13.5): an open    *)
(* tunnel whose frpc is gone gets another one, or is closed.               *)
TunnelIsRestarted ==
  \A t \in Task : shutdown = t ~> child[t] # "none" \/ t \in signalled
=============================================================================
