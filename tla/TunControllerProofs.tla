------------------------ MODULE TunControllerProofs ------------------------
(* Proofs about the tunnel controller, for any number of calls and tasks:  *)
(* what holds until a call is dropped while it closes the tunnel, and what *)
(* holds though calls are.                                                 *)
EXTENDS TunController, TLAPS, FiniteSetTheorems

USE TunConstants

(* A task that has not ended is awaited by the call that signalled it, or  *)
(* its handle is in the state; the Mutex keeps these apart.                *)
Owned ==
  /\ \A t \in Task : task[t] # "ended" =>
        t = handle \/ (holder # None /\ t = joining[holder])
  /\ handle = shutdown
  /\ holder # None => handle = None
  /\ Active => serviceId = shutdown
  /\ ~Active /\ holder = None => serviceId = None

(* frpc runs only under a task that waits for it, and reads the file that  *)
(* this task has written.                                                  *)
Tended ==
  /\ \A t \in Task : child[t] # "none" => task[t] \in {"waiting", "killing"}
  /\ \A t \in Task : child[t] # "none" => config = t
  /\ \A t \in Task : child[t] \in Task => child[t] = t

(* A child was spawned after its file was written.                         *)
Configured == \A t \in Task : child[t] # "none" => config \in Task

Inv == /\ TunTypeOK
       /\ Configured
       /\ ~abandoned => Owned /\ Tended

LEMMA InvInit == TunInit => Inv
<1> SUFFICES ASSUME TunInit PROVE Inv
  OBVIOUS
<1>1. TunTypeOK /\ Configured
  BY DEF TunInit, TunTypeOK, Configured
<1>2. Owned /\ Tended
  BY DEF TunInit, Owned, Tended, Active
<1> QED
  BY <1>1, <1>2 DEF Inv

(* An abandoned close is not forgotten.                                    *)
LEMMA AbandonedStays ==
  ASSUME TunTypeOK, [TunNext]_vars, ~abandoned'
  PROVE  ~abandoned /\ \A c \in Call : ~Leave(c)
<1>1. \A c \in Call : ~Leave(c)
  BY DEF Leave
<1>2. ASSUME NEW c \in Call, ReadStatus(c) \/ Open(c) \/ Signal(c) \/ Close(c)
      PROVE  abandoned' = abandoned
  BY <1>2 DEF ReadStatus, Open, Signal, Close
<1>3. ASSUME NEW t \in Task, Supervise(t) \/ ChildReads(t) \/ ChildExits(t)
      PROVE  abandoned' = abandoned
  BY <1>3 DEF Supervise, Start, Kill, Killed, BackOff, ChildReads, ChildExits
<1>4. CASE UNCHANGED vars
  BY <1>1, <1>4 DEF vars
<1>5. CASE TunNext
  <2>1. abandoned' = abandoned
    BY <1>1, <1>2, <1>3, <1>5 DEF TunNext
  <2> QED
    BY <1>1, <2>1
<1> QED
  BY <1>4, <1>5

LEMMA TypeStep ==
  ASSUME TunTypeOK, Configured, [TunNext]_vars
  PROVE  TunTypeOK' /\ Configured'
<1> USE DEF TunTypeOK, Configured, GoTo, TaskGoes, tunState, supervised
<1>1. CASE \E c \in Call : ReadStatus(c)
  BY <1>1 DEF ReadStatus
<1>2. CASE \E c \in Call : Open(c)
  BY <1>2 DEF Open
<1>3. CASE \E c \in Call : Signal(c)
  BY <1>3 DEF Signal, Active
<1>4. CASE \E c \in Call : Close(c)
  BY <1>4 DEF Close
<1>5. CASE \E c \in Call : Leave(c)
  BY <1>5 DEF Leave
<1>6. CASE \E t \in Task : Start(t)
  BY <1>6 DEF Start
<1>7. CASE \E t \in Task : ChildReads(t)
  <2> PICK t \in Task : ChildReads(t)
    BY <1>7
  <2>1. config \in Task
    BY DEF ChildReads
  <2> QED
    BY <2>1 DEF ChildReads
<1>8. CASE \E t \in Task : ChildExits(t) \/ Killed(t)
  BY <1>8 DEF ChildExits, Killed
<1>9. CASE \E t \in Task : Kill(t) \/ BackOff(t)
  BY <1>9 DEF Kill, BackOff
<1>10. CASE UNCHANGED vars
  BY <1>10 DEF vars
<1> QED
  BY <1>1, <1>2, <1>3, <1>4, <1>5, <1>6, <1>7, <1>8, <1>9, <1>10 DEF TunNext, Supervise

LEMMA OwnedStep ==
  ASSUME TunTypeOK, Owned, Tended, [TunNext]_vars, \A c \in Call : ~Leave(c)
  PROVE  Owned'
<1> USE DEF TunTypeOK, Owned, Active, GoTo, TaskGoes, tunState, supervised
<1>1. CASE \E c \in Call : ReadStatus(c)
  BY <1>1 DEF ReadStatus
<1>2. CASE \E c \in Call : Open(c)
  <2> PICK c \in Call : Open(c)
    BY <1>2
  <2>1. CASE Active
    BY <2>1 DEF Open
  <2>2. CASE ~Active
    <3>1. \A t \in Task : task[t] = "ended"
      BY <2>2 DEF Open
    <3> QED
      BY <2>2, <3>1 DEF Open
  <2> QED
    BY <2>1, <2>2
<1>3. CASE \E c \in Call : Signal(c)
  BY <1>3 DEF Signal
<1>4. CASE \E c \in Call : Close(c)
  <2> PICK c \in Call : Close(c)
    BY <1>4
  <2>1. holder = c /\ handle = None /\ shutdown = None
    BY DEF Close
  <2>2. \A t \in Task : task[t] = "ended"
    BY <2>1 DEF Close, Joined
  <2> QED
    BY <2>1, <2>2 DEF Close
<1>6. CASE \E t \in Task : Start(t)
  BY <1>6 DEF Start
<1>7. CASE \E t \in Task : ChildReads(t)
  BY <1>7 DEF ChildReads
<1>8. CASE \E t \in Task : ChildExits(t) \/ Killed(t)
  BY <1>8 DEF ChildExits, Killed
<1>9. CASE \E t \in Task : Kill(t) \/ BackOff(t)
  BY <1>9 DEF Kill, BackOff
<1>10. CASE UNCHANGED vars
  BY <1>10 DEF vars
<1> QED
  BY <1>1, <1>2, <1>3, <1>4, <1>6, <1>7, <1>8, <1>9, <1>10 DEF TunNext, Supervise

(* The ids of two tasks that have not ended are the same.                  *)
LEMMA OneTask ==
  ASSUME TunTypeOK, Owned, NEW t \in Task, NEW u \in Task, task[t] # "ended", task[u] # "ended"
  PROVE  t = u
BY DEF TunTypeOK, Owned

LEMMA TendedStep ==
  ASSUME TunTypeOK, Owned, Tended, [TunNext]_vars, \A c \in Call : ~Leave(c)
  PROVE  Tended'
<1> USE DEF TunTypeOK, Tended, GoTo, TaskGoes, tunState, supervised
<1>1. CASE \E c \in Call : ReadStatus(c) \/ Signal(c) \/ Close(c)
  BY <1>1 DEF ReadStatus, Signal, Close
<1>2. CASE \E c \in Call : Open(c)
  BY <1>2 DEF Open
<1>3. CASE \E t \in Task : Start(t)
  <2> PICK t \in Task : Start(t)
    BY <1>3
  <2>1. \A u \in Task : child[u] = "none"
    BY OneTask DEF Start
  <2> QED
    BY <2>1 DEF Start
<1>4. CASE \E t \in Task : ChildReads(t)
  <2> PICK t \in Task : ChildReads(t)
    BY <1>4
  <2>1. config = t
    BY DEF ChildReads
  <2> QED
    BY <2>1 DEF ChildReads
<1>5. CASE \E t \in Task : ChildExits(t) \/ Killed(t)
  BY <1>5 DEF ChildExits, Killed
<1>6. CASE \E t \in Task : Kill(t) \/ BackOff(t)
  BY <1>6 DEF Kill, BackOff
<1>7. CASE UNCHANGED vars
  BY <1>7 DEF vars
<1> QED
  BY <1>1, <1>2, <1>3, <1>4, <1>5, <1>6, <1>7 DEF TunNext, Supervise

(* The strengthened invariant of the controller and its tasks.             *)
THEOREM ControllerInvariant == TunSpec => []Inv
<1>1. Inv /\ [TunNext]_vars => Inv'
  <2> SUFFICES ASSUME Inv, [TunNext]_vars PROVE Inv'
    OBVIOUS
  <2>1. TunTypeOK' /\ Configured'
    BY TypeStep DEF Inv
  <2>2. ASSUME ~abandoned' PROVE Owned' /\ Tended'
    <3>1. ~abandoned /\ \A c \in Call : ~Leave(c)
      BY <2>2, AbandonedStays DEF Inv
    <3> QED
      BY <3>1, OwnedStep, TendedStep DEF Inv
  <2> QED
    BY <2>1, <2>2 DEF Inv
<1> QED
  BY <1>1, InvInit, PTL DEF TunSpec

(* Every variable of the controller, its callers and its tasks keeps its   *)
(* type: the part of the invariant that no abandoned close ends.           *)
THEOREM TunTypeCorrect == TunSpec => []TunTypeOK
<1>1. Inv => TunTypeOK
  BY DEF Inv
<1> QED
  BY <1>1, ControllerInvariant, PTL

-----------------------------------------------------------------------------
(* What holds though calls are dropped while they close the tunnel.        *)

(* frpc has a task that waits for it, and a task that has not ended can be *)
(* told to by the controller, or has been told.                            *)
Watched ==
  \A t \in Task :
    /\ child[t] # "none" => task[t] \in {"waiting", "killing"}
    /\ task[t] # "ended" => shutdown = t \/ t \in signalled

(* A frpc whose file, or whose id, is that of another task has been told   *)
(* to end, or the other has.                                               *)
Named ==
  \A t \in Task : child[t] # "none" =>
    /\ config = t \/ t \in signalled \/ config \in signalled
    /\ child[t] \in Task => child[t] = t \/ t \in signalled \/ child[t] \in signalled

LEMMA WatchedStep ==
  ASSUME TunTypeOK, Watched, [TunNext]_vars
  PROVE  Watched'
<1> USE DEF TunTypeOK, Watched, Active, GoTo, TaskGoes, tunState, supervised
<1>1. CASE \E c \in Call : ReadStatus(c) \/ Close(c) \/ Leave(c)
  BY <1>1 DEF ReadStatus, Close, Leave
<1>2. CASE \E c \in Call : Open(c)
  BY <1>2 DEF Open
<1>3. CASE \E c \in Call : Signal(c)
  BY <1>3 DEF Signal
<1>4. ASSUME NEW t \in Task, Start(t)
      PROVE  Watched'
  BY <1>4 DEF Start
<1>5. ASSUME NEW t \in Task, Kill(t) \/ BackOff(t)
      PROVE  Watched'
  BY <1>5 DEF Kill, BackOff
<1>6. ASSUME NEW t \in Task, Killed(t) \/ ChildReads(t) \/ ChildExits(t)
      PROVE  Watched'
  BY <1>6 DEF Killed, ChildReads, ChildExits
<1>7. CASE UNCHANGED vars
  BY <1>7 DEF vars
<1> QED
  BY <1>1, <1>2, <1>3, <1>4, <1>5, <1>6, <1>7 DEF TunNext, Supervise

(* No frpc is forgotten, even if the call that closes its tunnel is        *)
(* dropped: its task is there, and the controller holds the sender of its  *)
(* signal or the signal was sent.                                          *)
THEOREM EveryChildIsWatched == TunSpec => []Watched
<1>1. TunInit => Watched
  BY DEF TunInit, Watched
<1>2. TunTypeOK /\ Watched /\ [TunNext]_vars => Watched'
  BY WatchedStep
<1> QED
  BY <1>1, <1>2, TunTypeCorrect, PTL DEF TunSpec

LEMMA NamedStep ==
  ASSUME TunTypeOK, Configured, Watched, Named, [TunNext]_vars
  PROVE  Named'
<1> USE DEF TunTypeOK, Watched, Named, Active, GoTo, TaskGoes, tunState, supervised
<1>1. CASE \E c \in Call : ReadStatus(c) \/ Close(c) \/ Leave(c)
  BY <1>1 DEF ReadStatus, Close, Leave
<1>2. CASE \E c \in Call : Open(c)
  BY <1>2 DEF Open
<1>3. CASE \E c \in Call : Signal(c)
  BY <1>3 DEF Signal
<1>4. ASSUME NEW t \in Task, Start(t)
      PROVE  Named'
  BY <1>4 DEF Start
<1>5. ASSUME NEW t \in Task, Kill(t) \/ BackOff(t)
      PROVE  Named'
  BY <1>5 DEF Kill, BackOff
<1>6. ASSUME NEW t \in Task, Killed(t) \/ ChildExits(t)
      PROVE  Named'
  BY <1>6 DEF Killed, ChildExits
<1>7. ASSUME NEW t \in Task, ChildReads(t)
      PROVE  Named'
  BY <1>7 DEF ChildReads, Configured
<1>8. CASE UNCHANGED vars
  BY <1>8 DEF vars
<1> QED
  BY <1>1, <1>2, <1>3, <1>4, <1>5, <1>6, <1>7, <1>8 DEF TunNext, Supervise

LEMMA EveryChildIsNamed == TunSpec => []Named
<1>1. TunInit => Named
  BY DEF TunInit, Named
<1>2. Inv /\ Watched /\ Named /\ [TunNext]_vars => Named'
  BY NamedStep DEF Inv
<1> QED
  BY <1>1, <1>2, ControllerInvariant, EveryChildIsWatched, PTL DEF TunSpec

-----------------------------------------------------------------------------
(* An inactive controller that no call is closing has no frpc but what was *)
(* told to end, and none at all unless a close was abandoned.              *)
THEOREM ClosedMeansClosed == TunSpec => []InactiveMeansClosed
<1>1. Inv /\ Watched => InactiveMeansClosed
  <2> SUFFICES ASSUME Inv, Watched, ~Active, holder = None
               PROVE  /\ Alive \subseteq signalled
                      /\ ~abandoned => serviceId = None /\ Alive = {}
    BY DEF InactiveMeansClosed
  <2>1. Alive \subseteq signalled
    BY DEF Watched, Active, Alive
  <2>2. ASSUME ~abandoned PROVE serviceId = None /\ Alive = {}
    <3>1. \A t \in Task : task[t] = "ended"
      BY <2>2 DEF Inv, TunTypeOK, Owned, Active
    <3> QED
      BY <2>2, <3>1 DEF Inv, Owned, Tended, Alive
  <2> QED
    BY <2>1, <2>2
<1> QED
  BY <1>1, ControllerInvariant, EveryChildIsWatched, PTL

(* A set with no two different elements has one at most.                   *)
LEMMA AtMostOne ==
  ASSUME NEW S, \A t \in S : \A u \in S : t = u
  PROVE  Cardinality(S) <= 1
<1>1. CASE S = {}
  BY <1>1, FS_EmptySet
<1>2. CASE \E t \in S : TRUE
  <2> PICK t \in S : TRUE
    BY <1>2
  <2>1. S = {t}
    OBVIOUS
  <2>2. Cardinality({t}) = 1
    BY FS_Singleton
  <2> QED
    BY <2>1, <2>2
<1> QED
  BY <1>1, <1>2

(* Never two frpc that stay, and two at a time only when a close was       *)
(* abandoned, whoever toggles.                                             *)
THEOREM NeverTwoTunnels == TunSpec => []OneTunnelAtATime
<1>1. Inv /\ Watched => OneTunnelAtATime
  <2> SUFFICES ASSUME Inv, Watched PROVE OneTunnelAtATime
    OBVIOUS
  <2>1. ASSUME ~abandoned PROVE Cardinality(Alive) <= 1
    <3>1. \A t \in Alive : \A u \in Alive : t = u
      BY <2>1, OneTask DEF Alive, Inv, Tended
    <3> QED
      BY <3>1, AtMostOne
  <2>2. \A t \in Alive \ signalled : \A u \in Alive \ signalled : t = u
    BY DEF Watched, Alive
  <2>3. Cardinality(Alive \ signalled) <= 1
    BY <2>2, AtMostOne
  <2> QED
    BY <2>1, <2>3 DEF OneTunnelAtATime
<1> QED
  BY <1>1, ControllerInvariant, EveryChildIsWatched, PTL

(* The frpc that runs serves the id the status reports; one that does not  *)
(* met a task of an abandoned close, and one of the two was told to end.   *)
THEOREM StatusIsTrue == TunSpec => []StatusNamesTheTunnel
<1>1. Inv /\ Named => StatusNamesTheTunnel
  BY DEF Inv, TunTypeOK, Owned, Tended, Named, Active, StatusNamesTheTunnel
<1> QED
  BY <1>1, ControllerInvariant, EveryChildIsNamed, PTL

-----------------------------------------------------------------------------
(* How many steps a task that was told to end still takes.                 *)
StepsToEnd == [starting |-> 4, waiting |-> 3, killing |-> 2, backoff |-> 1, ended |-> 0]

(* A task that was told to end only goes there: it is not told otherwise,  *)
(* and starts frpc once more at most, if the signal found it starting.     *)
THEOREM SignalledTasksEnd ==
  TunSpec => [][\A t \in Task : t \in signalled /\ task[t] # "ended" =>
                  /\ t \in signalled'
                  /\ StepsToEnd[task'[t]] <= StepsToEnd[task[t]]
                  /\ Supervise(t) => StepsToEnd[task'[t]] < StepsToEnd[task[t]]]_vars
<1>1. TunTypeOK /\ TunTypeOK' /\ [TunNext]_vars
        => [\A t \in Task : t \in signalled /\ task[t] # "ended" =>
              /\ t \in signalled'
              /\ StepsToEnd[task'[t]] <= StepsToEnd[task[t]]
              /\ Supervise(t) => StepsToEnd[task'[t]] < StepsToEnd[task[t]]]_vars
  <2> SUFFICES ASSUME TunTypeOK, TunTypeOK', [TunNext]_vars, NEW t \in Task,
                      t \in signalled, task[t] # "ended"
               PROVE  /\ t \in signalled'
                      /\ StepsToEnd[task'[t]] <= StepsToEnd[task[t]]
                      /\ Supervise(t) => StepsToEnd[task'[t]] < StepsToEnd[task[t]]
    OBVIOUS
  <2>1. t \in signalled'
    BY DEF TunNext, ReadStatus, Open, Signal, Close, Leave, Supervise, Start, Kill, Killed,
           BackOff, ChildReads, ChildExits, vars
  <2>2. CASE Supervise(t)
    <3>1. \/ task[t] = "starting" /\ task'[t] \in {"waiting", "backoff"}
          \/ task[t] = "waiting" /\ task'[t] = "killing"
          \/ task[t] \in {"killing", "backoff"} /\ task'[t] = "ended"
      BY <2>2 DEF Supervise, Start, Kill, Killed, BackOff, TaskGoes, TunTypeOK
    <3> QED
      BY <2>1, <3>1 DEF StepsToEnd
  <2>3. CASE ChildExits(t)
    <3>1. task[t] = "waiting" /\ task'[t] = "backoff"
      BY <2>3 DEF ChildExits, TaskGoes, TunTypeOK
    <3>2. ~Supervise(t)
      BY <2>3 DEF ChildExits, TaskGoes, TunTypeOK, Supervise, Start, Kill, Killed, BackOff
    <3> QED
      BY <2>1, <3>1, <3>2 DEF StepsToEnd
  <2>4. CASE ~Supervise(t) /\ ~ChildExits(t)
    <3>1. task'[t] = task[t]
      BY <2>4 DEF TunNext, ReadStatus, Open, Signal, Close, Leave, Supervise, Start, Kill,
         Killed, BackOff, ChildReads, ChildExits, vars, TaskGoes, TunTypeOK, supervised
    <3> QED
      BY <2>1, <2>4, <3>1 DEF StepsToEnd, TunTypeOK
  <2> QED
    BY <2>2, <2>3, <2>4
<1> QED
  BY <1>1, TunTypeCorrect, PTL DEF TunSpec
=============================================================================
