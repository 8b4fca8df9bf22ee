------------------------------ MODULE LocTimer ------------------------------
(***************************************************************************)
(* The timer service of the GNSS HAL (utils/LocTimer.cpp).  A LocTimer     *)
(* that is started owns a delegate, which waits in the heap of one of the  *)
(* containers ("sw" timers, "hw" alarms).  A container arms one kernel     *)
(* timer for the soonest delegate of its heap.                             *)
(*                                                                         *)
(* Three kinds of threads: the clients, which start and stop timers under  *)
(* each timer's lock; the poll thread, which sees a kernel timer fire,     *)
(* disarms it and posts Expire; and the message thread, which alone        *)
(* touches the heaps, arms the kernel timers and calls the clients back.   *)
(* A heap is the set of its delegates, of which the top is one of the      *)
(* soonest.                                                                *)
(***************************************************************************)
EXTENDS Naturals, Sequences

CONSTANTS
  Timer,            \* LocTimer objects
  Delegate,         \* LocTimerDelegate objects, each used once
  Container,        \* the containers, each with its kernel timer
  Delays,           \* the time-outs clients ask for
  MaxTime,          \* bound on the clock
  None              \* no object

ASSUME NoneAssumption == None \notin Timer \cup Delegate \cup Nat
ASSUME DelaysAssumption == Delays \subseteq Nat
ASSUME MaxTimeAssumption == MaxTime \in Nat

VARIABLES
  now,              \* CLOCK_BOOTTIME
  mTimer,           \* LocTimer: the delegate of the running timer
  mClient,          \* LocTimerDelegate: its timer, until it is stopped
  mFutureTime,      \* LocTimerDelegate: when it is due
  home,             \* LocTimerDelegate: its container
  life,             \* LocTimerDelegate: not yet created, in use, deleted
  heap,             \* LocTimerContainer: the delegates in its heap
  queue,            \* the messages of the timer MsgTask
  task,             \* where the message thread is
  fd,               \* what each kernel timer is armed for
  polled,           \* whether the poll thread listens to it
  firing,           \* how far the poll thread is with its expiry
  stopped,          \* delegates whose client was told by stop() that it stopped them
  calledBack        \* delegates whose client was called back

objects == <<mTimer, mClient, mFutureTime, home>>
kernel == <<fd, polled>>
history == <<stopped, calledBack>>
vars == <<now, objects, life, heap, queue, task, kernel, firing, history>>

PushMsg(d) == [kind |-> "Push", timer |-> d]
RemoveMsg(d) == [kind |-> "Remove", timer |-> d]
ExpireMsg(c) == [kind |-> "Expire", container |-> c]

Message == [kind : {"Push", "Remove"}, timer : Delegate] \cup [kind : {"Expire"}, container : Container]

(* The message thread: between messages; arming a container's timer;       *)
(* with a delegate popped by the expiry of a container at time at, about  *)
(* to stop its client; about to call back for the delegate it stopped;    *)
(* ready to pop the next.                                                  *)
Idle == [pc |-> "idle"]
Arming(c, t) == [pc |-> "arming", c |-> c, at |-> t]
Expiring(c, t, d, l) == [pc |-> "expiring", c |-> c, at |-> t, timer |-> d, client |-> l]
Calling(c, t, s) == [pc |-> "calling", c |-> c, at |-> t, stopped |-> s]
Looping(c, t) == [pc |-> "looping", c |-> c, at |-> t]

Task ==
  [pc : {"idle"}] \cup [pc : {"arming", "looping"}, c : Container, at : Nat]
    \cup [pc : {"expiring"}, c : Container, at : Nat, timer : Delegate, client : Timer]
    \cup [pc : {"calling"}, c : Container, at : Nat, stopped : Delegate]

Init ==
  /\ now = 0
  /\ mTimer = [t \in Timer |-> None]
  /\ mClient = [d \in Delegate |-> None]
  /\ mFutureTime = [d \in Delegate |-> 0]
  /\ home = [d \in Delegate |-> None]
  /\ life = [d \in Delegate |-> "unborn"]
  /\ heap = [c \in Container |-> {}]
  /\ queue = <<>>
  /\ task = Idle
  /\ fd = [c \in Container |-> None]
  /\ polled = [c \in Container |-> FALSE]
  /\ firing = [c \in Container |-> "no"]
  /\ stopped = {}
  /\ calledBack = {}

-----------------------------------------------------------------------------
(* The clients.  start() and stop() run under the timer's lock.            *)

Start(t, d, c, delay) ==
  /\ mTimer[t] = None
  /\ life[d] = "unborn"
  /\ now + delay <= MaxTime
  /\ mTimer' = [mTimer EXCEPT ![t] = d]
  /\ mClient' = [mClient EXCEPT ![d] = t]
  /\ mFutureTime' = [mFutureTime EXCEPT ![d] = now + delay]
  /\ home' = [home EXCEPT ![d] = c]
  /\ life' = [life EXCEPT ![d] = "live"]
  /\ queue' = Append(queue, PushMsg(d))
  /\ UNCHANGED <<now, heap, task, kernel, firing, history>>

(* stop() of a running timer, destroyLocked() of its delegate.             *)
StopTimer(t) ==
  /\ mTimer[t] # None
  /\ mTimer' = [mTimer EXCEPT ![t] = None]
  /\ mClient' = [mClient EXCEPT ![mTimer[t]] = None]
  /\ queue' = Append(queue, RemoveMsg(mTimer[t]))
  /\ UNCHANGED <<mFutureTime, home>>

Stop(t) ==
  /\ StopTimer(t)
  /\ stopped' = stopped \cup {mTimer[t]}
  /\ UNCHANGED <<now, life, heap, task, kernel, firing, calledBack>>

-----------------------------------------------------------------------------
(* The message thread.                                                     *)

Soonest(S) == {d \in S : \A e \in S : mFutureTime[d] <= mFutureTime[e]}

Receive(kind) == task = Idle /\ queue # <<>> /\ Head(queue).kind = kind
Done == queue' = Tail(queue)

(* updateSoonestTime: the poll is added first and the time set after it.   *)
Rearm(c, S) ==
  IF S = {} THEN task' = Idle /\ UNCHANGED polled
  ELSE /\ \E d \in Soonest(S) : task' = Arming(c, mFutureTime[d])
       /\ polled' = [polled EXCEPT ![c] = TRUE]

ProcPush ==
  /\ Receive("Push")
  /\ LET d == Head(queue).timer
         c == home[d]
     IN /\ heap' = [heap EXCEPT ![c] = @ \cup {d}]
        /\ IF \A e \in heap[c] : mFutureTime[d] < mFutureTime[e]
           THEN Rearm(c, {d})
           ELSE UNCHANGED <<task, polled>>
  /\ Done
  /\ UNCHANGED <<now, objects, life, fd, firing, history>>

(* Removed or not, the delegate is deleted.  The kernel timer is set anew  *)
(* if it was the top.                                                      *)
ProcRemove ==
  /\ Receive("Remove")
  /\ LET d == Head(queue).timer
         c == home[d]
     IN /\ heap' = [heap EXCEPT ![c] = @ \ {d}]
        /\ \/ d \in Soonest(heap[c]) /\ Rearm(c, heap[c] \ {d})
           \/ Soonest(heap[c]) # {d} /\ UNCHANGED <<task, polled>>
        /\ life' = [life EXCEPT ![d] = "deleted"]
  /\ Done
  /\ UNCHANGED <<now, objects, fd, firing, history>>

ArmTimer ==
  /\ task.pc = "arming"
  /\ fd' = [fd EXCEPT ![task.c] = task.at]
  /\ task' = Idle
  /\ UNCHANGED <<now, objects, life, heap, queue, polled, firing, history>>

(* Popping a delegate reads its client without the lock.                   *)
PopTimer(c, t) ==
  \E d \in Soonest(heap[c]) :
    /\ heap' = [heap EXCEPT ![c] = @ \ {d}]
    /\ task' = IF mClient[d] = None THEN Looping(c, t) ELSE Expiring(c, t, d, mClient[d])

(* The first delegate is popped whatever its time.                         *)
ProcExpire ==
  /\ Receive("Expire")
  /\ LET c == Head(queue).container
     IN IF heap[c] = {} THEN UNCHANGED <<heap, task>> ELSE PopTimer(c, now)
  /\ Done
  /\ UNCHANGED <<now, objects, life, kernel, firing, history>>

PopNext ==
  /\ task.pc = "looping"
  /\ \E d \in Soonest(heap[task.c]) : mFutureTime[d] <= task.at
  /\ PopTimer(task.c, task.at)
  /\ UNCHANGED <<now, objects, life, queue, kernel, firing, history>>

(* Mutant: the kernel timer is not set for the delegates that are left.    *)
EndExpireNoRearm ==
  /\ task.pc = "looping"
  /\ \A d \in Soonest(heap[task.c]) : mFutureTime[d] > task.at
  /\ task' = Idle
  /\ UNCHANGED <<now, objects, life, heap, queue, kernel, firing, history>>

EndExpire ==
  /\ task.pc = "looping"
  /\ \A d \in Soonest(heap[task.c]) : mFutureTime[d] > task.at
  /\ Rearm(task.c, heap[task.c])
  /\ UNCHANGED <<now, objects, life, heap, queue, fd, firing, history>>

(* Mutant: the client is called back although it had stopped the timer.    *)
ExpireStopAlways ==
  /\ task.pc = "expiring"
  /\ \/ /\ StopTimer(task.client)
        /\ task' = Calling(task.c, task.at, mTimer[task.client])
     \/ /\ mTimer[task.client] = None
        /\ task' = Calling(task.c, task.at, task.timer)
        /\ UNCHANGED <<objects, queue>>
  /\ UNCHANGED <<now, life, heap, kernel, firing, history>>

(* expire(): whatever delegate the client has now is stopped; if there is  *)
(* one the client is called back.                                          *)
ExpireStop ==
  /\ task.pc = "expiring"
  /\ \/ /\ StopTimer(task.client)
        /\ task' = Calling(task.c, task.at, mTimer[task.client])
     \/ /\ mTimer[task.client] = None
        /\ task' = Looping(task.c, task.at)
        /\ UNCHANGED <<objects, queue>>
  /\ UNCHANGED <<now, life, heap, kernel, firing, history>>

TimeOutCallback ==
  /\ task.pc = "calling"
  /\ calledBack' = calledBack \cup {task.stopped}
  /\ task' = Looping(task.c, task.at)
  /\ UNCHANGED <<now, objects, life, heap, queue, kernel, firing, stopped>>

MsgTask ==
  \/ ProcPush \/ ProcRemove \/ ProcExpire
  \/ ArmTimer \/ PopNext \/ EndExpire \/ ExpireStop \/ TimeOutCallback

-----------------------------------------------------------------------------
(* The poll thread: epoll_wait reports the timers that have fired; each is *)
(* disarmed, taken out of the poll and its expiry posted.                  *)

Fired(c) == polled[c] /\ fd[c] # None /\ fd[c] <= now

EpollWait ==
  /\ \A c \in Container : firing[c] = "no"
  /\ \E c \in Container : Fired(c)
  /\ firing' = [c \in Container |-> IF Fired(c) THEN "woken" ELSE "no"]
  /\ UNCHANGED <<now, objects, life, heap, queue, task, kernel, history>>

Disarm(c) ==
  /\ firing[c] = "woken"
  /\ \A b \in Container : firing[b] \in {"no", "woken"}
  /\ fd' = [fd EXCEPT ![c] = None]
  /\ firing' = [firing EXCEPT ![c] = "disarmed"]
  /\ UNCHANGED <<now, objects, life, heap, queue, task, polled, history>>

RemovePoll(c) ==
  /\ firing[c] = "disarmed"
  /\ polled' = [polled EXCEPT ![c] = FALSE]
  /\ firing' = [firing EXCEPT ![c] = "unpolled"]
  /\ UNCHANGED <<now, objects, life, heap, queue, task, fd, history>>

PostExpire(c) ==
  /\ firing[c] = "unpolled"
  /\ queue' = Append(queue, ExpireMsg(c))
  /\ firing' = [firing EXCEPT ![c] = "no"]
  /\ UNCHANGED <<now, objects, life, heap, task, kernel, history>>

PollTask == EpollWait \/ \E c \in Container : Disarm(c) \/ RemovePoll(c) \/ PostExpire(c)

Tick ==
  /\ now < MaxTime
  /\ now' = now + 1
  /\ UNCHANGED <<objects, life, heap, queue, task, kernel, firing, history>>

-----------------------------------------------------------------------------
Client ==
  \E t \in Timer :
    Stop(t) \/ \E d \in Delegate, c \in Container, delay \in Delays : Start(t, d, c, delay)

Next == Client \/ MsgTask \/ PollTask \/ Tick

Spec == Init /\ [][Next]_vars

(* Both service threads keep running and time passes; no client need ever  *)
(* start or stop anything.                                                 *)
FairSpec == Spec /\ WF_vars(MsgTask) /\ WF_vars(PollTask) /\ WF_vars(Tick)

-----------------------------------------------------------------------------
(* Properties.                                                             *)

(* A client that was told its timer is stopped is not called back for it.  *)
StopIsFinal == stopped \cap calledBack = {}

(* The delegates that something still holds: the timer that runs, a heap,  *)
(* a message, the message thread between a pop and the end of expire().    *)
Held ==
  {mTimer[t] : t \in Timer} \cup (UNION {heap[c] : c \in Container})
    \cup {queue[i].timer : i \in {j \in DOMAIN queue : queue[j].kind # "Expire"}}
    \cup (IF task.pc = "expiring" THEN {task.timer} ELSE {})
    \cup (IF task.pc = "calling" THEN {task.stopped} ELSE {})

(* A delegate is deleted by the message that removes it, when nothing can  *)
(* touch it any more, and is deleted once.                                 *)
NoneHeldIsDeleted == \A d \in Delegate : life[d] = "deleted" => d \notin Held

(* Delegates wait in a heap only with a wake-up to come that is not later  *)
(* than the soonest of them is due, whatever the poll thread disarmed      *)
(* while the message thread armed: the kernel timer is armed and polled,   *)
(* or about to be, or its expiry is on its way or being handled.           *)
InTime(c, at) == at \in Nat /\ \A d \in heap[c] : at <= mFutureTime[d]
Handling(c) == task.pc \in {"expiring", "calling", "looping"} /\ task.c = c
WakeUpToCome(c) ==
  \/ polled[c] /\ InTime(c, fd[c])
  \/ polled[c] /\ task.pc = "arming" /\ task.c = c /\ InTime(c, task.at)
  \/ firing[c] # "no"
  \/ \E i \in DOMAIN queue : queue[i] = ExpireMsg(c)
  \/ Handling(c)
TimersAreWatched == \A c \in Container : heap[c] # {} => WakeUpToCome(c)

(* Every timer that was started goes off or is stopped.                    *)
GoesOff == \A d \in Delegate : life[d] = "live" ~> d \in stopped \cup calledBack

=============================================================================
