---------------------------- MODULE LocTimerProofs ----------------------------
(***************************************************************************)
(* Theorems about the timer service, for every number of timers, of        *)
(* delegates, of containers and of time-outs, and any length of the queue. *)
(***************************************************************************)
EXTENDS LocTimer, SequenceTheorems, TLAPS

-----------------------------------------------------------------------------
(* What the state is made of.                                              *)

TimerTypeOK ==
  /\ now \in Nat
  /\ mTimer \in [Timer -> Delegate \cup {None}]
  /\ mClient \in [Delegate -> Timer \cup {None}]
  /\ mFutureTime \in [Delegate -> Nat]
  /\ home \in [Delegate -> Container \cup {None}]
  /\ life \in [Delegate -> {"unborn", "live", "deleted"}]
  /\ heap \in [Container -> SUBSET Delegate]
  /\ queue \in Seq(Message)
  /\ task \in Task
  /\ fd \in [Container -> Nat \cup {None}]
  /\ polled \in [Container -> BOOLEAN]
  /\ firing \in [Container -> {"no", "woken", "disarmed", "unpolled"}]
  /\ stopped \subseteq Delegate
  /\ calledBack \subseteq Delegate

(* A timer and its delegate know each other.                               *)
TimersArePaired ==
  /\ \A t \in Timer : mTimer[t] # None => mClient[mTimer[t]] = t
  /\ \A d \in Delegate : mClient[d] # None => mTimer[mClient[d]] = d

(* What was never started is nowhere, and what was has a container.        *)
Mail(d) == {i \in DOMAIN queue : queue[i] = PushMsg(d) \/ queue[i] = RemoveMsg(d)}
NoneIsUnborn ==
  \A d \in Delegate :
    IF life[d] = "unborn"
    THEN /\ mClient[d] = None /\ Mail(d) = {}
         /\ d \notin stopped \cup calledBack
    ELSE home[d] \in Container

(* A delegate waits in no other heap than its container's.                 *)
HeapsAreHome ==
  \A c \in Container : \A d \in heap[c] : home[d] = c /\ life[d] = "live"

(* The message that removes a delegate comes after its client let go of it *)
(* and is the last about it; no message is about a deleted one.            *)
RemoveIsLast ==
  \A d \in Delegate :
    /\ \A i \in DOMAIN queue :
         queue[i] = RemoveMsg(d) => mClient[d] = None /\ \A j \in Mail(d) : j <= i
    /\ life[d] = "deleted" => mClient[d] = None /\ Mail(d) = {}

(* What the message thread holds has not been deleted, and what it is      *)
(* about to call back for is nobody's any more.                            *)
TaskHoldsLive ==
  /\ task.pc = "expiring" => life[task.timer] = "live"
  /\ task.pc = "calling" =>
       life[task.stopped] = "live" /\ mClient[task.stopped] = None /\ task.stopped \notin stopped

(* The delegates that were stopped or called back for are nobody's.        *)
DoneIsReleased == \A d \in stopped \cup calledBack : mClient[d] = None

(* What the message thread is about to set the kernel timer to is not late.*)
ArmingIsInTime == task.pc = "arming" => InTime(task.c, task.at)

TimerInv ==
  /\ TimersArePaired /\ NoneIsUnborn /\ HeapsAreHome /\ RemoveIsLast
  /\ TaskHoldsLive /\ DoneIsReleased /\ StopIsFinal /\ ArmingIsInTime /\ TimersAreWatched

-----------------------------------------------------------------------------
(* Messages and the queue.                                                 *)

LEMMA PushIsMessage == \A d \in Delegate : PushMsg(d) \in Message
  BY DEF PushMsg, Message
LEMMA RemoveIsMessage == \A d \in Delegate : RemoveMsg(d) \in Message
  BY DEF RemoveMsg, Message
LEMMA ExpireIsMessage == \A c \in Container : ExpireMsg(c) \in Message
  BY DEF ExpireMsg, Message

LEMMA MessageKinds ==
  ASSUME NEW m \in Message
  PROVE  /\ m.kind = "Push" => m.timer \in Delegate /\ m = PushMsg(m.timer)
         /\ m.kind = "Remove" => m.timer \in Delegate /\ m = RemoveMsg(m.timer)
         /\ m.kind = "Expire" => m.container \in Container /\ m = ExpireMsg(m.container)
  BY DEF Message, PushMsg, RemoveMsg, ExpireMsg

LEMMA MessagesDiffer ==
  /\ \A d, e : PushMsg(d) = PushMsg(e) => d = e
  /\ \A d, e : RemoveMsg(d) = RemoveMsg(e) => d = e
  /\ \A d, e : PushMsg(d) # RemoveMsg(e)
  /\ \A d, c : PushMsg(d) # ExpireMsg(c)
  /\ \A d, c : RemoveMsg(d) # ExpireMsg(c)
  /\ \A c, b : ExpireMsg(c) = ExpireMsg(b) => c = b
  BY DEF PushMsg, RemoveMsg, ExpireMsg

LEMMA Appended ==
  ASSUME NEW q \in Seq(Message), NEW m \in Message, NEW p, p = Append(q, m)
  PROVE  /\ p \in Seq(Message) /\ Len(q) \in Nat
         /\ DOMAIN q = 1..Len(q) /\ DOMAIN p = 1..(Len(q) + 1)
         /\ \A i \in 1..Len(q) : p[i] = q[i]
         /\ p[Len(q) + 1] = m
  OBVIOUS

LEMMA Popped ==
  ASSUME NEW q \in Seq(Message), q # <<>>, NEW p, p = Tail(q)
  PROVE  /\ p \in Seq(Message) /\ Len(q) \in Nat /\ 1 <= Len(q) /\ Head(q) = q[1] /\ q[1] \in Message
         /\ DOMAIN q = 1..Len(q) /\ DOMAIN p = 1..(Len(q) - 1)
         /\ \A i \in 1..(Len(q) - 1) : p[i] = q[i + 1]
  OBVIOUS

(* The delegate of the first message is in use and has a container.        *)
LEMMA HeadIsLive ==
  ASSUME TimerTypeOK, NoneIsUnborn, RemoveIsLast, queue # <<>>,
         NEW d, d = Head(queue).timer, Head(queue).kind \in {"Push", "Remove"}
  PROVE  d \in Delegate /\ life[d] = "live" /\ home[d] \in Container
         /\ 1 \in Mail(d)
<1>1. queue \in Seq(Message)
  BY DEF TimerTypeOK
<1>2. 1 \in DOMAIN queue /\ Head(queue) = queue[1] /\ queue[1] \in Message
  BY <1>1, Popped
<1>3. d \in Delegate /\ (queue[1] = PushMsg(d) \/ queue[1] = RemoveMsg(d))
  BY <1>2, MessageKinds
<1>4. 1 \in Mail(d)
  BY <1>2, <1>3 DEF Mail
<1>5. life[d] # "unborn"
  BY <1>3, <1>4 DEF NoneIsUnborn
<1>6. life[d] # "deleted"
  BY <1>3, <1>4 DEF RemoveIsLast
<1>7. life[d] \in {"unborn", "live", "deleted"}
  BY <1>3 DEF TimerTypeOK
<1> QED
  BY <1>3, <1>4, <1>5, <1>6, <1>7 DEF NoneIsUnborn

LEMMA TaskShapes ==
  /\ Idle \in Task /\ Idle.pc = "idle"
  /\ \A c \in Container, t \in Nat :
       /\ Arming(c, t) \in Task /\ Arming(c, t).pc = "arming"
       /\ Arming(c, t).c = c /\ Arming(c, t).at = t
       /\ Looping(c, t) \in Task /\ Looping(c, t).pc = "looping" /\ Looping(c, t).c = c
       /\ \A d \in Delegate :
            /\ Calling(c, t, d) \in Task /\ Calling(c, t, d).pc = "calling"
            /\ Calling(c, t, d).c = c /\ Calling(c, t, d).stopped = d
            /\ \A l \in Timer :
                 /\ Expiring(c, t, d, l) \in Task /\ Expiring(c, t, d, l).pc = "expiring"
                 /\ Expiring(c, t, d, l).c = c /\ Expiring(c, t, d, l).timer = d
  BY DEF Idle, Arming, Looping, Calling, Expiring, Task

LEMMA TaskParts ==
  ASSUME NEW k \in Task
  PROVE  /\ k.pc \in {"idle", "arming", "looping", "expiring", "calling"}
         /\ k.pc # "idle" => k.c \in Container /\ k.at \in Nat
         /\ k.pc = "expiring" => k.timer \in Delegate /\ k.client \in Timer
         /\ k.pc = "calling" => k.stopped \in Delegate
  BY DEF Task

(* What setting the kernel timer anew does to the message thread.          *)
LEMMA RearmShape ==
  ASSUME TimerTypeOK, NEW c \in Container, NEW S \in SUBSET Delegate, Rearm(c, S)
  PROVE  /\ task' \in Task /\ polled' \in [Container -> BOOLEAN]
         /\ S = {} => task' = Idle /\ polled' = polled
         /\ S # {} => /\ \E d \in Soonest(S) : task' = Arming(c, mFutureTime[d])
                      /\ polled'[c] = TRUE
                      /\ task'.pc = "arming" /\ task'.c = c
         /\ task'.pc \in {"idle", "arming"}
         /\ \A b \in Container : polled[b] => polled'[b]
<1>1. CASE S = {}
  BY <1>1, TaskShapes DEF Rearm, TimerTypeOK
<1>2. CASE S # {}
  <2>1. PICK d \in Soonest(S) : task' = Arming(c, mFutureTime[d])
    BY <1>2 DEF Rearm
  <2>2. d \in Delegate /\ mFutureTime[d] \in Nat
    BY <2>1 DEF Soonest, TimerTypeOK
  <2>3. task' \in Task /\ task'.pc = "arming" /\ task'.c = c
    BY <2>1, <2>2, TaskShapes
  <2>4. polled' = [polled EXCEPT ![c] = TRUE]
    BY <1>2 DEF Rearm
  <2>5. polled' \in [Container -> BOOLEAN] /\ polled'[c] = TRUE /\ \A b \in Container : polled[b] => polled'[b]
    BY <2>4 DEF TimerTypeOK
  <2> QED
    BY <1>2, <2>1, <2>3, <2>5
<1> QED
  BY <1>1, <1>2

(* What popping a delegate does to the message thread and the heap.        *)
LEMMA PopShape ==
  ASSUME TimerTypeOK, NEW c \in Container, NEW t \in Nat, PopTimer(c, t)
  PROVE  /\ heap' \in [Container -> SUBSET Delegate] /\ task' \in Task
         /\ task'.pc \in {"looping", "expiring"} /\ task'.c = c
         /\ task'.pc = "expiring" => task'.timer \in heap[c]
         /\ \A b \in Container : heap'[b] \subseteq heap[b]
         /\ \A b \in Container : b # c => heap'[b] = heap[b]
<1>1. PICK d \in Soonest(heap[c]) :
        /\ heap' = [heap EXCEPT ![c] = @ \ {d}]
        /\ task' = IF mClient[d] = None THEN Looping(c, t) ELSE Expiring(c, t, d, mClient[d])
  BY DEF PopTimer
<1>2. d \in heap[c] /\ d \in Delegate
  BY <1>1 DEF Soonest, TimerTypeOK
<1>3. mClient[d] \in Timer \cup {None}
  BY <1>2 DEF TimerTypeOK
<1>4. CASE mClient[d] = None
  <2>1. task' = Looping(c, t)
    BY <1>1, <1>4
  <2>2. task' \in Task /\ task'.pc = "looping" /\ task'.c = c
    BY <2>1, TaskShapes
  <2> QED
    BY <1>1, <2>2 DEF TimerTypeOK
<1>5. CASE mClient[d] # None
  <2>1. task' = Expiring(c, t, d, mClient[d]) /\ mClient[d] \in Timer
    BY <1>1, <1>3, <1>5
  <2>2. task' \in Task /\ task'.pc = "expiring" /\ task'.c = c /\ task'.timer = d
    BY <1>2, <2>1, TaskShapes
  <2> QED
    BY <1>1, <1>2, <2>2 DEF TimerTypeOK
<1> QED
  BY <1>4, <1>5

(* What stopping a timer does to it and its delegate.                      *)
LEMMA StopShape ==
  ASSUME TimerTypeOK, TimersArePaired, NoneIsUnborn, RemoveIsLast, NEW t \in Timer, StopTimer(t),
         NEW d, d = mTimer[t]
  PROVE  /\ d \in Delegate /\ mClient[d] = t /\ life[d] = "live"
         /\ mTimer' = [mTimer EXCEPT ![t] = None] /\ mClient' = [mClient EXCEPT ![d] = None]
         /\ queue' = Append(queue, RemoveMsg(d))
         /\ mTimer' \in [Timer -> Delegate \cup {None}] /\ mClient' \in [Delegate -> Timer \cup {None}]
         /\ queue' \in Seq(Message)
         /\ t # None
<1>1. d \in Delegate /\ d # None /\ t # None
  BY NoneAssumption DEF StopTimer, TimerTypeOK
<1>2. mClient[d] = t
  BY <1>1 DEF TimersArePaired
<1>3. life[d] = "live"
  BY <1>1, <1>2 DEF TimerTypeOK, NoneIsUnborn, RemoveIsLast
<1>4. mTimer' = [mTimer EXCEPT ![t] = None] /\ mClient' = [mClient EXCEPT ![d] = None]
      /\ queue' = Append(queue, RemoveMsg(d))
  BY DEF StopTimer
<1>5. queue' \in Seq(Message)
  BY <1>1, <1>4, RemoveIsMessage, Appended DEF TimerTypeOK
<1>6. mTimer' \in [Timer -> Delegate \cup {None}] /\ mClient' \in [Delegate -> Timer \cup {None}]
  BY <1>1, <1>4 DEF TimerTypeOK
<1> QED
  BY <1>1, <1>2, <1>3, <1>4, <1>5, <1>6

-----------------------------------------------------------------------------
(* The state keeps its type.                                               *)

LEMMA TypeInit == Init => TimerTypeOK
  BY TaskShapes DEF Init, TimerTypeOK

LEMMA TypeClient ==
  ASSUME TimerTypeOK, TimersArePaired, NoneIsUnborn, RemoveIsLast, Client
  PROVE  TimerTypeOK'
<1>1. ASSUME NEW t \in Timer, Stop(t) PROVE TimerTypeOK'
  <2> DEFINE d == mTimer[t]
  <2>1. /\ d \in Delegate
        /\ mTimer' \in [Timer -> Delegate \cup {None}] /\ mClient' \in [Delegate -> Timer \cup {None}]
        /\ queue' \in Seq(Message)
    BY <1>1, StopShape DEF Stop
  <2>2. stopped' \subseteq Delegate
    BY <1>1, <2>1 DEF Stop, TimerTypeOK
  <2> QED
    BY <1>1, <2>1, <2>2 DEF Stop, StopTimer, TimerTypeOK, kernel
<1>2. ASSUME NEW t \in Timer, NEW d \in Delegate, NEW c \in Container, NEW delay \in Delays,
             Start(t, d, c, delay)
      PROVE  TimerTypeOK'
  <2>1. now + delay \in Nat
    BY DelaysAssumption DEF TimerTypeOK
  <2>2. queue' \in Seq(Message)
    BY <1>2, PushIsMessage, Appended DEF Start, TimerTypeOK
  <2>3. /\ mTimer' \in [Timer -> Delegate \cup {None}]
        /\ mClient' \in [Delegate -> Timer \cup {None}]
        /\ mFutureTime' \in [Delegate -> Nat]
        /\ home' \in [Delegate -> Container \cup {None}]
        /\ life' \in [Delegate -> {"unborn", "live", "deleted"}]
    BY <1>2, <2>1 DEF Start, TimerTypeOK
  <2> QED
    BY <1>2, <2>2, <2>3 DEF Start, TimerTypeOK, kernel, history
<1> QED
  BY <1>1, <1>2 DEF Client

LEMMA TypeMsgTask ==
  ASSUME TimerTypeOK, TimersArePaired, NoneIsUnborn, RemoveIsLast, MsgTask
  PROVE  TimerTypeOK'
<1>1. CASE ProcPush
  <2> DEFINE d == Head(queue).timer
  <2>1. queue # <<>> /\ Head(queue).kind = "Push" /\ queue' = Tail(queue)
    BY <1>1 DEF ProcPush, Receive, Done
  <2>2. d \in Delegate /\ home[d] \in Container
    BY <2>1, HeadIsLive
  <2>3. queue' \in Seq(Message)
    BY <2>1, Popped DEF TimerTypeOK
  <2>4. heap' = [heap EXCEPT ![home[d]] = @ \cup {d}]
    BY <1>1 DEF ProcPush
  <2>5. heap' \in [Container -> SUBSET Delegate]
    BY <2>2, <2>4 DEF TimerTypeOK
  <2>6. Rearm(home[d], {d}) \/ UNCHANGED <<task, polled>>
    BY <1>1 DEF ProcPush
  <2>7. task' \in Task /\ polled' \in [Container -> BOOLEAN]
    <3>1. CASE Rearm(home[d], {d})
      BY <2>2, <3>1, RearmShape
    <3> QED
      BY <2>6, <3>1 DEF TimerTypeOK
  <2> QED
    BY <1>1, <2>3, <2>5, <2>7 DEF ProcPush, TimerTypeOK, objects, history
<1>2. CASE ProcRemove
  <2> DEFINE d == Head(queue).timer
  <2>1. queue # <<>> /\ Head(queue).kind = "Remove" /\ queue' = Tail(queue)
    BY <1>2 DEF ProcRemove, Receive, Done
  <2>2. d \in Delegate /\ home[d] \in Container
    BY <2>1, HeadIsLive
  <2>3. queue' \in Seq(Message)
    BY <2>1, Popped DEF TimerTypeOK
  <2>4. heap' = [heap EXCEPT ![home[d]] = @ \ {d}] /\ life' = [life EXCEPT ![d] = "deleted"]
    BY <1>2 DEF ProcRemove
  <2>5. heap' \in [Container -> SUBSET Delegate] /\ life' \in [Delegate -> {"unborn", "live", "deleted"}]
    BY <2>2, <2>4 DEF TimerTypeOK
  <2>6. Rearm(home[d], heap[home[d]] \ {d}) \/ UNCHANGED <<task, polled>>
    BY <1>2 DEF ProcRemove
  <2>7. task' \in Task /\ polled' \in [Container -> BOOLEAN]
    <3>1. CASE Rearm(home[d], heap[home[d]] \ {d})
      <4>1. heap[home[d]] \ {d} \in SUBSET Delegate
        BY <2>2 DEF TimerTypeOK
      <4> QED
        BY <2>2, <3>1, <4>1, RearmShape
    <3> QED
      BY <2>6, <3>1 DEF TimerTypeOK
  <2> QED
    BY <1>2, <2>3, <2>5, <2>7 DEF ProcRemove, TimerTypeOK, objects, history
<1>3. CASE ProcExpire
  <2> DEFINE c == Head(queue).container
  <2>1. queue # <<>> /\ Head(queue).kind = "Expire" /\ queue' = Tail(queue)
    BY <1>3 DEF ProcExpire, Receive, Done
  <2>2. queue' \in Seq(Message) /\ Head(queue) \in Message
    BY <2>1, Popped DEF TimerTypeOK
  <2>3. c \in Container
    BY <2>1, <2>2, MessageKinds
  <2>4. UNCHANGED <<heap, task>> \/ PopTimer(c, now)
    BY <1>3 DEF ProcExpire
  <2>5. now \in Nat
    BY DEF TimerTypeOK
  <2>6. task' \in Task /\ heap' \in [Container -> SUBSET Delegate]
    <3>1. CASE PopTimer(c, now)
      BY <2>3, <2>5, <3>1, PopShape
    <3> QED
      BY <2>4, <3>1 DEF TimerTypeOK
  <2> QED
    BY <1>3, <2>2, <2>6 DEF ProcExpire, TimerTypeOK, objects, history, kernel
<1>4. CASE ArmTimer
  <2>1. task.c \in Container /\ task.at \in Nat
    BY <1>4, TaskParts DEF ArmTimer, TimerTypeOK
  <2>2. fd' \in [Container -> Nat \cup {None}] /\ task' \in Task
    BY <1>4, <2>1, TaskShapes DEF ArmTimer, TimerTypeOK
  <2> QED
    BY <1>4, <2>2 DEF ArmTimer, TimerTypeOK, objects, history
<1>5. CASE PopNext
  <2>1. task.c \in Container /\ task.at \in Nat
    BY <1>5, TaskParts DEF PopNext, TimerTypeOK
  <2>2. task' \in Task /\ heap' \in [Container -> SUBSET Delegate]
    BY <1>5, <2>1, PopShape DEF PopNext
  <2> QED
    BY <1>5, <2>2 DEF PopNext, TimerTypeOK, objects, history, kernel
<1>6. CASE EndExpire
  <2>1. task.c \in Container
    BY <1>6, TaskParts DEF EndExpire, TimerTypeOK
  <2>2. heap[task.c] \in SUBSET Delegate
    BY <2>1 DEF TimerTypeOK
  <2>3. task' \in Task /\ polled' \in [Container -> BOOLEAN]
    BY <1>6, <2>1, <2>2, RearmShape DEF EndExpire
  <2> QED
    BY <1>6, <2>3 DEF EndExpire, TimerTypeOK, objects, history
<1>7. CASE ExpireStop
  <2>1. task.c \in Container /\ task.at \in Nat /\ task.client \in Timer
    BY <1>7, TaskParts DEF ExpireStop, TimerTypeOK
  <2>2. CASE StopTimer(task.client) /\ task' = Calling(task.c, task.at, mTimer[task.client])
    <3> DEFINE d == mTimer[task.client]
    <3>1. /\ d \in Delegate
          /\ mTimer' \in [Timer -> Delegate \cup {None}] /\ mClient' \in [Delegate -> Timer \cup {None}]
          /\ queue' \in Seq(Message)
      BY <2>1, <2>2, StopShape
    <3>2. task' \in Task
      BY <2>1, <2>2, <3>1, TaskShapes
    <3> QED
      BY <1>7, <2>2, <3>1, <3>2 DEF ExpireStop, StopTimer, TimerTypeOK, kernel, history
  <2>3. CASE task' = Looping(task.c, task.at) /\ UNCHANGED <<objects, queue>>
    <3>1. task' \in Task
      BY <2>1, <2>3, TaskShapes
    <3> QED
      BY <1>7, <2>3, <3>1 DEF ExpireStop, TimerTypeOK, objects, kernel, history
  <2> QED
    BY <1>7, <2>2, <2>3 DEF ExpireStop
<1>8. CASE TimeOutCallback
  <2>1. task.c \in Container /\ task.at \in Nat /\ task.stopped \in Delegate
    BY <1>8, TaskParts DEF TimeOutCallback, TimerTypeOK
  <2>2. task' \in Task
    BY <1>8, <2>1, TaskShapes DEF TimeOutCallback
  <2>3. calledBack' \subseteq Delegate
    BY <1>8, <2>1 DEF TimeOutCallback, TimerTypeOK
  <2> QED
    BY <1>8, <2>2, <2>3 DEF TimeOutCallback, TimerTypeOK, objects, kernel
<1> QED
  BY <1>1, <1>2, <1>3, <1>4, <1>5, <1>6, <1>7, <1>8 DEF MsgTask

LEMMA TypePollTask ==
  ASSUME TimerTypeOK, PollTask
  PROVE  TimerTypeOK'
<1>1. CASE EpollWait
  BY <1>1 DEF EpollWait, TimerTypeOK, objects, kernel, history
<1>2. ASSUME NEW c \in Container, Disarm(c) PROVE TimerTypeOK'
  BY <1>2 DEF Disarm, TimerTypeOK, objects, history
<1>3. ASSUME NEW c \in Container, RemovePoll(c) PROVE TimerTypeOK'
  BY <1>3 DEF RemovePoll, TimerTypeOK, objects, history
<1>4. ASSUME NEW c \in Container, PostExpire(c) PROVE TimerTypeOK'
  <2>1. queue' \in Seq(Message)
    BY <1>4, ExpireIsMessage, Appended DEF PostExpire, TimerTypeOK
  <2> QED
    BY <1>4, <2>1 DEF PostExpire, TimerTypeOK, objects, kernel, history
<1> QED
  BY <1>1, <1>2, <1>3, <1>4 DEF PollTask

LEMMA TypeStep ==
  ASSUME TimerTypeOK, TimersArePaired, NoneIsUnborn, RemoveIsLast, [Next]_vars
  PROVE  TimerTypeOK'
<1>1. CASE Tick
  BY <1>1 DEF Tick, TimerTypeOK, objects, kernel, history
<1>2. CASE UNCHANGED vars
  BY <1>2 DEF vars, TimerTypeOK, objects, kernel, history
<1> QED
  BY <1>1, <1>2, TypeClient, TypeMsgTask, TypePollTask DEF Next

-----------------------------------------------------------------------------
(* The messages about a delegate, as messages are sent and taken.          *)

LEMMA MailTail ==
  ASSUME queue \in Seq(Message), queue # <<>>, queue' = Tail(queue)
  PROVE  /\ \A i \in DOMAIN queue' : i \in Nat /\ i + 1 \in DOMAIN queue /\ queue'[i] = queue[i + 1]
         /\ \A d : \A i \in Mail(d)' : i \in Nat /\ i + 1 \in Mail(d)
         /\ \A i \in DOMAIN queue : i \in Nat /\ (i # 1 => i - 1 \in DOMAIN queue' /\ queue'[i - 1] = queue[i])
<1>1. ASSUME NEW i \in DOMAIN queue'
      PROVE  i \in Nat /\ i + 1 \in DOMAIN queue /\ queue'[i] = queue[i + 1]
  BY Popped
<1>2. ASSUME NEW d, NEW i \in Mail(d)'
      PROVE  i \in Nat /\ i + 1 \in Mail(d)
  <2>1. i \in DOMAIN queue' /\ (queue'[i] = PushMsg(d) \/ queue'[i] = RemoveMsg(d))
    BY <1>2 DEF Mail, PushMsg, RemoveMsg
  <2> QED
    BY <1>1, <2>1 DEF Mail
<1>3. ASSUME NEW i \in DOMAIN queue
      PROVE  i \in Nat /\ (i # 1 => i - 1 \in DOMAIN queue' /\ queue'[i - 1] = queue[i])
  <2>1. /\ Len(queue) \in Nat /\ DOMAIN queue = 1..Len(queue) /\ DOMAIN queue' = 1..(Len(queue) - 1)
        /\ \A k \in 1..(Len(queue) - 1) : queue'[k] = queue[k + 1]
    BY Popped
  <2>2. CASE i # 1
    <3>1. i - 1 \in 1..(Len(queue) - 1) /\ (i - 1) + 1 = i
      BY <2>1, <2>2
    <3> QED
      BY <2>1, <3>1
  <2> QED
    BY <2>1, <2>2
<1> QED
  BY <1>1, <1>2, <1>3

LEMMA MailAppend ==
  ASSUME queue \in Seq(Message), NEW m \in Message, queue' = Append(queue, m)
  PROVE  /\ Len(queue) \in Nat /\ DOMAIN queue = 1..Len(queue)
         /\ DOMAIN queue' = 1..(Len(queue) + 1) /\ queue'[Len(queue) + 1] = m
         /\ \A i \in DOMAIN queue : queue'[i] = queue[i]
         /\ \A i \in DOMAIN queue' : i \in DOMAIN queue \/ (i = Len(queue) + 1 /\ queue'[i] = m)
         /\ \A d : m # PushMsg(d) /\ m # RemoveMsg(d) => Mail(d)' = Mail(d)
         /\ \A d : \A i \in Mail(d)' : i \in Nat /\ i <= Len(queue) + 1
<1>1. /\ Len(queue) \in Nat /\ DOMAIN queue = 1..Len(queue)
      /\ DOMAIN queue' = 1..(Len(queue) + 1) /\ queue'[Len(queue) + 1] = m
      /\ \A i \in DOMAIN queue : queue'[i] = queue[i]
  BY Appended
<1>2. \A i \in DOMAIN queue' : i \in DOMAIN queue \/ (i = Len(queue) + 1 /\ queue'[i] = m)
  BY <1>1
<1>3. ASSUME NEW d PROVE Mail(d)' = {i \in DOMAIN queue' : queue'[i] = PushMsg(d) \/ queue'[i] = RemoveMsg(d)}
  BY DEF Mail, PushMsg, RemoveMsg
<1>4. ASSUME NEW d, m # PushMsg(d), m # RemoveMsg(d) PROVE Mail(d)' = Mail(d)
  <2>1. DOMAIN queue \subseteq DOMAIN queue'
    BY <1>1
  <2> QED
    BY <1>1, <1>2, <1>3, <1>4, <2>1 DEF Mail
<1>5. ASSUME NEW d, NEW i \in Mail(d)' PROVE i \in Nat /\ i <= Len(queue) + 1
  <2>1. i \in DOMAIN queue'
    BY <1>3, <1>5
  <2> QED
    BY <1>1, <2>1
<1> QED
  BY <1>1, <1>2, <1>4, <1>5

(* The parts of the invariant about the objects and their messages.        *)
Objects == TimersArePaired /\ NoneIsUnborn /\ HeapsAreHome /\ RemoveIsLast

LEMMA TailKeepsObjects ==
  ASSUME TimerTypeOK, NoneIsUnborn, RemoveIsLast, queue # <<>>, queue' = Tail(queue),
         UNCHANGED <<mClient, home, life, history>>
  PROVE  NoneIsUnborn' /\ RemoveIsLast'
<1>1. queue \in Seq(Message)
  BY DEF TimerTypeOK
<1>2. /\ \A i \in DOMAIN queue' : i \in Nat /\ i + 1 \in DOMAIN queue /\ queue'[i] = queue[i + 1]
      /\ \A d : \A i \in Mail(d)' : i \in Nat /\ i + 1 \in Mail(d)
  BY <1>1, MailTail
<1>3. ASSUME NEW d, Mail(d) = {} PROVE Mail(d)' = {}
  BY <1>2, <1>3
<1>4. NoneIsUnborn'
  <2> SUFFICES ASSUME NEW d \in Delegate
               PROVE  IF life'[d] = "unborn"
                      THEN mClient'[d] = None /\ Mail(d)' = {} /\ d \notin stopped' \cup calledBack'
                      ELSE home'[d] \in Container
    BY DEF NoneIsUnborn
  <2> QED
    BY <1>3 DEF NoneIsUnborn, history
<1>5. RemoveIsLast'
  <2> SUFFICES ASSUME NEW d \in Delegate
               PROVE  /\ \A i \in DOMAIN queue' :
                           queue'[i] = RemoveMsg(d) => mClient'[d] = None /\ \A j \in Mail(d)' : j <= i
                      /\ life'[d] = "deleted" => mClient'[d] = None /\ Mail(d)' = {}
    BY DEF RemoveIsLast, RemoveMsg
  <2>1. ASSUME NEW i \in DOMAIN queue', queue'[i] = RemoveMsg(d)
        PROVE  mClient'[d] = None /\ \A j \in Mail(d)' : j <= i
    <3>1. i \in Nat /\ i + 1 \in DOMAIN queue /\ queue[i + 1] = RemoveMsg(d)
      BY <1>2, <2>1
    <3>2. mClient[d] = None /\ \A j \in Mail(d) : j <= i + 1
      BY <3>1 DEF RemoveIsLast
    <3>3. ASSUME NEW j \in Mail(d)' PROVE j <= i
      <4>1. j \in Nat /\ j + 1 \in Mail(d)
        BY <1>2, <3>3
      <4>2. j + 1 <= i + 1
        BY <3>2, <4>1
      <4> QED
        BY <3>1, <4>1, <4>2
    <3> QED
      BY <3>2, <3>3
  <2>2. life'[d] = "deleted" => mClient'[d] = None /\ Mail(d)' = {}
    BY <1>3 DEF RemoveIsLast
  <2> QED
    BY <2>1, <2>2
<1> QED
  BY <1>4, <1>5

LEMMA ExpiryKeepsObjects ==
  ASSUME TimerTypeOK, NoneIsUnborn, RemoveIsLast, NEW c \in Container, queue' = Append(queue, ExpireMsg(c)),
         UNCHANGED <<mClient, home, life, history>>
  PROVE  NoneIsUnborn' /\ RemoveIsLast'
<1>1. queue \in Seq(Message) /\ ExpireMsg(c) \in Message
  BY ExpireIsMessage DEF TimerTypeOK
<1>2. /\ \A i \in DOMAIN queue : queue'[i] = queue[i]
      /\ \A i \in DOMAIN queue' : i \in DOMAIN queue \/ queue'[i] = ExpireMsg(c)
      /\ \A d : Mail(d)' = Mail(d)
  BY <1>1, MailAppend, MessagesDiffer
<1>3. NoneIsUnborn'
  <2> SUFFICES ASSUME NEW d \in Delegate
               PROVE  IF life'[d] = "unborn"
                      THEN mClient'[d] = None /\ Mail(d)' = {} /\ d \notin stopped' \cup calledBack'
                      ELSE home'[d] \in Container
    BY DEF NoneIsUnborn
  <2> QED
    BY <1>2 DEF NoneIsUnborn, history
<1>4. RemoveIsLast'
  <2> SUFFICES ASSUME NEW d \in Delegate
               PROVE  /\ \A i \in DOMAIN queue' :
                           queue'[i] = RemoveMsg(d) => mClient'[d] = None /\ \A j \in Mail(d)' : j <= i
                      /\ life'[d] = "deleted" => mClient'[d] = None /\ Mail(d)' = {}
    BY DEF RemoveIsLast, RemoveMsg
  <2>1. ASSUME NEW i \in DOMAIN queue', queue'[i] = RemoveMsg(d)
        PROVE  mClient'[d] = None /\ \A j \in Mail(d)' : j <= i
    <3>1. i \in DOMAIN queue /\ queue[i] = RemoveMsg(d)
      BY <1>2, <2>1, MessagesDiffer
    <3> QED
      BY <1>2, <3>1 DEF RemoveIsLast
  <2>2. life'[d] = "deleted" => mClient'[d] = None /\ Mail(d)' = {}
    BY <1>2 DEF RemoveIsLast
  <2> QED
    BY <2>1, <2>2
<1> QED
  BY <1>3, <1>4

LEMMA StoppingKeepsObjects ==
  ASSUME TimerTypeOK, Objects, NEW t \in Timer, StopTimer(t), UNCHANGED <<life, heap>>,
         stopped' \cup calledBack' \subseteq stopped \cup calledBack \cup {mTimer[t]}
  PROVE  Objects'
<1> DEFINE d == mTimer[t]
<1>1. /\ d \in Delegate /\ mClient[d] = t /\ life[d] = "live" /\ t # None
      /\ mTimer' = [mTimer EXCEPT ![t] = None] /\ mClient' = [mClient EXCEPT ![d] = None]
      /\ queue' = Append(queue, RemoveMsg(d))
  BY StopShape DEF Objects
<1>2. mTimer \in [Timer -> Delegate \cup {None}] /\ mClient \in [Delegate -> Timer \cup {None}]
      /\ queue \in Seq(Message) /\ RemoveMsg(d) \in Message /\ home' = home
  BY <1>1, RemoveIsMessage DEF TimerTypeOK, StopTimer
<1>3. TimersArePaired'
  <2>1. ASSUME NEW u \in Timer, mTimer'[u] # None PROVE mClient'[mTimer'[u]] = u
    <3>1. u # t /\ mTimer'[u] = mTimer[u] /\ mTimer[u] \in Delegate
      BY <1>1, <1>2, <2>1
    <3>2. mClient[mTimer[u]] = u
      BY <2>1, <3>1 DEF Objects, TimersArePaired
    <3> QED
      BY <1>1, <1>2, <3>1, <3>2
  <2>2. ASSUME NEW e \in Delegate, mClient'[e] # None PROVE mTimer'[mClient'[e]] = e
    <3>1. e # d /\ mClient'[e] = mClient[e] /\ mClient[e] \in Timer
      BY <1>1, <1>2, <2>2
    <3>2. mTimer[mClient[e]] = e
      BY <2>2, <3>1 DEF Objects, TimersArePaired
    <3> QED
      BY <1>1, <1>2, <3>1, <3>2
  <2> QED
    BY <2>1, <2>2 DEF TimersArePaired
<1>4. /\ Len(queue) \in Nat /\ DOMAIN queue = 1..Len(queue)
      /\ \A i \in DOMAIN queue : queue'[i] = queue[i]
      /\ \A i \in DOMAIN queue' : i \in DOMAIN queue \/ (i = Len(queue) + 1 /\ queue'[i] = RemoveMsg(d))
      /\ \A e : e # d => Mail(e)' = Mail(e)
      /\ \A e : \A i \in Mail(e)' : i \in Nat /\ i <= Len(queue) + 1
  BY <1>1, <1>2, MailAppend, MessagesDiffer
<1>5. NoneIsUnborn'
  <2> SUFFICES ASSUME NEW e \in Delegate
               PROVE  IF life'[e] = "unborn"
                      THEN mClient'[e] = None /\ Mail(e)' = {} /\ e \notin stopped' \cup calledBack'
                      ELSE home'[e] \in Container
    BY DEF NoneIsUnborn
  <2>1. CASE e = d
    BY <1>1, <1>2, <2>1 DEF Objects, NoneIsUnborn
  <2>2. CASE e # d
    <3>1. mClient'[e] = mClient[e] /\ Mail(e)' = Mail(e)
      BY <1>1, <1>2, <1>4, <2>2
    <3> QED
      BY <1>2, <2>2, <3>1 DEF Objects, NoneIsUnborn
  <2> QED
    BY <2>1, <2>2
<1>6. HeapsAreHome'
  BY <1>2 DEF Objects, HeapsAreHome
<1>7. RemoveIsLast'
  <2> SUFFICES ASSUME NEW e \in Delegate
               PROVE  /\ \A i \in DOMAIN queue' :
                           queue'[i] = RemoveMsg(e) => mClient'[e] = None /\ \A j \in Mail(e)' : j <= i
                      /\ life'[e] = "deleted" => mClient'[e] = None /\ Mail(e)' = {}
    BY DEF RemoveIsLast, RemoveMsg
  <2>1. CASE e = d
    <3>1. mClient'[e] = None /\ life'[e] = "live"
      BY <1>1, <1>2, <2>1
    <3>2. ASSUME NEW i \in DOMAIN queue', queue'[i] = RemoveMsg(e) PROVE \A j \in Mail(e)' : j <= i
      <4>1. i \notin DOMAIN queue
        BY <1>1, <1>4, <2>1, <3>2 DEF Objects, RemoveIsLast
      <4>2. i = Len(queue) + 1
        BY <1>4, <4>1
      <4> QED
        BY <1>4, <4>2
    <3> QED
      BY <3>1, <3>2
  <2>2. CASE e # d
    <3>1. mClient'[e] = mClient[e] /\ Mail(e)' = Mail(e)
      BY <1>1, <1>2, <1>4, <2>2
    <3>2. ASSUME NEW i \in DOMAIN queue', queue'[i] = RemoveMsg(e)
          PROVE  i \in DOMAIN queue /\ queue[i] = RemoveMsg(e)
      BY <1>4, <2>2, <3>2, MessagesDiffer
    <3> QED
      BY <3>1, <3>2 DEF Objects, RemoveIsLast
  <2> QED
    BY <2>1, <2>2
<1> QED
  BY <1>3, <1>5, <1>6, <1>7 DEF Objects

LEMMA StartKeepsObjects ==
  ASSUME TimerTypeOK, Objects,
         NEW t \in Timer, NEW d \in Delegate, NEW c \in Container, NEW delay \in Delays, Start(t, d, c, delay)
  PROVE  Objects'
<1>1. /\ mTimer[t] = None /\ life[d] = "unborn"
      /\ mTimer' = [mTimer EXCEPT ![t] = d] /\ mClient' = [mClient EXCEPT ![d] = t]
      /\ home' = [home EXCEPT ![d] = c] /\ life' = [life EXCEPT ![d] = "live"]
      /\ queue' = Append(queue, PushMsg(d)) /\ heap' = heap /\ stopped' = stopped /\ calledBack' = calledBack
  BY DEF Start, history
<1>2. /\ mTimer \in [Timer -> Delegate \cup {None}] /\ mClient \in [Delegate -> Timer \cup {None}]
      /\ home \in [Delegate -> Container \cup {None}] /\ life \in [Delegate -> {"unborn", "live", "deleted"}]
      /\ heap \in [Container -> SUBSET Delegate] /\ queue \in Seq(Message) /\ PushMsg(d) \in Message
  BY PushIsMessage DEF TimerTypeOK
<1>3. mClient[d] = None /\ Mail(d) = {}
  BY <1>1 DEF Objects, NoneIsUnborn
<1>4. TimersArePaired'
  <2>1. ASSUME NEW u \in Timer, mTimer'[u] # None PROVE mClient'[mTimer'[u]] = u
    <3>1. CASE u = t
      BY <1>1, <1>2, <3>1
    <3>2. CASE u # t
      <4>1. mTimer'[u] = mTimer[u] /\ mTimer[u] \in Delegate
        BY <1>1, <1>2, <2>1, <3>2
      <4>2. mClient[mTimer[u]] = u
        BY <2>1, <4>1 DEF Objects, TimersArePaired
      <4>3. mTimer[u] # d
        BY <1>3, <4>2, NoneAssumption
      <4> QED
        BY <1>1, <1>2, <4>1, <4>2, <4>3
    <3> QED
      BY <3>1, <3>2
  <2>2. ASSUME NEW e \in Delegate, mClient'[e] # None PROVE mTimer'[mClient'[e]] = e
    <3>1. CASE e = d
      BY <1>1, <1>2, <3>1
    <3>2. CASE e # d
      <4>1. mClient'[e] = mClient[e] /\ mClient[e] \in Timer
        BY <1>1, <1>2, <2>2, <3>2
      <4>2. mTimer[mClient[e]] = e
        BY <2>2, <4>1 DEF Objects, TimersArePaired
      <4>3. mClient[e] # t
        BY <1>1, <4>2, NoneAssumption
      <4> QED
        BY <1>1, <1>2, <4>1, <4>2, <4>3
    <3> QED
      BY <3>1, <3>2
  <2> QED
    BY <2>1, <2>2 DEF TimersArePaired
<1>5. /\ \A i \in DOMAIN queue : queue'[i] = queue[i]
      /\ \A i \in DOMAIN queue' : i \in DOMAIN queue \/ queue'[i] = PushMsg(d)
      /\ \A e : e # d => Mail(e)' = Mail(e)
  BY <1>1, <1>2, MailAppend, MessagesDiffer
<1>6. NoneIsUnborn'
  <2> SUFFICES ASSUME NEW e \in Delegate
               PROVE  IF life'[e] = "unborn"
                      THEN mClient'[e] = None /\ Mail(e)' = {} /\ e \notin stopped' \cup calledBack'
                      ELSE home'[e] \in Container
    BY DEF NoneIsUnborn
  <2>1. CASE e = d
    BY <1>1, <1>2, <2>1
  <2>2. CASE e # d
    <3>1. mClient'[e] = mClient[e] /\ Mail(e)' = Mail(e) /\ life'[e] = life[e] /\ home'[e] = home[e]
      BY <1>1, <1>2, <1>5, <2>2
    <3> QED
      BY <1>1, <3>1 DEF Objects, NoneIsUnborn
  <2> QED
    BY <2>1, <2>2
<1>7. HeapsAreHome'
  <2> SUFFICES ASSUME NEW b \in Container, NEW e \in heap[b]
               PROVE  home'[e] = b /\ life'[e] = "live"
    BY <1>1 DEF HeapsAreHome
  <2>1. e \in Delegate /\ home[e] = b /\ life[e] = "live"
    BY <1>2 DEF Objects, HeapsAreHome
  <2>2. e # d
    BY <1>1, <2>1
  <2> QED
    BY <1>1, <1>2, <2>1, <2>2
<1>8. RemoveIsLast'
  <2> SUFFICES ASSUME NEW e \in Delegate
               PROVE  /\ \A i \in DOMAIN queue' :
                           queue'[i] = RemoveMsg(e) => mClient'[e] = None /\ \A j \in Mail(e)' : j <= i
                      /\ life'[e] = "deleted" => mClient'[e] = None /\ Mail(e)' = {}
    BY DEF RemoveIsLast, RemoveMsg
  <2>1. ASSUME NEW i \in DOMAIN queue', queue'[i] = RemoveMsg(e)
        PROVE  i \in DOMAIN queue /\ queue[i] = RemoveMsg(e) /\ i \in Mail(e)
    BY <1>5, <2>1, MessagesDiffer DEF Mail
  <2>2. CASE e = d
    BY <1>1, <1>2, <1>3, <2>1, <2>2
  <2>3. CASE e # d
    <3>1. mClient'[e] = mClient[e] /\ Mail(e)' = Mail(e) /\ life'[e] = life[e]
      BY <1>1, <1>2, <1>5, <2>3
    <3> QED
      BY <2>1, <3>1 DEF Objects, RemoveIsLast
  <2> QED
    BY <2>2, <2>3
<1> QED
  BY <1>4, <1>6, <1>7, <1>8 DEF Objects

(* The message that removes a delegate was the last about it.              *)
LEMMA RemovingKeepsObjects ==
  ASSUME TimerTypeOK, Objects, ProcRemove
  PROVE  Objects'
<1>0. PICK d : d = Head(queue).timer
  OBVIOUS
<1>1. queue # <<>> /\ Head(queue).kind = "Remove" /\ queue' = Tail(queue)
  BY DEF ProcRemove, Receive, Done
<1>2. d \in Delegate /\ home[d] \in Container
  BY <1>0, <1>1, HeadIsLive DEF Objects
<1>3. /\ heap' = [heap EXCEPT ![home[d]] = @ \ {d}] /\ life' = [life EXCEPT ![d] = "deleted"]
      /\ UNCHANGED <<mTimer, mClient, home, stopped, calledBack>>
  BY <1>0 DEF ProcRemove, objects, history
<1>4. queue \in Seq(Message) /\ life \in [Delegate -> {"unborn", "live", "deleted"}]
      /\ heap \in [Container -> SUBSET Delegate]
  BY DEF TimerTypeOK
<1>5. 1 \in DOMAIN queue /\ queue[1] = RemoveMsg(d)
  BY <1>0, <1>1, <1>4, Popped, MessageKinds
<1>6. mClient[d] = None /\ \A j \in Mail(d) : j <= 1
  BY <1>2, <1>5 DEF Objects, RemoveIsLast
<1>7. /\ \A i \in DOMAIN queue' : i \in Nat /\ i + 1 \in DOMAIN queue /\ queue'[i] = queue[i + 1]
      /\ \A e : \A i \in Mail(e)' : i \in Nat /\ i + 1 \in Mail(e)
  BY <1>1, <1>4, MailTail
<1>8. \A i \in DOMAIN queue' : i # 0
  BY <1>1, <1>4, Popped
<1>9. Mail(d)' = {}
  <2> SUFFICES ASSUME NEW i \in Mail(d)' PROVE FALSE
    OBVIOUS
  <2>1. i \in Nat /\ i + 1 \in Mail(d)
    BY <1>7
  <2>2. i \in DOMAIN queue'
    BY DEF Mail
  <2> QED
    BY <1>6, <1>8, <2>1, <2>2
<1>10. \A e : Mail(e) = {} => Mail(e)' = {}
  BY <1>7
<1>11. TimersArePaired'
  BY <1>3 DEF Objects, TimersArePaired
<1>12. NoneIsUnborn'
  <2> SUFFICES ASSUME NEW e \in Delegate
               PROVE  IF life'[e] = "unborn"
                      THEN mClient'[e] = None /\ Mail(e)' = {} /\ e \notin stopped' \cup calledBack'
                      ELSE home'[e] \in Container
    BY DEF NoneIsUnborn
  <2>1. CASE e = d
    BY <1>2, <1>3, <1>4, <2>1
  <2>2. CASE e # d
    <3>1. life'[e] = life[e]
      BY <1>3, <1>4, <2>2
    <3> QED
      BY <1>3, <1>10, <3>1 DEF Objects, NoneIsUnborn
  <2> QED
    BY <2>1, <2>2
<1>13. HeapsAreHome'
  <2> SUFFICES ASSUME NEW b \in Container, NEW e \in heap'[b]
               PROVE  home'[e] = b /\ life'[e] = "live"
    BY DEF HeapsAreHome
  <2>1. e \in heap[b] /\ (b = home[d] => e # d)
    BY <1>2, <1>3, <1>4
  <2>2. e \in Delegate /\ home[e] = b /\ life[e] = "live"
    BY <1>4, <2>1 DEF Objects, HeapsAreHome
  <2> QED
    BY <1>3, <1>4, <2>1, <2>2
<1>14. RemoveIsLast'
  <2> SUFFICES ASSUME NEW e \in Delegate
               PROVE  /\ \A i \in DOMAIN queue' :
                           queue'[i] = RemoveMsg(e) => mClient'[e] = None /\ \A j \in Mail(e)' : j <= i
                      /\ life'[e] = "deleted" => mClient'[e] = None /\ Mail(e)' = {}
    BY DEF RemoveIsLast, RemoveMsg
  <2>1. ASSUME NEW i \in DOMAIN queue', queue'[i] = RemoveMsg(e)
        PROVE  mClient'[e] = None /\ \A j \in Mail(e)' : j <= i
    <3>1. i \in Nat /\ i + 1 \in DOMAIN queue /\ queue[i + 1] = RemoveMsg(e)
      BY <1>7, <2>1
    <3>2. mClient[e] = None /\ \A j \in Mail(e) : j <= i + 1
      BY <3>1 DEF Objects, RemoveIsLast
    <3>3. ASSUME NEW j \in Mail(e)' PROVE j <= i
      <4>1. j \in Nat /\ j + 1 \in Mail(e)
        BY <1>7, <3>3
      <4>2. j + 1 <= i + 1
        BY <3>2, <4>1
      <4> QED
        BY <3>1, <4>1, <4>2
    <3> QED
      BY <1>3, <3>2, <3>3
  <2>2. ASSUME life'[e] = "deleted" PROVE mClient'[e] = None /\ Mail(e)' = {}
    <3>1. CASE e = d
      BY <1>3, <1>6, <1>9, <3>1
    <3>2. CASE e # d
      BY <1>3, <1>4, <1>10, <2>2, <3>2 DEF Objects, RemoveIsLast
    <3> QED
      BY <3>1, <3>2
  <2> QED
    BY <2>1, <2>2
<1> QED
  BY <1>11, <1>12, <1>13, <1>14 DEF Objects

(* Steps that touch neither the objects nor their messages.                *)
LEMMA HeapsShrinkHome ==
  ASSUME HeapsAreHome, \A c \in Container : heap'[c] \subseteq heap[c], UNCHANGED <<home, life>>
  PROVE  HeapsAreHome'
  BY DEF HeapsAreHome

LEMMA OthersKeepObjects ==
  ASSUME Objects, \A c \in Container : heap'[c] \subseteq heap[c],
         UNCHANGED <<mTimer, mClient, home, life, queue>>,
         \A d \in Delegate : d \in stopped' \cup calledBack' => d \in stopped \cup calledBack \/ life[d] # "unborn"
  PROVE  Objects'
<1>1. HeapsAreHome' /\ TimersArePaired'
  BY HeapsShrinkHome DEF Objects, TimersArePaired
<1>2. \A d : Mail(d)' = Mail(d)
  BY DEF Mail, PushMsg, RemoveMsg
<1>3. NoneIsUnborn'
  BY <1>2 DEF Objects, NoneIsUnborn
<1>4. RemoveIsLast'
  BY <1>2 DEF Objects, RemoveIsLast, RemoveMsg
<1> QED
  BY <1>1, <1>3, <1>4 DEF Objects

LEMMA ObjectsMsgTask ==
  ASSUME TimerTypeOK, Objects, TaskHoldsLive, MsgTask
  PROVE  Objects'
<1>1. CASE ProcPush
  <2> DEFINE d == Head(queue).timer
  <2>1. queue # <<>> /\ Head(queue).kind = "Push" /\ queue' = Tail(queue)
    BY <1>1 DEF ProcPush, Receive, Done
  <2>2. d \in Delegate /\ home[d] \in Container /\ life[d] = "live"
    BY <2>1, HeadIsLive DEF Objects
  <2>3. heap' = [heap EXCEPT ![home[d]] = @ \cup {d}]
        /\ UNCHANGED <<mTimer, mClient, home, life, history>>
    BY <1>1 DEF ProcPush, objects
  <2>4. NoneIsUnborn' /\ RemoveIsLast'
    BY <2>1, <2>3, TailKeepsObjects DEF Objects
  <2>5. HeapsAreHome'
    BY <2>2, <2>3 DEF Objects, HeapsAreHome, TimerTypeOK
  <2>6. TimersArePaired'
    BY <2>3 DEF Objects, TimersArePaired
  <2> QED
    BY <2>4, <2>5, <2>6 DEF Objects
<1>2. CASE ProcRemove
  BY <1>2, RemovingKeepsObjects
<1>3. CASE ProcExpire
  <2> DEFINE c == Head(queue).container
  <2>1. queue # <<>> /\ Head(queue).kind = "Expire" /\ queue' = Tail(queue)
        /\ UNCHANGED <<mTimer, mClient, home, life, history>>
    BY <1>3 DEF ProcExpire, Receive, Done, objects
  <2>2. Head(queue) \in Message /\ now \in Nat
    BY <2>1, Popped DEF TimerTypeOK
  <2>3. c \in Container
    BY <2>1, <2>2, MessageKinds
  <2>4. UNCHANGED heap \/ PopTimer(c, now)
    BY <1>3 DEF ProcExpire
  <2>5. \A b \in Container : heap'[b] \subseteq heap[b]
    <3>1. CASE PopTimer(c, now)
      BY <2>2, <2>3, <3>1, PopShape
    <3> QED
      BY <2>4, <3>1
  <2>6. NoneIsUnborn' /\ RemoveIsLast'
    BY <2>1, TailKeepsObjects DEF Objects
  <2>7. HeapsAreHome' /\ TimersArePaired'
    BY <2>1, <2>5, HeapsShrinkHome DEF Objects, TimersArePaired
  <2> QED
    BY <2>6, <2>7 DEF Objects
<1>4. CASE ArmTimer \/ EndExpire
  BY <1>4, OthersKeepObjects DEF ArmTimer, EndExpire, objects, history
<1>5. CASE PopNext
  <2>1. task.c \in Container /\ task.at \in Nat
    BY <1>5, TaskParts DEF PopNext, TimerTypeOK
  <2>2. \A b \in Container : heap'[b] \subseteq heap[b]
    BY <1>5, <2>1, PopShape DEF PopNext
  <2> QED
    BY <1>5, <2>2, OthersKeepObjects DEF PopNext, objects, history
<1>6. CASE ExpireStop
  <2>1. task.client \in Timer /\ UNCHANGED <<life, heap, stopped, calledBack>>
    BY <1>6, TaskParts DEF ExpireStop, TimerTypeOK, history
  <2>2. CASE StopTimer(task.client)
    BY <2>1, <2>2, StoppingKeepsObjects
  <2>3. CASE UNCHANGED <<objects, queue>>
    BY <2>1, <2>3, OthersKeepObjects DEF objects
  <2> QED
    BY <1>6, <2>2, <2>3 DEF ExpireStop
<1>7. CASE TimeOutCallback
  <2>1. life[task.stopped] = "live" /\ calledBack' = calledBack \cup {task.stopped} /\ stopped' = stopped
        /\ UNCHANGED <<mTimer, mClient, home, life, queue, heap>>
    BY <1>7 DEF TimeOutCallback, TaskHoldsLive, objects
  <2> QED
    BY <2>1, OthersKeepObjects
<1> QED
  BY <1>1, <1>2, <1>3, <1>4, <1>5, <1>6, <1>7 DEF MsgTask

LEMMA ObjectsStep ==
  ASSUME TimerTypeOK, Objects, TaskHoldsLive, [Next]_vars
  PROVE  Objects'
<1>1. CASE Client
  <2>1. ASSUME NEW t \in Timer, Stop(t) PROVE Objects'
    <3>1. stopped' \cup calledBack' \subseteq stopped \cup calledBack \cup {mTimer[t]}
      BY <2>1 DEF Stop
    <3> QED
      BY <2>1, <3>1, StoppingKeepsObjects DEF Stop
  <2> QED
    BY <1>1, <2>1, StartKeepsObjects DEF Client
<1>2. CASE PollTask
  <2>1. CASE EpollWait
    BY <2>1, OthersKeepObjects DEF EpollWait, objects, history
  <2>2. ASSUME NEW c \in Container, Disarm(c) \/ RemovePoll(c) PROVE Objects'
    BY <2>2, OthersKeepObjects DEF Disarm, RemovePoll, objects, history
  <2>3. ASSUME NEW c \in Container, PostExpire(c) PROVE Objects'
    <3>1. queue' = Append(queue, ExpireMsg(c)) /\ UNCHANGED <<mTimer, mClient, home, life, history, heap>>
      BY <2>3 DEF PostExpire, objects
    <3>2. NoneIsUnborn' /\ RemoveIsLast'
      BY <3>1, ExpiryKeepsObjects DEF Objects
    <3>3. HeapsAreHome' /\ TimersArePaired'
      BY <3>1 DEF Objects, HeapsAreHome, TimersArePaired
    <3> QED
      BY <3>2, <3>3 DEF Objects
  <2> QED
    BY <1>2, <2>1, <2>2, <2>3 DEF PollTask
<1>3. CASE Tick \/ UNCHANGED vars
  BY <1>3, OthersKeepObjects DEF Tick, vars, objects, history
<1> QED
  BY <1>1, <1>2, <1>3, ObjectsMsgTask DEF Next

-----------------------------------------------------------------------------
(* Who was stopped, and who was called back.                               *)

Ended == TaskHoldsLive /\ DoneIsReleased /\ StopIsFinal

(* Between steps of the message thread that end a delegate's run.          *)
LEMMA KeepsEnded ==
  ASSUME Ended, UNCHANGED <<mClient, life, history>>, task' = task \/ task'.pc \notin {"expiring", "calling"}
  PROVE  Ended'
  BY DEF Ended, TaskHoldsLive, DoneIsReleased, StopIsFinal, history

LEMMA PopKeepsEnded ==
  ASSUME TimerTypeOK, HeapsAreHome, Ended, NEW c \in Container, NEW t \in Nat, PopTimer(c, t),
         UNCHANGED <<mClient, life, history>>
  PROVE  Ended'
<1>1. task'.pc \in {"looping", "expiring"} /\ (task'.pc = "expiring" => task'.timer \in heap[c])
  BY PopShape
<1>2. \A d \in heap[c] : life[d] = "live"
  BY DEF HeapsAreHome
<1> QED
  BY <1>1, <1>2 DEF Ended, TaskHoldsLive, DoneIsReleased, StopIsFinal, history

LEMMA EndedClient ==
  ASSUME TimerTypeOK, Objects, Ended, Client
  PROVE  Ended'
<1>1. ASSUME NEW t \in Timer, Stop(t) PROVE Ended'
  <2>1. PICK d : d = mTimer[t]
    OBVIOUS
  <2>2. /\ d \in Delegate /\ mClient[d] = t /\ t # None /\ mClient' = [mClient EXCEPT ![d] = None]
        /\ stopped' = stopped \cup {d}
    BY <1>1, <2>1, StopShape DEF Stop, Objects
  <2>3. mClient \in [Delegate -> Timer \cup {None}] /\ stopped \subseteq Delegate /\ calledBack \subseteq Delegate
        /\ task \in Task
    BY DEF TimerTypeOK
  <2>4. UNCHANGED <<life, task, calledBack>>
    BY <1>1 DEF Stop
  <2>5. d \notin calledBack
    BY <2>2 DEF Ended, DoneIsReleased
  <2>6. \A e \in Delegate : mClient[e] = None => mClient'[e] = None
    BY <2>2, <2>3
  <2>7. TaskHoldsLive'
    <3>1. task'.pc = "calling" => task'.stopped \in Delegate
      BY <2>3, <2>4, TaskParts
    <3>2. task.pc = "calling" => task.stopped # d
      BY <2>2 DEF Ended, TaskHoldsLive
    <3> QED
      BY <2>2, <2>4, <2>6, <3>1, <3>2 DEF Ended, TaskHoldsLive
  <2>8. mClient'[d] = None
    BY <2>2, <2>3
  <2>9. DoneIsReleased'
    BY <2>2, <2>3, <2>4, <2>6, <2>8 DEF Ended, DoneIsReleased
  <2>10. StopIsFinal'
    BY <2>2, <2>4, <2>5 DEF Ended, StopIsFinal
  <2> QED
    BY <2>7, <2>9, <2>10 DEF Ended
<1>2. ASSUME NEW t \in Timer, NEW d \in Delegate, NEW c \in Container, NEW delay \in Delays,
             Start(t, d, c, delay)
      PROVE  Ended'
  <2>1. life[d] = "unborn" /\ mClient' = [mClient EXCEPT ![d] = t] /\ life' = [life EXCEPT ![d] = "live"]
        /\ UNCHANGED <<task, stopped, calledBack>>
    BY <1>2 DEF Start, history
  <2>2. mClient \in [Delegate -> Timer \cup {None}] /\ life \in [Delegate -> {"unborn", "live", "deleted"}]
        /\ task \in Task /\ stopped \cup calledBack \subseteq Delegate
    BY DEF TimerTypeOK
  <2>3. d \notin stopped \cup calledBack
    BY <2>1 DEF Objects, NoneIsUnborn
  <2>4. \A e \in Delegate : e # d => mClient'[e] = mClient[e] /\ life'[e] = life[e]
    BY <2>1, <2>2
  <2>5. TaskHoldsLive'
    <3>1. (task.pc = "calling" => task.stopped \in Delegate) /\ (task.pc = "expiring" => task.timer \in Delegate)
      BY <2>2, TaskParts
    <3>2. (task.pc = "calling" => task.stopped # d) /\ (task.pc = "expiring" => task.timer # d)
      BY <2>1 DEF Ended, TaskHoldsLive
    <3> QED
      BY <2>1, <2>4, <3>1, <3>2 DEF Ended, TaskHoldsLive
  <2>6. DoneIsReleased'
    BY <2>1, <2>2, <2>3, <2>4 DEF Ended, DoneIsReleased
  <2>7. StopIsFinal'
    BY <2>1 DEF Ended, StopIsFinal
  <2> QED
    BY <2>5, <2>6, <2>7 DEF Ended
<1> QED
  BY <1>1, <1>2 DEF Client

LEMMA EndedMsgTask ==
  ASSUME TimerTypeOK, Objects, Ended, MsgTask
  PROVE  Ended'
<1>1. CASE ProcPush
  <2> DEFINE d == Head(queue).timer
  <2>1. task.pc = "idle" /\ queue # <<>> /\ Head(queue).kind = "Push" /\ UNCHANGED <<mClient, life, history>>
    BY <1>1, TaskShapes DEF ProcPush, Receive, objects
  <2>2. d \in Delegate /\ home[d] \in Container
    BY <2>1, HeadIsLive DEF Objects
  <2>3. Rearm(home[d], {d}) \/ UNCHANGED <<task, polled>>
    BY <1>1 DEF ProcPush
  <2>4. task'.pc \in {"idle", "arming"}
    <3>1. CASE Rearm(home[d], {d})
      BY <2>2, <3>1, RearmShape
    <3> QED
      BY <2>1, <2>3, <3>1
  <2> QED
    BY <2>1, <2>4, KeepsEnded
<1>2. CASE ProcRemove
  <2>1. PICK d : d = Head(queue).timer
    OBVIOUS
  <2>2. task.pc = "idle" /\ queue # <<>> /\ Head(queue).kind = "Remove"
        /\ UNCHANGED <<mClient, history>>
    BY <1>2, TaskShapes DEF ProcRemove, Receive, objects
  <2>3. d \in Delegate /\ home[d] \in Container
    BY <2>1, <2>2, HeadIsLive DEF Objects
  <2>4. Rearm(home[d], heap[home[d]] \ {d}) \/ UNCHANGED <<task, polled>>
    BY <1>2, <2>1 DEF ProcRemove
  <2>5. task'.pc \in {"idle", "arming"}
    <3>1. CASE Rearm(home[d], heap[home[d]] \ {d})
      <4>1. heap[home[d]] \ {d} \in SUBSET Delegate
        BY <2>3 DEF TimerTypeOK
      <4> QED
        BY <2>3, <3>1, <4>1, RearmShape
    <3> QED
      BY <2>2, <2>4, <3>1
  <2> QED
    BY <2>2, <2>5 DEF Ended, TaskHoldsLive, DoneIsReleased, StopIsFinal, history
<1>3. CASE ProcExpire
  <2> DEFINE c == Head(queue).container
  <2>1. queue # <<>> /\ Head(queue).kind = "Expire" /\ UNCHANGED <<mClient, life, history>>
    BY <1>3 DEF ProcExpire, Receive, objects
  <2>2. Head(queue) \in Message /\ now \in Nat
    BY <2>1, Popped DEF TimerTypeOK
  <2>3. c \in Container
    BY <2>1, <2>2, MessageKinds
  <2>4. UNCHANGED <<heap, task>> \/ PopTimer(c, now)
    BY <1>3 DEF ProcExpire
  <2>5. CASE PopTimer(c, now)
    BY <2>1, <2>2, <2>3, <2>5, PopKeepsEnded DEF Objects
  <2>6. CASE UNCHANGED <<heap, task>>
    BY <2>1, <2>6, KeepsEnded
  <2> QED
    BY <2>4, <2>5, <2>6
<1>4. CASE ArmTimer
  BY <1>4, TaskShapes, KeepsEnded DEF ArmTimer, objects
<1>5. CASE PopNext
  <2>1. task.c \in Container /\ task.at \in Nat
    BY <1>5, TaskParts DEF PopNext, TimerTypeOK
  <2> QED
    BY <1>5, <2>1, PopKeepsEnded DEF PopNext, objects, Objects
<1>6. CASE EndExpire
  <2>1. task.c \in Container
    BY <1>6, TaskParts DEF EndExpire, TimerTypeOK
  <2>2. heap[task.c] \in SUBSET Delegate
    BY <2>1 DEF TimerTypeOK
  <2>3. task'.pc \in {"idle", "arming"}
    BY <1>6, <2>1, <2>2, RearmShape DEF EndExpire
  <2> QED
    BY <1>6, <2>3, KeepsEnded DEF EndExpire, objects
<1>7. CASE ExpireStop
  <2>1. task.c \in Container /\ task.at \in Nat /\ task.client \in Timer
    BY <1>7, TaskParts DEF ExpireStop, TimerTypeOK
  <2>2. UNCHANGED <<life, stopped, calledBack>>
    BY <1>7 DEF ExpireStop, history
  <2>3. CASE StopTimer(task.client) /\ task' = Calling(task.c, task.at, mTimer[task.client])
    <3>1. PICK d : d = mTimer[task.client]
      OBVIOUS
    <3>2. /\ d \in Delegate /\ mClient[d] = task.client /\ task.client # None /\ life[d] = "live"
          /\ mClient' = [mClient EXCEPT ![d] = None]
      BY <2>1, <2>3, <3>1, StopShape DEF Objects
    <3>3. mClient \in [Delegate -> Timer \cup {None}] /\ stopped \cup calledBack \subseteq Delegate
      BY DEF TimerTypeOK
    <3>4. d \notin stopped
      BY <3>2 DEF Ended, DoneIsReleased
    <3>5. task'.pc = "calling" /\ task'.stopped = d
      BY <2>1, <2>3, <3>1, <3>2, TaskShapes
    <3>6. mClient'[d] = None /\ \A e \in Delegate : mClient[e] = None => mClient'[e] = None
      BY <3>2, <3>3
    <3>7. TaskHoldsLive'
      BY <2>2, <3>2, <3>4, <3>5, <3>6 DEF TaskHoldsLive
    <3>8. DoneIsReleased'
      BY <2>2, <3>3, <3>6 DEF Ended, DoneIsReleased
    <3>9. StopIsFinal'
      BY <2>2 DEF Ended, StopIsFinal
    <3> QED
      BY <3>7, <3>8, <3>9 DEF Ended
  <2>4. CASE task' = Looping(task.c, task.at) /\ UNCHANGED <<objects, queue>>
    <3>1. task'.pc = "looping"
      BY <2>1, <2>4, TaskShapes
    <3> QED
      BY <2>2, <2>4, <3>1, KeepsEnded DEF objects, history
  <2> QED
    BY <1>7, <2>3, <2>4 DEF ExpireStop
<1>8. CASE TimeOutCallback
  <2>1. task.c \in Container /\ task.at \in Nat /\ task.stopped \in Delegate
    BY <1>8, TaskParts DEF TimeOutCallback, TimerTypeOK
  <2>2. task'.pc = "looping"
    BY <1>8, <2>1, TaskShapes DEF TimeOutCallback
  <2>3. calledBack' = calledBack \cup {task.stopped} /\ UNCHANGED <<mClient, life, stopped>>
        /\ mClient[task.stopped] = None /\ task.stopped \notin stopped
    BY <1>8 DEF TimeOutCallback, Ended, TaskHoldsLive, objects
  <2> QED
    BY <2>2, <2>3 DEF Ended, TaskHoldsLive, DoneIsReleased, StopIsFinal
<1> QED
  BY <1>1, <1>2, <1>3, <1>4, <1>5, <1>6, <1>7, <1>8 DEF MsgTask

LEMMA EndedStep ==
  ASSUME TimerTypeOK, Objects, Ended, [Next]_vars
  PROVE  Ended'
<1>1. CASE PollTask
  BY <1>1, KeepsEnded DEF PollTask, EpollWait, Disarm, RemovePoll, PostExpire, objects
<1>2. CASE Tick \/ UNCHANGED vars
  BY <1>2, KeepsEnded DEF Tick, vars, objects
<1> QED
  BY <1>1, <1>2, EndedClient, EndedMsgTask DEF Next

-----------------------------------------------------------------------------
(* The wake-up of every container.                                         *)

LEMMA ComingAppend ==
  ASSUME TimerTypeOK, NEW m \in Message, queue' = Append(queue, m), NEW c \in Container,
         \E i \in DOMAIN queue : queue[i] = ExpireMsg(c)
  PROVE  \E i \in DOMAIN queue' : queue'[i] = ExpireMsg(c)
<1>1. PICK i \in DOMAIN queue : queue[i] = ExpireMsg(c)
  OBVIOUS
<1>2. i \in DOMAIN queue' /\ queue'[i] = queue[i]
  BY MailAppend DEF TimerTypeOK
<1> QED
  BY <1>1, <1>2

LEMMA ComingTail ==
  ASSUME TimerTypeOK, queue # <<>>, queue' = Tail(queue), NEW c \in Container,
         \E i \in DOMAIN queue : queue[i] = ExpireMsg(c), Head(queue) # ExpireMsg(c)
  PROVE  \E i \in DOMAIN queue' : queue'[i] = ExpireMsg(c)
<1>1. PICK i \in DOMAIN queue : queue[i] = ExpireMsg(c)
  OBVIOUS
<1>2. i # 1
  BY <1>1, Popped DEF TimerTypeOK
<1>3. i - 1 \in DOMAIN queue' /\ queue'[i - 1] = queue[i]
  BY <1>2, MailTail DEF TimerTypeOK
<1> QED
  BY <1>1, <1>3

(* A container whose heap only loses delegates, whose kernel timer stays   *)
(* and with which the message thread has nothing to do, or goes on with.   *)
LEMMA WatchGoesOn ==
  ASSUME TimerTypeOK, NEW c \in Container, heap[c] # {} => WakeUpToCome(c),
         heap'[c] \subseteq heap[c], \A d \in heap'[c] : mFutureTime'[d] = mFutureTime[d],
         fd'[c] = fd[c], polled[c] => polled'[c], firing[c] # "no" => firing'[c] # "no",
         (\E i \in DOMAIN queue : queue[i] = ExpireMsg(c)) => \E i \in DOMAIN queue' : queue'[i] = ExpireMsg(c),
         task.pc # "idle" /\ task.c = c
           => task' = task \/ (task'.pc \in {"expiring", "calling", "looping"} /\ task'.c = c)
  PROVE  heap'[c] # {} => WakeUpToCome(c)'
<1> SUFFICES ASSUME heap'[c] # {} PROVE WakeUpToCome(c)'
  OBVIOUS
<1>1. WakeUpToCome(c)
  OBVIOUS
<1>2. ASSUME NEW at, InTime(c, at) PROVE at \in Nat /\ \A d \in heap'[c] : at <= mFutureTime'[d]
  BY <1>2 DEF InTime
<1>3. CASE polled[c] /\ InTime(c, fd[c])
  <2>1. polled'[c] /\ fd'[c] \in Nat /\ \A d \in heap'[c] : fd'[c] <= mFutureTime'[d]
    BY <1>2, <1>3
  <2> QED
    BY <2>1 DEF WakeUpToCome, InTime
<1>4. CASE polled[c] /\ task.pc = "arming" /\ task.c = c /\ InTime(c, task.at)
  <2>1. CASE task' = task
    <3>1. polled'[c] /\ task'.pc = "arming" /\ task'.c = c
          /\ task'.at \in Nat /\ \A d \in heap'[c] : task'.at <= mFutureTime'[d]
      BY <1>2, <1>4, <2>1
    <3> QED
      BY <3>1 DEF WakeUpToCome, InTime
  <2>2. CASE task'.pc \in {"expiring", "calling", "looping"} /\ task'.c = c
    BY <2>2 DEF WakeUpToCome, Handling
  <2> QED
    BY <1>4, <2>1, <2>2
<1>5. CASE firing[c] # "no"
  BY <1>5 DEF WakeUpToCome
<1>6. CASE \E i \in DOMAIN queue : queue[i] = ExpireMsg(c)
  BY <1>6 DEF WakeUpToCome, ExpireMsg
<1>7. CASE Handling(c)
  <2>1. task.pc \in {"expiring", "calling", "looping"} /\ task.c = c
    BY <1>7 DEF Handling
  <2>2. task'.pc \in {"expiring", "calling", "looping"} /\ task'.c = c
    BY <2>1
  <2> QED
    BY <2>2 DEF WakeUpToCome, Handling
<1> QED
  BY <1>1, <1>3, <1>4, <1>5, <1>6, <1>7 DEF WakeUpToCome

(* Setting the kernel timer for the delegates left in a heap.              *)
LEMMA RearmWatches ==
  ASSUME TimerTypeOK, NEW c \in Container, NEW S \in SUBSET Delegate, Rearm(c, S), S # {},
         heap'[c] \in SUBSET Delegate, mFutureTime' = mFutureTime,
         \A e \in Soonest(S) : \A d \in heap'[c] : mFutureTime[e] <= mFutureTime[d]
  PROVE  /\ WakeUpToCome(c)'
         /\ task'.c = c /\ task'.at \in Nat /\ \A d \in heap'[c] : task'.at <= mFutureTime'[d]
<1>1. PICK e \in Soonest(S) : task' = Arming(c, mFutureTime[e])
  BY RearmShape
<1>2. mFutureTime[e] \in Nat
  BY <1>1 DEF Soonest, TimerTypeOK
<1>3. task'.pc = "arming" /\ task'.c = c /\ task'.at = mFutureTime[e]
  BY <1>1, <1>2, TaskShapes
<1>5. polled'[c] = TRUE
  BY RearmShape
<1>4. task'.at \in Nat /\ \A d \in heap'[c] : task'.at <= mFutureTime'[d]
  BY <1>1, <1>2, <1>3
<1> QED
  BY <1>3, <1>4, <1>5 DEF WakeUpToCome, InTime

LEMMA WatchClient ==
  ASSUME TimerTypeOK, Objects, TimersAreWatched, Client
  PROVE  TimersAreWatched'
<1> SUFFICES ASSUME NEW c \in Container PROVE heap'[c] # {} => WakeUpToCome(c)'
  BY DEF TimersAreWatched
<1>0. heap[c] # {} => WakeUpToCome(c)
  BY DEF TimersAreWatched
<1>1. ASSUME NEW t \in Timer, Stop(t) PROVE heap'[c] # {} => WakeUpToCome(c)'
  <2>1. PICK m \in Message : queue' = Append(queue, m)
    BY <1>1, StopShape, RemoveIsMessage DEF Stop, Objects
  <2>2. UNCHANGED <<mFutureTime, heap, task, fd, polled, firing>>
    BY <1>1 DEF Stop, StopTimer, kernel
  <2>3. (\E i \in DOMAIN queue : queue[i] = ExpireMsg(c)) => \E i \in DOMAIN queue' : queue'[i] = ExpireMsg(c)
    BY <2>1, ComingAppend
  <2> QED
    BY <1>0, <2>2, <2>3, WatchGoesOn
<1>2. ASSUME NEW t \in Timer, NEW d \in Delegate, NEW b \in Container, NEW delay \in Delays,
             Start(t, d, b, delay)
      PROVE  heap'[c] # {} => WakeUpToCome(c)'
  <2>1. queue' = Append(queue, PushMsg(d)) /\ PushMsg(d) \in Message
    BY <1>2, PushIsMessage DEF Start
  <2>2. UNCHANGED <<heap, task, fd, polled, firing>> /\ life[d] = "unborn"
        /\ mFutureTime' = [mFutureTime EXCEPT ![d] = now + delay]
    BY <1>2 DEF Start, kernel
  <2>3. (\E i \in DOMAIN queue : queue[i] = ExpireMsg(c)) => \E i \in DOMAIN queue' : queue'[i] = ExpireMsg(c)
    BY <2>1, ComingAppend
  <2>4. \A e \in heap'[c] : mFutureTime'[e] = mFutureTime[e]
    BY <2>2 DEF Objects, HeapsAreHome, TimerTypeOK
  <2> QED
    BY <1>0, <2>2, <2>3, <2>4, WatchGoesOn
<1> QED
  BY <1>1, <1>2 DEF Client

LEMMA WatchPush ==
  ASSUME TimerTypeOK, Objects, TimersAreWatched, ProcPush
  PROVE  TimersAreWatched'
<1>1. PICK d : d = Head(queue).timer
  OBVIOUS
<1>2. PICK c : c = home[d]
  OBVIOUS
<1>3. task.pc = "idle" /\ queue # <<>> /\ Head(queue).kind = "Push" /\ queue' = Tail(queue)
      /\ UNCHANGED <<mFutureTime, fd, firing>>
  BY TaskShapes DEF ProcPush, Receive, Done, objects
<1>4. d \in Delegate /\ c \in Container
  BY <1>1, <1>2, <1>3, HeadIsLive DEF Objects
<1>5. heap' = [heap EXCEPT ![c] = @ \cup {d}]
      /\ IF \A e \in heap[c] : mFutureTime[d] < mFutureTime[e] THEN Rearm(c, {d}) ELSE UNCHANGED <<task, polled>>
  BY <1>1, <1>2 DEF ProcPush
<1>6. /\ heap \in [Container -> SUBSET Delegate] /\ mFutureTime \in [Delegate -> Nat] /\ {d} \in SUBSET Delegate
  BY <1>4 DEF TimerTypeOK
<1>7. \A b \in Container : polled[b] => polled'[b]
  BY <1>4, <1>5, <1>6, RearmShape
<1>8. \A b \in Container :
        (\E i \in DOMAIN queue : queue[i] = ExpireMsg(b)) => \E i \in DOMAIN queue' : queue'[i] = ExpireMsg(b)
  <2>1. \A b : Head(queue) # ExpireMsg(b)
    BY <1>3 DEF ExpireMsg
  <2> QED
    BY <1>3, <2>1, ComingTail
<1> SUFFICES ASSUME NEW b \in Container PROVE heap'[b] # {} => WakeUpToCome(b)'
  BY DEF TimersAreWatched
<1>9. heap[b] # {} => WakeUpToCome(b)
  BY DEF TimersAreWatched
<1>10. CASE b # c
  <2>1. heap'[b] = heap[b]
    BY <1>5, <1>6, <1>10
  <2> QED
    BY <1>3, <1>7, <1>8, <1>9, <2>1, WatchGoesOn
<1>11. CASE b = c /\ \A e \in heap[c] : mFutureTime[d] < mFutureTime[e]
  <2>1. Rearm(c, {d}) /\ heap'[c] = heap[c] \cup {d}
    BY <1>4, <1>5, <1>6, <1>11
  <2>2. heap'[c] \in SUBSET Delegate
    BY <1>4, <1>6, <2>1
  <2>3. ASSUME NEW e \in Soonest({d}), NEW f \in heap'[c] PROVE mFutureTime[e] <= mFutureTime[f]
    <3>1. e = d
      BY DEF Soonest
    <3>2. mFutureTime[d] \in Nat /\ mFutureTime[f] \in Nat
      BY <1>4, <1>6, <2>2
    <3>3. f = d \/ mFutureTime[d] < mFutureTime[f]
      BY <1>11, <2>1
    <3> QED
      BY <3>1, <3>2, <3>3
  <2>4. WakeUpToCome(c)'
    BY <1>3, <1>4, <1>6, <2>1, <2>2, <2>3, RearmWatches
  <2> QED
    BY <1>11, <2>4
<1>12. CASE b = c /\ \E e \in heap[c] : ~ (mFutureTime[d] < mFutureTime[e])
  <2>1. PICK e \in heap[c] : ~ (mFutureTime[d] < mFutureTime[e])
    BY <1>12
  <2>2. UNCHANGED <<task, polled>> /\ heap'[c] = heap[c] \cup {d}
    BY <1>4, <1>5, <1>6, <1>12
  <2>3. WakeUpToCome(c)
    BY <1>9, <1>12, <2>1
  <2>4. CASE polled[c] /\ InTime(c, fd[c])
    <3>1. fd[c] \in Nat /\ fd[c] <= mFutureTime[e]
      BY <2>1, <2>4 DEF InTime
    <3>2. mFutureTime[d] \in Nat /\ mFutureTime[e] \in Nat
      BY <1>4, <1>6, <2>1
    <3>3. fd[c] <= mFutureTime[d]
      BY <2>1, <3>1, <3>2
    <3>4. polled'[c] /\ fd'[c] \in Nat /\ \A f \in heap'[c] : fd'[c] <= mFutureTime'[f]
      BY <1>3, <2>2, <2>4, <3>3 DEF InTime
    <3> QED
      BY <1>12, <3>4 DEF WakeUpToCome, InTime
  <2>5. CASE firing[c] # "no"
    BY <1>3, <1>12, <2>5 DEF WakeUpToCome
  <2>6. CASE \E i \in DOMAIN queue : queue[i] = ExpireMsg(c)
    BY <1>4, <1>8, <1>12, <2>6 DEF WakeUpToCome, ExpireMsg
  <2> QED
    BY <1>3, <2>3, <2>4, <2>5, <2>6 DEF WakeUpToCome, Handling
<1> QED
  BY <1>10, <1>11, <1>12

LEMMA WatchRemove ==
  ASSUME TimerTypeOK, Objects, TimersAreWatched, ProcRemove
  PROVE  TimersAreWatched'
<1>1. PICK d : d = Head(queue).timer
  OBVIOUS
<1>2. PICK c : c = home[d]
  OBVIOUS
<1>3. task.pc = "idle" /\ queue # <<>> /\ Head(queue).kind = "Remove" /\ queue' = Tail(queue)
      /\ UNCHANGED <<mFutureTime, fd, firing>>
  BY TaskShapes DEF ProcRemove, Receive, Done, objects
<1>4. d \in Delegate /\ c \in Container
  BY <1>1, <1>2, <1>3, HeadIsLive DEF Objects
<1>5. /\ heap' = [heap EXCEPT ![c] = @ \ {d}]
      /\ Rearm(c, heap[c] \ {d}) \/ UNCHANGED <<task, polled>>
  BY <1>1, <1>2 DEF ProcRemove
<1>6. /\ heap \in [Container -> SUBSET Delegate] /\ mFutureTime \in [Delegate -> Nat]
      /\ heap[c] \ {d} \in SUBSET Delegate
  BY <1>4 DEF TimerTypeOK
<1>7. \A b \in Container : polled[b] => polled'[b]
  BY <1>4, <1>5, <1>6, RearmShape
<1>8. \A b \in Container :
        (\E i \in DOMAIN queue : queue[i] = ExpireMsg(b)) => \E i \in DOMAIN queue' : queue'[i] = ExpireMsg(b)
  <2>1. \A b : Head(queue) # ExpireMsg(b)
    BY <1>3 DEF ExpireMsg
  <2> QED
    BY <1>3, <2>1, ComingTail
<1> SUFFICES ASSUME NEW b \in Container PROVE heap'[b] # {} => WakeUpToCome(b)'
  BY DEF TimersAreWatched
<1>9. heap[b] # {} => WakeUpToCome(b)
  BY DEF TimersAreWatched
<1>10. heap'[b] \subseteq heap[b]
  BY <1>5, <1>6
<1>11. CASE b # c \/ UNCHANGED <<task, polled>>
  BY <1>3, <1>7, <1>8, <1>9, <1>10, WatchGoesOn
<1>12. CASE b = c /\ Rearm(c, heap[c] \ {d})
  <2>1. heap'[c] = heap[c] \ {d}
    BY <1>4, <1>5, <1>6
  <2>2. ASSUME NEW e \in Soonest(heap[c] \ {d}), NEW f \in heap'[c] PROVE mFutureTime[e] <= mFutureTime[f]
    BY <2>1 DEF Soonest
  <2>3. CASE heap[c] \ {d} # {}
    BY <1>3, <1>4, <1>6, <1>12, <2>1, <2>2, <2>3, RearmWatches
  <2> QED
    BY <1>12, <2>1, <2>3
<1> QED
  BY <1>5, <1>11, <1>12

LEMMA WatchExpire ==
  ASSUME TimerTypeOK, TimersAreWatched, ProcExpire
  PROVE  TimersAreWatched'
<1>1. PICK c : c = Head(queue).container
  OBVIOUS
<1>2. task.pc = "idle" /\ queue # <<>> /\ Head(queue).kind = "Expire" /\ queue' = Tail(queue)
      /\ UNCHANGED <<mFutureTime, fd, polled, firing>>
  BY TaskShapes DEF ProcExpire, Receive, Done, objects, kernel
<1>3. c \in Container /\ Head(queue) = ExpireMsg(c) /\ now \in Nat
  BY <1>1, <1>2, Popped, MessageKinds DEF TimerTypeOK
<1>4. IF heap[c] = {} THEN UNCHANGED <<heap, task>> ELSE PopTimer(c, now)
  BY <1>1 DEF ProcExpire
<1>5. CASE heap[c] # {}
  <2>1. /\ task'.pc \in {"looping", "expiring"} /\ task'.c = c
        /\ \A b \in Container : b # c => heap'[b] = heap[b]
    BY <1>3, <1>4, <1>5, PopShape
  <2> SUFFICES ASSUME NEW b \in Container PROVE heap'[b] # {} => WakeUpToCome(b)'
    BY DEF TimersAreWatched
  <2>2. CASE b = c
    BY <2>1, <2>2 DEF WakeUpToCome, Handling
  <2>3. CASE b # c
    <3>1. heap[b] # {} => WakeUpToCome(b)
      BY DEF TimersAreWatched
    <3>2. (\E i \in DOMAIN queue : queue[i] = ExpireMsg(b)) => \E i \in DOMAIN queue' : queue'[i] = ExpireMsg(b)
      BY <1>2, <1>3, <2>3, MessagesDiffer, ComingTail
    <3> QED
      BY <1>2, <2>1, <2>3, <3>1, <3>2, WatchGoesOn
  <2> QED
    BY <2>2, <2>3
<1>6. CASE heap[c] = {}
  <2> SUFFICES ASSUME NEW b \in Container, heap'[b] # {} PROVE heap'[b] # {} => WakeUpToCome(b)'
    BY DEF TimersAreWatched
  <2>1. UNCHANGED <<heap, task>> /\ b # c
    BY <1>4, <1>6
  <2>2. heap[b] # {} => WakeUpToCome(b)
    BY DEF TimersAreWatched
  <2>3. (\E i \in DOMAIN queue : queue[i] = ExpireMsg(b)) => \E i \in DOMAIN queue' : queue'[i] = ExpireMsg(b)
    BY <1>2, <1>3, <2>1, MessagesDiffer, ComingTail
  <2> QED
    BY <1>2, <2>1, <2>2, <2>3, WatchGoesOn
<1> QED
  BY <1>5, <1>6

LEMMA WatchMsgTask ==
  ASSUME TimerTypeOK, Objects, ArmingIsInTime, TimersAreWatched, MsgTask
  PROVE  TimersAreWatched'
<1>1. CASE ArmTimer
  <2>1. task.pc = "arming" /\ task.c \in Container /\ task.at \in Nat
    BY <1>1, TaskParts DEF ArmTimer, TimerTypeOK
  <2>2. fd' = [fd EXCEPT ![task.c] = task.at] /\ UNCHANGED <<mFutureTime, heap, queue, polled, firing>>
    BY <1>1 DEF ArmTimer, objects
  <2>3. fd \in [Container -> Nat \cup {None}]
    BY DEF TimerTypeOK
  <2> SUFFICES ASSUME NEW b \in Container, heap'[b] # {} PROVE WakeUpToCome(b)'
    BY DEF TimersAreWatched
  <2>4. WakeUpToCome(b)
    BY <2>2 DEF TimersAreWatched
  <2>5. CASE b # task.c
    <3>1. fd'[b] = fd[b]
      BY <2>2, <2>3, <2>5
    <3> QED
      BY <2>2, <2>4, <2>5, <3>1, WatchGoesOn
  <2>6. CASE b = task.c
    <3>1. CASE polled[b]
      <4>1. polled'[b] /\ fd'[b] \in Nat /\ \A d \in heap'[b] : fd'[b] <= mFutureTime'[d]
        BY <2>1, <2>2, <2>3, <2>6, <3>1 DEF InTime, ArmingIsInTime
      <4> QED
        BY <4>1 DEF WakeUpToCome, InTime
    <3>2. CASE firing[b] # "no" \/ \E i \in DOMAIN queue : queue[i] = ExpireMsg(b)
      BY <2>2, <3>2 DEF WakeUpToCome, ExpireMsg
    <3> QED
      BY <2>1, <2>4, <2>6, <3>1, <3>2 DEF WakeUpToCome, Handling
  <2> QED
    BY <2>5, <2>6
<1>2. CASE PopNext
  <2>1. task.pc = "looping" /\ task.c \in Container /\ task.at \in Nat
    BY <1>2, TaskParts DEF PopNext, TimerTypeOK
  <2>2. task'.pc \in {"looping", "expiring"} /\ task'.c = task.c
        /\ \A b \in Container : heap'[b] \subseteq heap[b]
    BY <1>2, <2>1, PopShape DEF PopNext
  <2>3. UNCHANGED <<mFutureTime, queue, fd, polled, firing>>
    BY <1>2 DEF PopNext, objects, kernel
  <2> QED
    BY <2>1, <2>2, <2>3, WatchGoesOn DEF TimersAreWatched
<1>3. CASE EndExpire
  <2>1. task.pc = "looping" /\ task.c \in Container
    BY <1>3, TaskParts DEF EndExpire, TimerTypeOK
  <2>2. PICK c \in Container : c = task.c
    BY <2>1
  <2>3. Rearm(c, heap[c]) /\ heap[c] \in SUBSET Delegate /\ heap' = heap
        /\ UNCHANGED <<mFutureTime, queue, fd, firing>>
    BY <1>3, <2>2 DEF EndExpire, TimerTypeOK, objects
  <2>4. \A b \in Container : polled[b] => polled'[b]
    BY <2>3, RearmShape
  <2> SUFFICES ASSUME NEW b \in Container, heap'[b] # {} PROVE WakeUpToCome(b)'
    BY DEF TimersAreWatched
  <2>5. CASE b = c
    <3>1. \A e \in Soonest(heap[c]) : \A f \in heap'[c] : mFutureTime[e] <= mFutureTime[f]
      BY <2>3 DEF Soonest
    <3> QED
      BY <2>3, <2>5, <3>1, RearmWatches
  <2>6. CASE b # c
    BY <2>2, <2>3, <2>4, <2>6, WatchGoesOn DEF TimersAreWatched
  <2> QED
    BY <2>5, <2>6
<1>4. CASE ExpireStop
  <2>1. task.pc = "expiring" /\ task.c \in Container /\ task.at \in Nat /\ task.client \in Timer
    BY <1>4, TaskParts DEF ExpireStop, TimerTypeOK
  <2>2. UNCHANGED <<heap, fd, polled, firing>>
    BY <1>4 DEF ExpireStop, kernel
  <2>3. CASE StopTimer(task.client) /\ task' = Calling(task.c, task.at, mTimer[task.client])
    <3>1. PICK d \in Delegate : d = mTimer[task.client] /\ queue' = Append(queue, RemoveMsg(d))
      BY <2>1, <2>3, StopShape DEF Objects
    <3>2. task'.pc = "calling" /\ task'.c = task.c
      BY <2>1, <2>3, <3>1, TaskShapes
    <3>3. \A b \in Container :
            (\E i \in DOMAIN queue : queue[i] = ExpireMsg(b)) => \E i \in DOMAIN queue' : queue'[i] = ExpireMsg(b)
      BY <3>1, RemoveIsMessage, ComingAppend
    <3>4. mFutureTime' = mFutureTime
      BY <2>3 DEF StopTimer
    <3> QED
      BY <2>2, <3>2, <3>3, <3>4, WatchGoesOn DEF TimersAreWatched
  <2>4. CASE task' = Looping(task.c, task.at) /\ UNCHANGED <<objects, queue>>
    <3>1. task'.pc = "looping" /\ task'.c = task.c
      BY <2>1, <2>4, TaskShapes
    <3> QED
      BY <2>2, <2>4, <3>1, WatchGoesOn DEF TimersAreWatched, objects
  <2> QED
    BY <1>4, <2>3, <2>4 DEF ExpireStop
<1>5. CASE TimeOutCallback
  <2>1. task.c \in Container /\ task.at \in Nat
    BY <1>5, TaskParts DEF TimeOutCallback, TimerTypeOK
  <2>2. task'.pc = "looping" /\ task'.c = task.c /\ UNCHANGED <<mFutureTime, heap, queue, fd, polled, firing>>
    BY <1>5, <2>1, TaskShapes DEF TimeOutCallback, objects, kernel
  <2> QED
    BY <2>2, WatchGoesOn DEF TimersAreWatched
<1> QED
  BY <1>1, <1>2, <1>3, <1>4, <1>5, WatchPush, WatchRemove, WatchExpire DEF MsgTask

(* Between the poll thread's disarming and its Expire the container is     *)
(* firing, whatever the message thread armed meanwhile.                    *)
LEMMA WatchPollTask ==
  ASSUME TimerTypeOK, TimersAreWatched, PollTask
  PROVE  TimersAreWatched'
<1> SUFFICES ASSUME NEW b \in Container PROVE heap'[b] # {} => WakeUpToCome(b)'
  BY DEF TimersAreWatched
<1>0. heap[b] # {} => WakeUpToCome(b)
  BY DEF TimersAreWatched
<1>1. CASE EpollWait
  <2>1. firing[b] = "no" /\ UNCHANGED <<mFutureTime, heap, queue, task, fd, polled>>
    BY <1>1 DEF EpollWait, objects, kernel
  <2> QED
    BY <1>0, <2>1, WatchGoesOn
<1>2. ASSUME NEW c \in Container, Disarm(c) PROVE heap'[b] # {} => WakeUpToCome(b)'
  <2>1. /\ fd' = [fd EXCEPT ![c] = None] /\ firing' = [firing EXCEPT ![c] = "disarmed"]
        /\ UNCHANGED <<mFutureTime, heap, queue, task, polled>>
    BY <1>2 DEF Disarm, objects
  <2>2. fd \in [Container -> Nat \cup {None}] /\ firing \in [Container -> {"no", "woken", "disarmed", "unpolled"}]
    BY DEF TimerTypeOK
  <2>3. CASE b = c
    <3>1. firing'[b] # "no"
      BY <2>1, <2>2, <2>3
    <3> QED
      BY <3>1 DEF WakeUpToCome
  <2>4. CASE b # c
    <3>1. fd'[b] = fd[b] /\ firing'[b] = firing[b]
      BY <2>1, <2>2, <2>4
    <3> QED
      BY <1>0, <2>1, <3>1, WatchGoesOn
  <2> QED
    BY <2>3, <2>4
<1>3. ASSUME NEW c \in Container, RemovePoll(c) PROVE heap'[b] # {} => WakeUpToCome(b)'
  <2>1. /\ polled' = [polled EXCEPT ![c] = FALSE] /\ firing' = [firing EXCEPT ![c] = "unpolled"]
        /\ UNCHANGED <<mFutureTime, heap, queue, task, fd>>
    BY <1>3 DEF RemovePoll, objects
  <2>2. polled \in [Container -> BOOLEAN] /\ firing \in [Container -> {"no", "woken", "disarmed", "unpolled"}]
    BY DEF TimerTypeOK
  <2>3. CASE b = c
    <3>1. firing'[b] # "no"
      BY <2>1, <2>2, <2>3
    <3> QED
      BY <3>1 DEF WakeUpToCome
  <2>4. CASE b # c
    <3>1. polled'[b] = polled[b] /\ firing'[b] = firing[b]
      BY <2>1, <2>2, <2>4
    <3> QED
      BY <1>0, <2>1, <3>1, WatchGoesOn
  <2> QED
    BY <2>3, <2>4
<1>4. ASSUME NEW c \in Container, PostExpire(c) PROVE heap'[b] # {} => WakeUpToCome(b)'
  <2>1. /\ queue' = Append(queue, ExpireMsg(c)) /\ firing' = [firing EXCEPT ![c] = "no"]
        /\ UNCHANGED <<mFutureTime, heap, task, fd, polled>>
    BY <1>4 DEF PostExpire, objects, kernel
  <2>2. queue \in Seq(Message) /\ firing \in [Container -> {"no", "woken", "disarmed", "unpolled"}]
        /\ ExpireMsg(c) \in Message
    BY ExpireIsMessage DEF TimerTypeOK
  <2>3. CASE b = c
    <3>1. Len(queue) + 1 \in DOMAIN queue' /\ queue'[Len(queue) + 1] = ExpireMsg(b)
      BY <2>1, <2>2, <2>3, Appended
    <3> QED
      BY <3>1 DEF WakeUpToCome, ExpireMsg
  <2>4. CASE b # c
    <3>1. firing'[b] = firing[b]
      BY <2>1, <2>2, <2>4
    <3>2. (\E i \in DOMAIN queue : queue[i] = ExpireMsg(b)) => \E i \in DOMAIN queue' : queue'[i] = ExpireMsg(b)
      BY <2>1, <2>2, ComingAppend
    <3> QED
      BY <1>0, <2>1, <3>1, <3>2, WatchGoesOn
  <2> QED
    BY <2>3, <2>4
<1> QED
  BY <1>1, <1>2, <1>3, <1>4 DEF PollTask

LEMMA WatchStep ==
  ASSUME TimerTypeOK, Objects, ArmingIsInTime, TimersAreWatched, [Next]_vars
  PROVE  TimersAreWatched'
<1>1. CASE Tick \/ UNCHANGED vars
  BY <1>1, WatchGoesOn DEF TimersAreWatched, Tick, vars, objects, kernel
<1> QED
  BY <1>1, WatchClient, WatchMsgTask, WatchPollTask DEF Next

LEMMA ArmingMsgTask ==
  ASSUME TimerTypeOK, Objects, ArmingIsInTime, MsgTask, task'.pc = "arming"
  PROVE  InTime(task.c, task.at)'
<1>1. CASE ProcPush
  <2>1. PICK d : d = Head(queue).timer
    OBVIOUS
  <2>2. PICK c : c = home[d]
    OBVIOUS
  <2>3. task.pc = "idle" /\ queue # <<>> /\ Head(queue).kind = "Push" /\ mFutureTime' = mFutureTime
    BY <1>1, TaskShapes DEF ProcPush, Receive, objects
  <2>4. d \in Delegate /\ c \in Container /\ {d} \in SUBSET Delegate
    BY <2>1, <2>2, <2>3, HeadIsLive DEF Objects
  <2>5. heap' = [heap EXCEPT ![c] = @ \cup {d}]
        /\ (\A e \in heap[c] : mFutureTime[d] < mFutureTime[e]) /\ Rearm(c, {d})
    BY <1>1, <2>1, <2>2, <2>3 DEF ProcPush
  <2>6. heap'[c] = heap[c] \cup {d} /\ heap'[c] \in SUBSET Delegate /\ mFutureTime \in [Delegate -> Nat]
    BY <2>4, <2>5 DEF TimerTypeOK
  <2>7. ASSUME NEW e \in Soonest({d}), NEW f \in heap'[c] PROVE mFutureTime[e] <= mFutureTime[f]
    <3>1. e = d /\ mFutureTime[d] \in Nat /\ mFutureTime[f] \in Nat
      BY <2>4, <2>6 DEF Soonest
    <3>2. f = d \/ mFutureTime[d] < mFutureTime[f]
      BY <2>5, <2>6
    <3> QED
      BY <3>1, <3>2
  <2>8. task'.c = c /\ task'.at \in Nat /\ \A f \in heap'[c] : task'.at <= mFutureTime'[f]
    BY <2>3, <2>4, <2>5, <2>6, <2>7, RearmWatches
  <2> QED
    BY <2>8 DEF InTime
<1>2. CASE ProcRemove
  <2>1. PICK d : d = Head(queue).timer
    OBVIOUS
  <2>2. PICK c : c = home[d]
    OBVIOUS
  <2>3. task.pc = "idle" /\ queue # <<>> /\ Head(queue).kind = "Remove" /\ mFutureTime' = mFutureTime
    BY <1>2, TaskShapes DEF ProcRemove, Receive, objects
  <2>4. d \in Delegate /\ c \in Container
    BY <2>1, <2>2, <2>3, HeadIsLive DEF Objects
  <2>5. heap' = [heap EXCEPT ![c] = @ \ {d}] /\ Rearm(c, heap[c] \ {d})
    BY <1>2, <2>1, <2>2, <2>3 DEF ProcRemove
  <2>6. heap'[c] = heap[c] \ {d} /\ heap'[c] \in SUBSET Delegate
    BY <2>4, <2>5 DEF TimerTypeOK
  <2>7. heap[c] \ {d} # {}
    BY <2>3, <2>5, TaskShapes DEF Rearm
  <2>8. \A e \in Soonest(heap[c] \ {d}) : \A f \in heap'[c] : mFutureTime[e] <= mFutureTime[f]
    BY <2>6 DEF Soonest
  <2>9. task'.c = c /\ task'.at \in Nat /\ \A f \in heap'[c] : task'.at <= mFutureTime'[f]
    BY <2>3, <2>4, <2>5, <2>6, <2>7, <2>8, RearmWatches
  <2> QED
    BY <2>9 DEF InTime
<1>3. CASE EndExpire
  <2>1. task.c \in Container
    BY <1>3, TaskParts DEF EndExpire, TimerTypeOK
  <2>2. PICK c \in Container : c = task.c
    BY <2>1
  <2>3. Rearm(c, heap[c]) /\ heap[c] \in SUBSET Delegate /\ heap' = heap /\ mFutureTime' = mFutureTime
    BY <1>3, <2>2 DEF EndExpire, TimerTypeOK, objects
  <2>4. heap[c] # {}
    BY <2>3, TaskShapes DEF Rearm
  <2>5. \A e \in Soonest(heap[c]) : \A f \in heap'[c] : mFutureTime[e] <= mFutureTime[f]
    BY <2>3 DEF Soonest
  <2>6. task'.c = c /\ task'.at \in Nat /\ \A f \in heap'[c] : task'.at <= mFutureTime'[f]
    BY <2>3, <2>4, <2>5, RearmWatches
  <2> QED
    BY <2>6 DEF InTime
<1>4. CASE ProcExpire
  <2>1. queue # <<>> /\ Head(queue).kind = "Expire" /\ task.pc = "idle"
    BY <1>4, TaskShapes DEF ProcExpire, Receive
  <2>2. Head(queue).container \in Container /\ now \in Nat
    BY <2>1, Popped, MessageKinds DEF TimerTypeOK
  <2> QED
    BY <1>4, <2>1, <2>2, PopShape DEF ProcExpire
<1>5. CASE PopNext
  <2>1. task.c \in Container /\ task.at \in Nat
    BY <1>5, TaskParts DEF PopNext, TimerTypeOK
  <2> QED
    BY <1>5, <2>1, PopShape DEF PopNext
<1>6. CASE ArmTimer
  BY <1>6, TaskShapes DEF ArmTimer
<1>7. CASE ExpireStop
  <2>1. task.c \in Container /\ task.at \in Nat /\ task.client \in Timer
    BY <1>7, TaskParts DEF ExpireStop, TimerTypeOK
  <2>2. CASE StopTimer(task.client) /\ task' = Calling(task.c, task.at, mTimer[task.client])
    BY <2>1, <2>2, StopShape, TaskShapes DEF Objects
  <2>3. CASE task' = Looping(task.c, task.at)
    BY <2>1, <2>3, TaskShapes
  <2> QED
    BY <1>7, <2>2, <2>3 DEF ExpireStop
<1>8. CASE TimeOutCallback
  <2>1. task.c \in Container /\ task.at \in Nat
    BY <1>8, TaskParts DEF TimeOutCallback, TimerTypeOK
  <2> QED
    BY <1>8, <2>1, TaskShapes DEF TimeOutCallback
<1> QED
  BY <1>1, <1>2, <1>3, <1>4, <1>5, <1>6, <1>7, <1>8 DEF MsgTask

LEMMA ArmingStep ==
  ASSUME TimerTypeOK, Objects, ArmingIsInTime, [Next]_vars
  PROVE  ArmingIsInTime'
<1> SUFFICES ASSUME task'.pc = "arming" PROVE InTime(task.c, task.at)'
  BY DEF ArmingIsInTime
<1>1. ASSUME task' = task, heap' = heap, \A d \in heap[task.c] : mFutureTime'[d] = mFutureTime[d]
      PROVE  InTime(task.c, task.at)'
  BY <1>1 DEF ArmingIsInTime, InTime
<1>2. CASE Client
  <2>1. ASSUME NEW t \in Timer, Stop(t) PROVE InTime(task.c, task.at)'
    BY <1>1, <2>1 DEF Stop, StopTimer
  <2>2. ASSUME NEW t \in Timer, NEW d \in Delegate, NEW c \in Container, NEW delay \in Delays,
               Start(t, d, c, delay)
        PROVE  InTime(task.c, task.at)'
    <3>1. life[d] = "unborn" /\ mFutureTime' = [mFutureTime EXCEPT ![d] = now + delay]
          /\ task' = task /\ heap' = heap
      BY <2>2 DEF Start
    <3>2. task.c \in Container
      BY <3>1, TaskParts DEF TimerTypeOK
    <3>3. \A e \in heap[task.c] : mFutureTime'[e] = mFutureTime[e]
      BY <3>1, <3>2 DEF Objects, HeapsAreHome, TimerTypeOK
    <3> QED
      BY <1>1, <3>1, <3>3
  <2> QED
    BY <1>2, <2>1, <2>2 DEF Client
<1>3. CASE PollTask \/ Tick \/ UNCHANGED vars
  BY <1>1, <1>3 DEF PollTask, EpollWait, Disarm, RemovePoll, PostExpire, Tick, vars, objects
<1> QED
  BY <1>2, <1>3, ArmingMsgTask DEF Next

-----------------------------------------------------------------------------
(* The theorems.                                                           *)

LEMMA InvInit == Init => TimerInv
<1> SUFFICES ASSUME Init PROVE TimerInv
  OBVIOUS
<1>1. TimersArePaired /\ NoneIsUnborn /\ HeapsAreHome /\ DoneIsReleased /\ StopIsFinal /\ TimersAreWatched
  BY DEF Init, TimersArePaired, NoneIsUnborn, HeapsAreHome, DoneIsReleased, StopIsFinal, TimersAreWatched, Mail
<1>2. RemoveIsLast
  BY DEF Init, RemoveIsLast
<1>3. TaskHoldsLive /\ ArmingIsInTime
  BY DEF Init, TaskHoldsLive, ArmingIsInTime, Idle
<1> QED
  BY <1>1, <1>2, <1>3 DEF TimerInv

(* The inductive invariant: a timer and its delegate know each other, a    *)
(* delegate waits in its container's heap only while it is in use, its     *)
(* removal is the last message about it, and what the message thread       *)
(* holds has not been deleted.                                             *)
THEOREM TimersHold == Spec => [](TimerTypeOK /\ TimerInv)
<1>1. Init => TimerTypeOK /\ TimerInv
  BY TypeInit, InvInit
<1>2. TimerTypeOK /\ TimerInv /\ [Next]_vars => (TimerTypeOK /\ TimerInv)'
  <2> SUFFICES ASSUME TimerTypeOK, TimerInv, [Next]_vars PROVE TimerTypeOK' /\ TimerInv'
    OBVIOUS
  <2>1. Objects /\ Ended /\ TimersAreWatched
    BY DEF TimerInv, Objects, Ended
  <2>2. TimerTypeOK'
    BY TypeStep DEF TimerInv
  <2>3. Objects'
    BY <2>1, ObjectsStep DEF Ended
  <2>4. Ended'
    BY <2>1, EndedStep
  <2>5. TimersAreWatched'
    BY <2>1, WatchStep DEF TimerInv
  <2>6. ArmingIsInTime'
    BY <2>1, ArmingStep DEF TimerInv
  <2> QED
    BY <2>2, <2>3, <2>4, <2>5, <2>6 DEF TimerInv, Objects, Ended
<1> QED
  BY <1>1, <1>2, PTL DEF Spec

(* A client that was told by stop() that it stopped its timer is not       *)
(* called back for it, though expire() reads the client without its lock.  *)
THEOREM StoppedStaySilent == Spec => []StopIsFinal
<1>1. TimerTypeOK /\ TimerInv => StopIsFinal
  BY DEF TimerInv
<1> QED
  BY <1>1, TimersHold, PTL

(* However the poll thread's disarming and the message thread's arming     *)
(* interleave, delegates in a heap have a wake-up to come.                 *)
THEOREM WakeUpsAreNotLost == Spec => []TimersAreWatched
<1>1. TimerTypeOK /\ TimerInv => TimersAreWatched
  BY DEF TimerInv
<1> QED
  BY <1>1, TimersHold, PTL

(* Nothing touches a delegate after the message that removes it, the only  *)
(* one that deletes it.                                                    *)
THEOREM DeletedAreLetGo == Spec => []NoneHeldIsDeleted
<1>1. TimerTypeOK /\ TimerInv => NoneHeldIsDeleted
  <2> SUFFICES ASSUME TimerTypeOK, TimerInv, NEW d \in Delegate, life[d] = "deleted", d \in Held PROVE FALSE
    BY DEF NoneHeldIsDeleted
  <2>1. mClient[d] = None /\ Mail(d) = {}
    BY DEF TimerInv, RemoveIsLast
  <2>2. CASE d \in {mTimer[t] : t \in Timer}
    <3>1. PICK t \in Timer : d = mTimer[t]
      BY <2>2
    <3>2. d # None /\ t # None
      BY NoneAssumption
    <3>3. mClient[d] = t
      BY <3>1, <3>2 DEF TimerInv, TimersArePaired
    <3> QED
      BY <2>1, <3>2, <3>3
  <2>3. CASE d \in UNION {heap[c] : c \in Container}
    BY <2>3 DEF TimerInv, HeapsAreHome
  <2>4. CASE d \in {queue[i].timer : i \in {j \in DOMAIN queue : queue[j].kind # "Expire"}}
    <3>1. PICK i \in DOMAIN queue : queue[i].kind # "Expire" /\ d = queue[i].timer
      BY <2>4
    <3>2. queue[i] \in Message
      BY DEF TimerTypeOK
    <3>3. queue[i].kind \in {"Push", "Remove", "Expire"}
      BY <3>2 DEF Message
    <3>4. queue[i] = PushMsg(d) \/ queue[i] = RemoveMsg(d)
      BY <3>1, <3>2, <3>3, MessageKinds
    <3> QED
      BY <2>1, <3>4 DEF Mail
  <2>5. CASE task.pc = "expiring" /\ d = task.timer
    BY <2>5 DEF TimerInv, TaskHoldsLive
  <2>6. CASE task.pc = "calling" /\ d = task.stopped
    BY <2>6 DEF TimerInv, TaskHoldsLive
  <2>7. d \notin (IF task.pc = "expiring" THEN {task.timer} ELSE {})
    BY <2>5
  <2>8. d \notin (IF task.pc = "calling" THEN {task.stopped} ELSE {})
    BY <2>6
  <2> QED
    BY <2>2, <2>3, <2>4, <2>7, <2>8 DEF Held
<1> QED
  BY <1>1, TimersHold, PTL

=============================================================================
