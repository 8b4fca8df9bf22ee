------------------------------- MODULE MsgTask -------------------------------
(***************************************************************************)
(* A message task (utils/MsgTask.cpp): a queue that any thread may append  *)
(* to (utils/msg_q.c) and a LocThread whose runnable is the task itself:   *)
(* run() takes the oldest message and handles it.  Every state machine of  *)
(* the HAL lives in such a task, and relies on its messages being handled  *)
(* one at a time, in the order they were sent.                             *)
(*                                                                         *)
(* destroy() unblocks the queue, which makes run() give up, and lets go of *)
(* the thread; the spawned thread then deletes the task and its queue.     *)
(***************************************************************************)
EXTENDS Sequences, SequencesExt

CONSTANTS
  Task,             \* the delegate of the task's thread
  Joinable,         \* the kinds of thread asked for
  LocMsg,           \* messages, each sent at most once
  None              \* no object

ASSUME NoMessageAssumption == None \notin LocMsg

VARIABLES
  mThread, mRunnable, mJoinable, mRefCount, life, runnable, worker, threadOwner, told, joinable,
  mQ,               \* the messages in the queue, oldest first
  unblocked,        \* whether the queue was unblocked
  receiving,        \* how far run() is: not in it, waiting for a message, handling one
  inHand,           \* the message it handles
  destroying,       \* how far destroy() is
  sent,             \* the messages that were sent, in that order
  handled,          \* the messages that were handled, in that order
  dropped           \* the messages deleted with the queue, and those it refused

thread == <<mThread, mRunnable, mJoinable, mRefCount, life, runnable, worker, threadOwner, told, joinable>>
taskHistory == <<sent, handled, dropped>>
taskVars == <<thread, mQ, unblocked, receiving, inHand, destroying, taskHistory>>

Thread == INSTANCE LocThread WITH Delegate <- {Task}

TaskInit ==
  /\ Thread!ThreadInit
  /\ mQ = <<>>
  /\ unblocked = FALSE
  /\ receiving = "no"
  /\ inHand = None
  /\ destroying = "no"
  /\ sent = <<>> /\ handled = <<>> /\ dropped = {}

Exists == told[Task] # "nothing" /\ runnable[Task] = "live"

-----------------------------------------------------------------------------
(* Clients.                                                                *)

(* A message for an unblocked queue is refused; nobody deletes it.         *)
SendMsg(m) ==
  /\ Exists
  /\ m \notin Range(sent) \cup dropped
  /\ IF unblocked
     THEN dropped' = dropped \cup {m} /\ UNCHANGED <<mQ, sent>>
     ELSE mQ' = Append(mQ, m) /\ sent' = Append(sent, m) /\ UNCHANGED dropped
  /\ UNCHANGED <<thread, unblocked, receiving, inHand, destroying, handled>>

(* The constructor starts the thread.                                      *)
StartTask ==
  /\ \E j \in Joinable : Thread!Create(Task, j)
  /\ UNCHANGED <<mQ, unblocked, receiving, inHand, destroying, taskHistory>>

(* destroy(), in three steps: the queue is unblocked, the task forgets its *)
(* thread, the LocThread is deleted.  Without a thread the task deletes    *)
(* itself.                                                                 *)
Unblock ==
  /\ told[Task] # "nothing" /\ destroying = "no"
  /\ unblocked' = TRUE
  /\ destroying' = "unblocked"
  /\ UNCHANGED <<thread, mQ, receiving, inHand, taskHistory>>

Flush ==
  /\ mQ' = <<>>
  /\ dropped' = dropped \cup Range(mQ)
  /\ UNCHANGED <<unblocked, receiving, inHand, sent, handled>>

Forget ==
  /\ destroying = "unblocked"
  /\ IF told[Task] = "started"
     THEN destroying' = "forgotten" /\ UNCHANGED <<thread, mQ, unblocked, receiving, inHand, taskHistory>>
     ELSE /\ destroying' = "done"
          /\ runnable' = [runnable EXCEPT ![Task] = "deleted"]
          /\ Flush
          /\ UNCHANGED <<mThread, mRunnable, mJoinable, mRefCount, life, worker, threadOwner, told, joinable>>

DeleteThread ==
  /\ destroying = "forgotten"
  /\ Thread!Bye
  /\ destroying' = "done"
  /\ UNCHANGED <<mQ, unblocked, receiving, inHand, taskHistory>>

OwnerProceeds ==
  \/ Forget \/ DeleteThread
  \/ Thread!OwnerProceeds /\ UNCHANGED <<mQ, unblocked, receiving, inHand, destroying, taskHistory>>

-----------------------------------------------------------------------------
(* The spawned thread: msg_q_rcv under the queue's lock, then the message. *)

Running == worker[Task] = "run"

GiveUp ==
  /\ Thread!RunReturns(Task, FALSE)
  /\ receiving' = "no"
  /\ UNCHANGED <<mQ, unblocked, inHand, destroying, taskHistory>>

(* Mutant: the queue is a stack.                                           *)
TakeNewest ==
  /\ mQ # <<>>
  /\ inHand' = Last(mQ)
  /\ mQ' = Front(mQ)
  /\ receiving' = "handling"
  /\ UNCHANGED <<thread, unblocked, destroying, taskHistory>>

Take ==
  /\ mQ # <<>>
  /\ inHand' = Head(mQ)
  /\ mQ' = Tail(mQ)
  /\ receiving' = "handling"
  /\ UNCHANGED <<thread, unblocked, destroying, taskHistory>>

Enter ==
  /\ Running /\ receiving = "no"
  /\ \/ unblocked /\ GiveUp
     \/ ~unblocked /\ Take
     \/ /\ ~unblocked /\ mQ = <<>>
        /\ receiving' = "waiting"
        /\ UNCHANGED <<thread, mQ, unblocked, inHand, destroying, taskHistory>>

(* Mutant: nor when a message arrives.                                     *)
WakeWhenUnblocked == Running /\ receiving = "waiting" /\ mQ = <<>> /\ unblocked /\ GiveUp

(* A message that arrived is taken even when the queue was unblocked since.*)
Wake ==
  /\ Running /\ receiving = "waiting"
  /\ Take \/ (mQ = <<>> /\ unblocked /\ GiveUp)

HandleMsg ==
  /\ Running /\ receiving = "handling"
  /\ handled' = Append(handled, inHand)
  /\ inHand' = None
  /\ receiving' = "no"
  /\ Thread!RunReturns(Task, TRUE)
  /\ UNCHANGED <<mQ, unblocked, destroying, sent, dropped>>

DeleteTask ==
  /\ Thread!DeleteRunnable(Task)
  /\ Flush
  /\ UNCHANGED destroying

WorkerProceeds ==
  \/ Enter \/ Wake \/ HandleMsg \/ DeleteTask
  \/ /\ Thread!Begin(Task) \/ Thread!Loop(Task) \/ Thread!ClearRunnable(Task)
        \/ Thread!WorkerDrop(Task) \/ Thread!WorkerDelete(Task)
     /\ UNCHANGED <<mQ, unblocked, receiving, inHand, destroying, taskHistory>>

-----------------------------------------------------------------------------
TaskNext == StartTask \/ Unblock \/ OwnerProceeds \/ WorkerProceeds \/ \E m \in LocMsg : SendMsg(m)

TaskSpec == TaskInit /\ [][TaskNext]_taskVars

(* The spawned thread keeps running, and a destroy() once begun goes on.   *)
TaskFairness == WF_taskVars(WorkerProceeds) /\ WF_taskVars(OwnerProceeds)

-----------------------------------------------------------------------------
(* Properties.                                                             *)

(* Messages are handled in the order they were sent, each once; those not  *)
(* yet handled are in hand, in the queue or deleted with it, in the same   *)
(* order, and nothing that was handled is deleted with the queue.          *)
Hand == IF inHand = None THEN <<>> ELSE <<inHand>>

HandledInOrder ==
  LET begun == handled \o Hand
      rest == SubSeq(sent, Len(begun) + 1, Len(sent))
  IN  /\ begun = SubSeq(sent, 1, Len(begun))
      /\ rest = mQ \/ (mQ = <<>> /\ Range(rest) \subseteq dropped)
      /\ Range(begun) \cap dropped = {}

(* Every message sent to a task with a detached thread is handled or, if   *)
(* the task is destroyed, deleted.  (A task that joins its thread can be   *)
(* left with its queue by a destroy() that comes before the thread's first *)
(* step.)                                                                  *)
HasDetachedThread == told[Task] = "started" /\ joinable = {}

EveryMessageHandled ==
  \A m \in LocMsg :
    m \in Range(mQ) /\ HasDetachedThread ~> m \in Range(handled) \cup dropped

=============================================================================
