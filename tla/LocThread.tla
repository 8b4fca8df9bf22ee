------------------------------ MODULE LocThread ------------------------------
(***************************************************************************)
(* Threads of the GNSS HAL (utils/LocThread.cpp).  A LocThread starts a    *)
(* runnable in a spawned thread through a delegate, which the owner of the *)
(* LocThread and the spawned thread share and either may be the last to    *)
(* release.  Both read and write the delegate's runnable without a lock.   *)
(*                                                                         *)
(* The owner starts one delegate after the other; earlier ones may still   *)
(* be running, detached.  A runnable's run() returns whenever it likes.    *)
(***************************************************************************)
EXTENDS Naturals

CONSTANTS
  Delegate,         \* LocThreadDelegate objects, each with a runnable of its own
  Joinable,         \* the kinds of thread asked for
  None              \* no delegate

ASSUME NoneAssumption == None \notin Delegate
ASSUME JoinableAssumption == Joinable \subseteq BOOLEAN

VARIABLES
  mThread,          \* LocThread: its delegate
  mRunnable,        \* LocThreadDelegate: whether it still has its runnable
  mJoinable,        \* LocThreadDelegate: whether the thread is to be joined
  mRefCount,        \* LocThreadDelegate: who still uses it
  life,             \* LocThreadDelegate: not yet created, in use, deleted
  runnable,         \* whether the runnable exists or is deleted
  worker,           \* where the spawned thread is
  threadOwner,      \* where the owner is, and with which delegate
  told,             \* what start() returned
  joinable          \* delegates whose thread was created joinable

fields == <<mRunnable, mJoinable, mRefCount>>
objects == <<life, runnable>>
threadHistory == <<told, joinable>>
threadVars == <<mThread, fields, objects, worker, threadOwner, threadHistory>>

WorkerAt == {"none", "begin", "loop", "run", "clear", "delete", "drop", "free", "ended"}
OwnerAt == {"idle", "created", "discard", "discard free", "stop", "join", "joining", "drop", "free"}

ThreadTypeOK ==
  /\ mThread \in Delegate \cup {None}
  /\ mRunnable \in [Delegate -> BOOLEAN]
  /\ mJoinable \in [Delegate -> BOOLEAN]
  /\ mRefCount \in [Delegate -> 0..2]
  /\ life \in [Delegate -> {"unborn", "live", "deleted"}]
  /\ runnable \in [Delegate -> {"live", "deleted"}]
  /\ worker \in [Delegate -> WorkerAt]
  /\ threadOwner \in [pc : OwnerAt \ {"idle"}, of : Delegate] \cup [pc : {"idle"}, of : {None}]
  /\ told \in [Delegate -> {"nothing", "started", "failed"}]
  /\ joinable \in SUBSET Delegate

Free == [pc |-> "idle", of |-> None]
With(pc, d) == [pc |-> pc, of |-> d]

ThreadInit ==
  /\ mThread = None
  /\ mRunnable = [d \in Delegate |-> FALSE]
  /\ mJoinable = [d \in Delegate |-> FALSE]
  /\ mRefCount = [d \in Delegate |-> 0]
  /\ life = [d \in Delegate |-> "unborn"]
  /\ runnable = [d \in Delegate |-> "live"]
  /\ worker = [d \in Delegate |-> "none"]
  /\ threadOwner = Free
  /\ told = [d \in Delegate |-> "nothing"]
  /\ joinable = {}

-----------------------------------------------------------------------------
(* The owner.  start() makes the delegate look as if the thread existed    *)
(* before it creates the thread, and undoes that if it cannot.             *)

Create(d, j) ==
  /\ threadOwner = Free /\ mThread = None /\ told[d] = "nothing"
  /\ life' = [life EXCEPT ![d] = "live"]
  /\ \/ /\ mRunnable' = [mRunnable EXCEPT ![d] = TRUE]
        /\ mJoinable' = [mJoinable EXCEPT ![d] = j]
        /\ mRefCount' = [mRefCount EXCEPT ![d] = 2]
        /\ worker' = [worker EXCEPT ![d] = "begin"]
        /\ joinable' = IF j THEN joinable \cup {d} ELSE joinable
     \/ /\ mRefCount' = [mRefCount EXCEPT ![d] = 1]
        /\ UNCHANGED <<mRunnable, mJoinable, worker, joinable>>
  /\ threadOwner' = With("created", d)
  /\ UNCHANGED <<mThread, runnable, told>>

(* start() of a LocThread that has a thread.                               *)
RefuseStart(d) ==
  /\ threadOwner = Free /\ mThread # None /\ told[d] = "nothing"
  /\ told' = [told EXCEPT ![d] = "failed"]
  /\ UNCHANGED <<mThread, fields, objects, worker, threadOwner, joinable>>

(* create() takes a runnable that is gone for a thread that failed.        *)
CheckCreated ==
  /\ threadOwner.pc = "created"
  /\ LET d == threadOwner.of
     IN IF mRunnable[d]
        THEN /\ mThread' = d
             /\ threadOwner' = Free
             /\ told' = [told EXCEPT ![d] = "started"]
        ELSE threadOwner' = With("discard", d) /\ UNCHANGED <<mThread, told>>
  /\ UNCHANGED <<fields, objects, worker, joinable>>

(* LocThread::stop, and the destructor, which only leaves a detached       *)
(* thread alone.                                                           *)
Stop ==
  /\ threadOwner = Free /\ mThread # None
  /\ threadOwner' = With("stop", mThread)
  /\ UNCHANGED <<mThread, fields, objects, worker, threadHistory>>

Bye ==
  /\ threadOwner = Free /\ mThread # None
  /\ threadOwner' = With(IF mJoinable[mThread] THEN "stop" ELSE "drop", mThread)
  /\ UNCHANGED <<mThread, fields, objects, worker, threadHistory>>

StopRunnable ==
  /\ threadOwner.pc = "stop"
  /\ mRunnable' = [mRunnable EXCEPT ![threadOwner.of] = FALSE]
  /\ threadOwner' = With("join", threadOwner.of)
  /\ UNCHANGED <<mThread, mJoinable, mRefCount, objects, worker, threadHistory>>

Join ==
  /\ threadOwner.pc = "join"
  /\ threadOwner' = With(IF mJoinable[threadOwner.of] THEN "joining" ELSE "drop", threadOwner.of)
  /\ mJoinable' = [mJoinable EXCEPT ![threadOwner.of] = FALSE]
  /\ UNCHANGED <<mThread, mRunnable, mRefCount, objects, worker, threadHistory>>

Joined ==
  /\ threadOwner.pc = "joining" /\ worker[threadOwner.of] = "ended"
  /\ threadOwner' = With("drop", threadOwner.of)
  /\ UNCHANGED <<mThread, fields, objects, worker, threadHistory>>

(* destroy(): whoever releases the delegate last deletes it.               *)
Drop(d) == mRefCount' = [mRefCount EXCEPT ![d] = IF @ > 0 THEN @ - 1 ELSE 0]
IsLast(d) == mRefCount[d] = 1
Delete(d) == life' = [life EXCEPT ![d] = "deleted"]

(* Back in start(), stop() or the destructor of the LocThread.             *)
Return(freeing) ==
  IF freeing = "discard free"
  THEN told' = [told EXCEPT ![threadOwner.of] = "failed"] /\ UNCHANGED mThread
  ELSE mThread' = None /\ UNCHANGED told

OwnerDrop ==
  \E way \in {<<"discard", "discard free">>, <<"drop", "free">>} :
    /\ threadOwner.pc = way[1]
    /\ Drop(threadOwner.of)
    /\ IF IsLast(threadOwner.of)
       THEN threadOwner' = With(way[2], threadOwner.of) /\ UNCHANGED <<mThread, told>>
       ELSE threadOwner' = Free /\ Return(way[2])
    /\ UNCHANGED <<mRunnable, mJoinable, objects, worker, joinable>>

OwnerDelete ==
  /\ threadOwner.pc \in {"discard free", "free"}
  /\ Delete(threadOwner.of)
  /\ Return(threadOwner.pc)
  /\ threadOwner' = Free
  /\ UNCHANGED <<fields, runnable, worker, joinable>>

OwnerProceeds ==
  CheckCreated \/ StopRunnable \/ Join \/ Joined \/ OwnerDrop \/ OwnerDelete

-----------------------------------------------------------------------------
(* The spawned thread, threadMain().                                       *)

Go(d, pc) == worker' = [worker EXCEPT ![d] = pc]

(* A runnable that is already gone is not deleted.                         *)
Begin(d) ==
  /\ worker[d] = "begin"
  /\ Go(d, IF mRunnable[d] THEN "loop" ELSE "drop")
  /\ UNCHANGED <<mThread, fields, objects, threadOwner, threadHistory>>

Loop(d) ==
  /\ worker[d] = "loop"
  /\ Go(d, IF mRunnable[d] THEN "run" ELSE "clear")
  /\ UNCHANGED <<mThread, fields, objects, threadOwner, threadHistory>>

(* run() wants to be called again, or not.                                 *)
RunReturns(d, again) ==
  /\ worker[d] = "run"
  /\ Go(d, IF again THEN "loop" ELSE "clear")
  /\ UNCHANGED <<mThread, fields, objects, threadOwner, threadHistory>>

ClearRunnable(d) ==
  /\ worker[d] = "clear"
  /\ mRunnable' = [mRunnable EXCEPT ![d] = FALSE]
  /\ Go(d, "delete")
  /\ UNCHANGED <<mThread, mJoinable, mRefCount, objects, threadOwner, threadHistory>>

(* Mutant: the spawned thread looks at its runnable once more.             *)
DeleteRunnableAgain(d) ==
  /\ worker[d] = "delete"
  /\ runnable' = [runnable EXCEPT ![d] = "deleted"]
  /\ Go(d, "loop")
  /\ UNCHANGED <<mThread, fields, life, threadOwner, threadHistory>>

DeleteRunnable(d) ==
  /\ worker[d] = "delete"
  /\ runnable' = [runnable EXCEPT ![d] = "deleted"]
  /\ Go(d, "drop")
  /\ UNCHANGED <<mThread, fields, life, threadOwner, threadHistory>>

(* Mutant: the spawned thread deletes the delegate without asking.         *)
WorkerDropAlways(d) ==
  /\ worker[d] = "drop"
  /\ Drop(d)
  /\ Go(d, "free")
  /\ UNCHANGED <<mThread, mRunnable, mJoinable, objects, threadOwner, threadHistory>>

WorkerDrop(d) ==
  /\ worker[d] = "drop"
  /\ Drop(d)
  /\ Go(d, IF IsLast(d) THEN "free" ELSE "ended")
  /\ UNCHANGED <<mThread, mRunnable, mJoinable, objects, threadOwner, threadHistory>>

WorkerDelete(d) ==
  /\ worker[d] = "free"
  /\ Delete(d)
  /\ Go(d, "ended")
  /\ UNCHANGED <<mThread, fields, runnable, threadOwner, threadHistory>>

WorkerLeaves(d) == ClearRunnable(d) \/ DeleteRunnable(d) \/ WorkerDrop(d) \/ WorkerDelete(d)
WorkerProceeds(d) == Begin(d) \/ Loop(d) \/ WorkerLeaves(d)

-----------------------------------------------------------------------------
OwnerCalls ==
  Stop \/ Bye \/ \E d \in Delegate : RefuseStart(d) \/ \E j \in Joinable : Create(d, j)

ThreadNext ==
  \/ OwnerCalls \/ OwnerProceeds
  \/ \E d \in Delegate : WorkerProceeds(d) \/ \E again \in BOOLEAN : RunReturns(d, again)

ThreadSpec == ThreadInit /\ [][ThreadNext]_threadVars

-----------------------------------------------------------------------------
(* Properties.                                                             *)

WorkerUses(d) == worker[d] \notin {"none", "ended"}
OwnerUses(d) == threadOwner.of = d \/ mThread = d

(* Whichever thread leaves first, neither touches a delegate the other has *)
(* deleted, and when both have left the delegate is deleted.               *)
DelegateOutlivesUsers ==
  \A d \in Delegate :
    /\ WorkerUses(d) \/ OwnerUses(d) => life[d] = "live"
    /\ ~WorkerUses(d) /\ ~OwnerUses(d) => life[d] # "live"

(* The spawned thread never calls a runnable that is deleted.              *)
RunsLiveRunnable ==
  \A d \in Delegate : worker[d] \in {"loop", "run", "clear", "delete"} => runnable[d] = "live"

(* "if this is a joinable thread, this stop may block for a while until    *)
(* the thread is joined" (LocThread.h:84): once the owner has let go of a  *)
(* joinable thread that it started, that thread is over.                   *)
JoinedIsOver ==
  \A d \in joinable : told[d] = "started" /\ ~OwnerUses(d) => worker[d] = "ended"

=============================================================================
