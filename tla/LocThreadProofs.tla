--------------------------- MODULE LocThreadProofs ---------------------------
(***************************************************************************)
(* Proofs about LocThread, for any number of delegates.                    *)
(***************************************************************************)
EXTENDS LocThread, TLAPS

-----------------------------------------------------------------------------
(* The strengthening.                                                      *)

OwnerFrees(d) == threadOwner.of = d /\ threadOwner.pc \in {"free", "discard free"}
OwnerHolds(d) == OwnerUses(d) /\ ~OwnerFrees(d)
WorkerHolds(d) == worker[d] \notin {"none", "free", "ended"}

(* What the owner is doing agrees with what the LocThread refers to, and a *)
(* delegate it has not come to yet is untouched.                           *)
Untouched(d) ==
  life[d] = "unborn" /\ worker[d] = "none" /\ mThread # d /\ d \notin joinable

OwnerInStep ==
  /\ threadOwner.pc \in {"created", "discard", "discard free"} => mThread = None
  /\ threadOwner.pc \in {"stop", "join", "joining", "drop", "free"} => mThread = threadOwner.of
  /\ mThread # None => told[mThread] = "started"
  /\ \A d \in Delegate : told[d] = "nothing" /\ threadOwner.of # d => Untouched(d)

(* The reference count counts the two threads that have yet to release the *)
(* delegate; the one that is to delete it is alone with it.                *)
Counted(d) ==
  /\ OwnerHolds(d) /\ WorkerHolds(d) => mRefCount[d] = 2
  /\ OwnerHolds(d) /\ ~WorkerHolds(d) => mRefCount[d] = 1
  /\ ~OwnerHolds(d) /\ WorkerHolds(d) => mRefCount[d] = 1
  /\ ~OwnerHolds(d) /\ ~WorkerHolds(d) => mRefCount[d] = 0
  /\ worker[d] = "free" => ~OwnerUses(d)
  /\ OwnerFrees(d) => ~WorkerUses(d)

Outlived(d) ==
  /\ WorkerUses(d) \/ OwnerUses(d) => life[d] = "live"
  /\ ~WorkerUses(d) /\ ~OwnerUses(d) => life[d] # "live"

Shared == \A d \in Delegate : Counted(d) /\ Outlived(d)

(* A joinable thread is marked until the owner joins it, and is over when  *)
(* the owner goes on.                                                      *)
Marked(d) ==
  /\ threadOwner.of = d /\ threadOwner.pc = "created" /\ mRunnable[d] => mJoinable[d]
  /\ told[d] = "started" =>
       /\ mThread = d /\ (threadOwner.of = d => threadOwner.pc \in {"stop", "join"}) => mJoinable[d]
       /\ OwnerUses(d) \/ worker[d] = "ended"
       /\ threadOwner.of = d /\ threadOwner.pc \in {"drop", "free"} => worker[d] = "ended"

JoinInv == \A d \in joinable : Marked(d)

(* A runnable lives until its thread deletes it.                           *)
RunsLive(d) ==
  worker[d] \in {"none", "begin", "loop", "run", "clear", "delete"} => runnable[d] = "live"

RunInv == \A d \in Delegate : RunsLive(d)

IInv == ThreadTypeOK /\ OwnerInStep /\ Shared /\ JoinInv /\ RunInv

-----------------------------------------------------------------------------
(* What the owner's place tells.                                           *)
LEMMA OwnerKinds ==
  ASSUME ThreadTypeOK
  PROVE  /\ threadOwner = Free <=> threadOwner.pc = "idle"
         /\ threadOwner.pc = "idle" => threadOwner.of = None
         /\ threadOwner.pc # "idle" => threadOwner.of \in Delegate
         /\ threadOwner.pc \in OwnerAt
<1>1. CASE threadOwner \in [pc : OwnerAt \ {"idle"}, of : Delegate]
  <2>1. threadOwner.pc \in OwnerAt \ {"idle"} /\ threadOwner.of \in Delegate
    BY <1>1
  <2>2. threadOwner # Free
    BY <2>1 DEF Free
  <2> QED
    BY <2>1, <2>2
<1>2. CASE threadOwner \in [pc : {"idle"}, of : {None}]
  BY <1>2 DEF Free, OwnerAt
<1> QED
  BY <1>1, <1>2 DEF ThreadTypeOK

(* The types of the rest.                                                  *)
LEMMA Types ==
  ASSUME ThreadTypeOK
  PROVE  /\ None \notin Delegate
         /\ mThread \in Delegate \cup {None}
         /\ mRunnable \in [Delegate -> BOOLEAN] /\ mJoinable \in [Delegate -> BOOLEAN]
         /\ mRefCount \in [Delegate -> 0..2] /\ worker \in [Delegate -> WorkerAt]
         /\ life \in [Delegate -> {"unborn", "live", "deleted"}]
         /\ runnable \in [Delegate -> {"live", "deleted"}]
         /\ told \in [Delegate -> {"nothing", "started", "failed"}]
         /\ joinable \in SUBSET Delegate
BY NoneAssumption DEF ThreadTypeOK

(* The fields of the owner's places.                                       *)
LEMMA OwnerFields ==
  /\ \A pc, d : With(pc, d).pc = pc /\ With(pc, d).of = d
  /\ Free.pc = "idle" /\ Free.of = None
BY DEF With, Free

(* Their types.                                                            *)
LEMMA OwnerTypes ==
  ASSUME NEW d \in Delegate
  PROVE  /\ Free \in [pc : {"idle"}, of : {None}]
         /\ \A pc \in {"created", "discard", "discard free", "stop", "join", "joining", "drop", "free"} :
              With(pc, d) \in [pc : OwnerAt \ {"idle"}, of : Delegate]
BY DEF With, Free, OwnerAt

(* Dropping a share keeps the count in range.                              *)
LEMMA DropKeepsType ==
  ASSUME ThreadTypeOK, NEW d \in Delegate, Drop(d)
  PROVE  mRefCount' \in [Delegate -> 0..2]
<1>1. (IF mRefCount[d] > 0 THEN mRefCount[d] - 1 ELSE 0) \in 0..2
  BY DEF ThreadTypeOK
<1> QED
  BY <1>1 DEF Drop, ThreadTypeOK

-----------------------------------------------------------------------------
(* What the steps of the owner that go by way of With and Free do to the   *)
(* delegate they are about.                                                *)

(* A thread is created, and counted twice, or is not, and counted once.    *)
LEMMA CreateHere ==
  ASSUME ThreadTypeOK, OwnerInStep, NEW d \in Delegate, NEW j \in Joinable, Create(d, j)
  PROVE  /\ threadOwner.pc = "idle" /\ threadOwner.of = None /\ mThread = None
         /\ threadOwner'.pc = "created" /\ threadOwner'.of = d /\ mThread' = None
         /\ told[d] = "nothing" /\ told' = told /\ runnable' = runnable
         /\ Untouched(d)
         /\ life'[d] = "live"
         /\ \/ /\ worker'[d] = "begin" /\ mRefCount'[d] = 2 /\ mRunnable'[d]
               /\ mJoinable'[d] = j /\ (d \in joinable' <=> j)
            \/ /\ worker'[d] = worker[d] /\ mRefCount'[d] = 1 /\ d \notin joinable'
<1>1. threadOwner = Free /\ mThread = None /\ told[d] = "nothing" /\ threadOwner' = With("created", d)
      /\ UNCHANGED <<mThread, runnable, told>>
  BY DEF Create
<1>2. threadOwner.pc = "idle" /\ threadOwner.of = None /\ threadOwner'.pc = "created" /\ threadOwner'.of = d
  BY <1>1, OwnerFields
<1>3. Untouched(d)
  BY <1>1, <1>2, NoneAssumption DEF OwnerInStep
<1>4. life'[d] = "live"
  BY Types DEF Create
<1>5. j \in BOOLEAN
  BY JoinableAssumption
<1>6. \/ /\ worker'[d] = "begin" /\ mRefCount'[d] = 2 /\ mRunnable'[d]
         /\ mJoinable'[d] = j /\ (d \in joinable' <=> j)
      \/ /\ worker'[d] = worker[d] /\ mRefCount'[d] = 1 /\ d \notin joinable'
  BY <1>3, <1>5, Types DEF Create, Untouched
<1> QED
  BY <1>1, <1>2, <1>3, <1>4, <1>6

(* create() finds its runnable there and refers to the delegate, or not.   *)
LEMMA CheckHere ==
  ASSUME ThreadTypeOK, OwnerInStep, CheckCreated
  PROVE  /\ threadOwner.pc = "created" /\ threadOwner.of \in Delegate /\ mThread = None
         /\ \/ /\ mRunnable[threadOwner.of] /\ mThread' = threadOwner.of
               /\ threadOwner'.pc = "idle" /\ threadOwner'.of = None
               /\ told'[threadOwner.of] = "started"
            \/ /\ ~mRunnable[threadOwner.of] /\ mThread' = None /\ told' = told
               /\ threadOwner'.pc = "discard" /\ threadOwner'.of = threadOwner.of
         /\ UNCHANGED <<mRunnable, mJoinable, mRefCount, life, runnable, worker, joinable>>
<1>1. threadOwner.pc = "created" /\ threadOwner.of \in Delegate /\ mThread = None
  BY OwnerKinds DEF CheckCreated, OwnerInStep
<1>2. UNCHANGED <<mRunnable, mJoinable, mRefCount, life, runnable, worker, joinable>>
  BY DEF CheckCreated, fields, objects
<1>3. CASE mRunnable[threadOwner.of]
  BY <1>1, <1>2, <1>3, OwnerFields, Types DEF CheckCreated
<1>4. CASE ~mRunnable[threadOwner.of]
  BY <1>1, <1>2, <1>4, OwnerFields DEF CheckCreated
<1> QED
  BY <1>3, <1>4

(* stop(), or the destructor of a LocThread with a joinable thread, goes   *)
(* on to stop it; that of one with a detached thread drops it.             *)
LEMMA StopHere ==
  ASSUME ThreadTypeOK, OwnerInStep, Stop \/ Bye
  PROVE  /\ threadOwner.pc = "idle" /\ threadOwner.of = None
         /\ mThread \in Delegate /\ mThread' = mThread /\ threadOwner'.of = mThread
         /\ told[mThread] = "started"
         /\ threadOwner'.pc = "stop" \/ (threadOwner'.pc = "drop" /\ ~mJoinable[mThread])
         /\ UNCHANGED <<mRunnable, mJoinable, mRefCount, life, runnable, worker, told, joinable>>
<1>1. threadOwner = Free /\ mThread # None
  BY DEF Stop, Bye
<1>2. threadOwner.pc = "idle" /\ threadOwner.of = None /\ mThread \in Delegate /\ told[mThread] = "started"
  BY <1>1, OwnerFields, Types DEF OwnerInStep
<1>3. UNCHANGED <<mThread, mRunnable, mJoinable, mRefCount, life, runnable, worker, told, joinable>>
  BY DEF Stop, Bye, fields, objects, threadHistory
<1>4. /\ threadOwner'.of = mThread
      /\ threadOwner'.pc = "stop" \/ (threadOwner'.pc = "drop" /\ ~mJoinable[mThread])
  BY OwnerFields DEF Stop, Bye
<1> QED
  BY <1>2, <1>3, <1>4

(* The owner drops its share of a discarded or a stopped delegate.         *)
LEMMA DropWays ==
  ASSUME OwnerDrop
  PROVE  /\ Drop(threadOwner.of)
         /\ \/ /\ threadOwner.pc = "discard" /\ IsLast(threadOwner.of)
               /\ threadOwner' = With("discard free", threadOwner.of) /\ UNCHANGED <<mThread, told>>
            \/ /\ threadOwner.pc = "drop" /\ IsLast(threadOwner.of)
               /\ threadOwner' = With("free", threadOwner.of) /\ UNCHANGED <<mThread, told>>
            \/ threadOwner.pc = "discard" /\ ~IsLast(threadOwner.of) /\ threadOwner' = Free /\ Return("discard free")
            \/ threadOwner.pc = "drop" /\ ~IsLast(threadOwner.of) /\ threadOwner' = Free /\ Return("free")
<1>1. PICK way \in {<<"discard", "discard free">>, <<"drop", "free">>} :
        /\ threadOwner.pc = way[1]
        /\ Drop(threadOwner.of)
        /\ IF IsLast(threadOwner.of)
           THEN threadOwner' = With(way[2], threadOwner.of) /\ UNCHANGED <<mThread, told>>
           ELSE threadOwner' = Free /\ Return(way[2])
  BY DEF OwnerDrop
<1>2. CASE way = <<"discard", "discard free">>
  <2>1. way[1] = "discard" /\ way[2] = "discard free"
    BY <1>2
  <2> QED
    BY <1>1, <2>1
<1>3. CASE way = <<"drop", "free">>
  <2>1. way[1] = "drop" /\ way[2] = "free"
    BY <1>3
  <2> QED
    BY <1>1, <2>1
<1> QED
  BY <1>1, <1>2, <1>3

(* An owner that has dropped its share deletes the delegate next, or has   *)
(* returned.                                                               *)
LEMMA DropHere ==
  ASSUME ThreadTypeOK, OwnerInStep, OwnerDrop
  PROVE  /\ threadOwner.of \in Delegate
         /\ \/ threadOwner.pc = "discard" /\ mThread = None
            \/ threadOwner.pc = "drop" /\ mThread = threadOwner.of /\ told[threadOwner.of] = "started"
         /\ \/ /\ mRefCount[threadOwner.of] = 1 /\ mRefCount'[threadOwner.of] = 0
               /\ threadOwner'.of = threadOwner.of
               /\ threadOwner.pc = "discard" => threadOwner'.pc = "discard free"
               /\ threadOwner.pc = "drop" => threadOwner'.pc = "free"
               /\ mThread' = mThread /\ told' = told
            \/ /\ mRefCount[threadOwner.of] # 1
               /\ mRefCount[threadOwner.of] = 2 => mRefCount'[threadOwner.of] = 1
               /\ threadOwner'.pc = "idle" /\ threadOwner'.of = None /\ mThread' = None
               /\ threadOwner.pc = "discard" => told'[threadOwner.of] = "failed"
               /\ threadOwner.pc = "drop" => told' = told
         /\ UNCHANGED <<mRunnable, mJoinable, life, runnable, worker, joinable>>
<1>1. threadOwner.of \in Delegate
  <2>1. threadOwner.pc # "idle"
    BY DropWays
  <2> QED
    BY <2>1, OwnerKinds
<1>2. \/ threadOwner.pc = "discard" /\ mThread = None
      \/ threadOwner.pc = "drop" /\ mThread = threadOwner.of /\ told[threadOwner.of] = "started"
  <2>1. threadOwner.pc = "discard" \/ threadOwner.pc = "drop"
    BY DropWays
  <2> QED
    BY <1>1, <2>1, NoneAssumption DEF OwnerInStep
<1>3. UNCHANGED <<mRunnable, mJoinable, life, runnable, worker, joinable>>
  BY DEF OwnerDrop, objects
<1>4. /\ mRefCount[threadOwner.of] = 1 => mRefCount'[threadOwner.of] = 0
      /\ mRefCount[threadOwner.of] = 2 => mRefCount'[threadOwner.of] = 1
  <2>1. mRefCount'[threadOwner.of] = IF mRefCount[threadOwner.of] > 0 THEN mRefCount[threadOwner.of] - 1 ELSE 0
    BY <1>1, DropWays, Types DEF Drop
  <2> QED
    BY <2>1
<1>5. CASE IsLast(threadOwner.of)
  <2>1. /\ threadOwner'.of = threadOwner.of /\ mThread' = mThread /\ told' = told
        /\ threadOwner.pc = "discard" => threadOwner'.pc = "discard free"
        /\ threadOwner.pc = "drop" => threadOwner'.pc = "free"
    <3>1. CASE threadOwner.pc = "discard"
      <4>1. threadOwner' = With("discard free", threadOwner.of) /\ mThread' = mThread /\ told' = told
        BY <1>5, <3>1, DropWays
      <4> QED
        BY <3>1, <4>1, OwnerFields
    <3>2. CASE threadOwner.pc = "drop"
      BY <1>5, <3>2, DropWays, OwnerFields
    <3> QED
      BY <1>2, <3>1, <3>2
  <2> QED
    BY <1>1, <1>2, <1>3, <1>4, <1>5, <2>1 DEF IsLast
<1>6. CASE ~IsLast(threadOwner.of)
  <2>1. threadOwner'.pc = "idle" /\ threadOwner'.of = None
    BY <1>6, DropWays, OwnerFields
  <2>2. /\ mThread' = None
        /\ threadOwner.pc = "discard" => told'[threadOwner.of] = "failed"
        /\ threadOwner.pc = "drop" => told' = told
    BY <1>1, <1>2, <1>6, DropWays, Types DEF Return
  <2> QED
    BY <1>1, <1>2, <1>3, <1>4, <1>6, <2>1, <2>2 DEF IsLast
<1> QED
  BY <1>5, <1>6

(* An owner that has deleted the delegate has returned.                    *)
LEMMA DeleteHere ==
  ASSUME ThreadTypeOK, OwnerInStep, OwnerDelete
  PROVE  /\ threadOwner.of \in Delegate
         /\ \/ threadOwner.pc = "discard free" /\ mThread = None /\ told'[threadOwner.of] = "failed"
            \/ threadOwner.pc = "free" /\ mThread = threadOwner.of /\ told[threadOwner.of] = "started" /\ told' = told
         /\ threadOwner'.pc = "idle" /\ threadOwner'.of = None /\ mThread' = None
         /\ life'[threadOwner.of] = "deleted"
         /\ UNCHANGED <<mRunnable, mJoinable, mRefCount, runnable, worker, joinable>>
<1>1. threadOwner.pc \in {"discard free", "free"} /\ threadOwner' = Free /\ Return(threadOwner.pc)
  BY DEF OwnerDelete
<1>2. threadOwner.of \in Delegate
  BY <1>1, OwnerKinds
<1>3. threadOwner'.pc = "idle" /\ threadOwner'.of = None
  BY <1>1, OwnerFields
<1>4. life'[threadOwner.of] = "deleted"
  BY <1>2, Types DEF OwnerDelete, Delete
<1>5. UNCHANGED <<mRunnable, mJoinable, mRefCount, runnable, worker, joinable>>
  BY DEF OwnerDelete, fields
<1>6. CASE threadOwner.pc = "discard free"
  BY <1>1, <1>2, <1>3, <1>4, <1>5, <1>6, Types DEF Return, OwnerInStep
<1>7. CASE threadOwner.pc = "free"
  BY <1>1, <1>2, <1>3, <1>4, <1>5, <1>7, NoneAssumption DEF Return, OwnerInStep
<1> QED
  BY <1>1, <1>6, <1>7

(* A delegate is left alone.                                               *)
Same(x) ==
  /\ mRunnable'[x] = mRunnable[x] /\ mJoinable'[x] = mJoinable[x]
  /\ mRefCount'[x] = mRefCount[x] /\ worker'[x] = worker[x]
  /\ life'[x] = life[x] /\ runnable'[x] = runnable[x] /\ told'[x] = told[x]
  /\ x \in joinable' <=> x \in joinable
  /\ threadOwner.of # x /\ threadOwner'.of # x
  /\ mThread' = x <=> mThread = x

(* A step of the owner for one delegate leaves any other alone.            *)
LEMMA Bystander ==
  ASSUME ThreadTypeOK, OwnerInStep, NEW x \in Delegate,
         \/ \E d \in Delegate, j \in Joinable : Create(d, j) /\ x # d
         \/ (Stop \/ Bye) /\ x # mThread
         \/ (CheckCreated \/ OwnerDrop \/ OwnerDelete) /\ x # threadOwner.of
  PROVE  Same(x)
<1>1. ASSUME NEW d \in Delegate, NEW j \in Joinable, Create(d, j), x # d PROVE Same(x)
  <2>1. threadOwner.of = None /\ threadOwner'.of = d /\ mThread' = mThread /\ told' = told /\ runnable' = runnable
    BY <1>1, CreateHere
  <2>2. /\ mRunnable'[x] = mRunnable[x] /\ mJoinable'[x] = mJoinable[x]
        /\ mRefCount'[x] = mRefCount[x] /\ worker'[x] = worker[x] /\ life'[x] = life[x]
        /\ x \in joinable' <=> x \in joinable
    BY <1>1, Types DEF Create
  <2> QED
    BY <1>1, <2>1, <2>2, NoneAssumption DEF Same
<1>2. CASE (Stop \/ Bye) /\ x # mThread
  BY <1>2, StopHere, NoneAssumption DEF Same
<1>3. CASE CheckCreated /\ x # threadOwner.of
  <2>1. told'[x] = told[x]
    BY <1>3, Types DEF CheckCreated
  <2> QED
    BY <1>3, <2>1, CheckHere, NoneAssumption DEF Same
<1>4. CASE OwnerDrop /\ x # threadOwner.of
  <2>1. mRefCount'[x] = mRefCount[x]
    BY <1>4, DropWays, DropHere, Types DEF Drop
  <2>2. told' = told \/ told' = [told EXCEPT ![threadOwner.of] = "failed"]
    BY <1>4, DropWays DEF Return
  <2>3. told'[x] = told[x]
    BY <1>4, <2>2, DropHere, Types
  <2> QED
    BY <1>4, <2>1, <2>3, DropHere, NoneAssumption DEF Same
<1>5. CASE OwnerDelete /\ x # threadOwner.of
  <2>1. told'[x] = told[x] /\ life'[x] = life[x]
    BY <1>5, Types DEF OwnerDelete, Return, Delete
  <2> QED
    BY <1>5, <2>1, DeleteHere, NoneAssumption DEF Same
<1> QED
  BY <1>1, <1>2, <1>3, <1>4, <1>5

-----------------------------------------------------------------------------
(* Every step keeps the types.                                             *)
LEMMA TypeStep == IInv /\ [ThreadNext]_threadVars => ThreadTypeOK'
<1> SUFFICES ASSUME IInv, [ThreadNext]_threadVars PROVE ThreadTypeOK'
  OBVIOUS
<1>0. ThreadTypeOK /\ OwnerInStep
  BY DEF IInv
<1>1. ASSUME NEW d \in Delegate, NEW j \in Joinable, Create(d, j) PROVE ThreadTypeOK'
  <2>1. threadOwner' \in [pc : OwnerAt \ {"idle"}, of : Delegate]
    BY <1>1 DEF Create, With, OwnerAt
  <2> QED
    <3>1. j \in BOOLEAN
      BY JoinableAssumption
    <3>2. mRunnable' \in [Delegate -> BOOLEAN]
      BY <1>0, <1>1, Types DEF Create
    <3>3. mJoinable' \in [Delegate -> BOOLEAN]
      BY <1>0, <1>1, <3>1, Types DEF Create
    <3>4. mRefCount' \in [Delegate -> 0..2]
      BY <1>0, <1>1, Types DEF Create
    <3>5. joinable' \in SUBSET Delegate
      BY <1>0, <1>1, Types DEF Create
    <3>6. worker' \in [Delegate -> WorkerAt]
      BY <1>0, <1>1, Types DEF Create, WorkerAt
    <3>7. /\ mThread' = mThread /\ runnable' = runnable /\ told' = told
          /\ life' \in [Delegate -> {"unborn", "live", "deleted"}]
      BY <1>0, <1>1, Types DEF Create
    <3> QED
      BY <1>0, <2>1, <3>2, <3>3, <3>4, <3>5, <3>6, <3>7 DEF ThreadTypeOK
<1>2. ASSUME NEW d \in Delegate, RefuseStart(d) PROVE ThreadTypeOK'
  BY <1>0, <1>2, Types DEF RefuseStart, fields, objects, threadHistory, ThreadTypeOK, WorkerAt, OwnerAt
<1>3. CASE CheckCreated
  <2>1. threadOwner' \in [pc : OwnerAt \ {"idle"}, of : Delegate] \cup [pc : {"idle"}, of : {None}]
    <3>1. threadOwner.of \in Delegate
      BY <1>0, <1>3, CheckHere
    <3> QED
      BY <1>3, <3>1, OwnerTypes DEF CheckCreated
  <2> QED
    BY <1>0, <1>3, <2>1, OwnerKinds DEF CheckCreated, fields, objects, ThreadTypeOK
<1>4. CASE Stop
  BY <1>0, <1>4, NoneAssumption DEF Stop, With, fields, objects, threadHistory, ThreadTypeOK, OwnerAt
<1>5. CASE Bye
  BY <1>0, <1>5, NoneAssumption DEF Bye, With, fields, objects, threadHistory, ThreadTypeOK, OwnerAt
<1>6. CASE StopRunnable
  BY <1>0, <1>6, NoneAssumption DEF StopRunnable, With, ThreadTypeOK, OwnerAt, fields, objects,
     threadHistory, ThreadTypeOK, WorkerAt, OwnerAt
<1>7. CASE Join
  BY <1>0, <1>7, NoneAssumption DEF Join, With, ThreadTypeOK, OwnerAt, fields, objects, threadHistory,
     ThreadTypeOK, WorkerAt, OwnerAt
<1>8. CASE Joined
  BY <1>0, <1>8, NoneAssumption DEF Joined, With, ThreadTypeOK, OwnerAt, fields, objects, threadHistory,
     ThreadTypeOK, WorkerAt, OwnerAt
<1>9. CASE OwnerDrop
  <2>1. threadOwner.of \in Delegate
    BY <1>0, <1>9, DropHere
  <2>2. threadOwner' \in [pc : OwnerAt \ {"idle"}, of : Delegate] \cup [pc : {"idle"}, of : {None}]
    <3>1. \/ threadOwner' = Free \/ threadOwner' = With("free", threadOwner.of)
          \/ threadOwner' = With("discard free", threadOwner.of)
      BY <1>9, DropWays
    <3> QED
      BY <2>1, <3>1, OwnerTypes
  <2>3. mRefCount' \in [Delegate -> 0..2]
    BY <1>0, <1>9, <2>1, DropKeepsType DEF OwnerDrop
  <2>4. mThread' \in Delegate \cup {None} /\ told' \in [Delegate -> {"nothing", "started", "failed"}]
    BY <1>0, <1>9, Types DEF OwnerDrop, Return
  <2> QED
    <3>1. UNCHANGED <<mRunnable, mJoinable, life, runnable, worker, joinable>>
      BY <1>0, <1>9, DropHere
    <3> QED
      BY <1>0, <2>2, <2>3, <2>4, <3>1 DEF ThreadTypeOK
<1>10. CASE OwnerDelete
  <2>1. threadOwner' \in [pc : {"idle"}, of : {None}]
    BY <1>10 DEF OwnerDelete, Free
  <2> QED
    BY <1>0, <1>10, <2>1 DEF OwnerDelete, Return, Delete, fields, ThreadTypeOK
<1>11. ASSUME NEW d \in Delegate, Begin(d) PROVE ThreadTypeOK'
  BY <1>0, <1>11, Types DEF Begin, Go, fields, objects, threadHistory, ThreadTypeOK, WorkerAt, OwnerAt
<1>12. ASSUME NEW d \in Delegate, Loop(d) PROVE ThreadTypeOK'
  BY <1>0, <1>12, Types DEF Loop, Go, fields, objects, threadHistory, ThreadTypeOK, WorkerAt, OwnerAt
<1>13. ASSUME NEW d \in Delegate, ClearRunnable(d) PROVE ThreadTypeOK'
  BY <1>0, <1>13, Types DEF ClearRunnable, Go, fields, objects, threadHistory, ThreadTypeOK, WorkerAt,
     OwnerAt
<1>14. ASSUME NEW d \in Delegate, DeleteRunnable(d) PROVE ThreadTypeOK'
  BY <1>0, <1>14, Types DEF DeleteRunnable, Go, fields, objects, threadHistory, ThreadTypeOK, WorkerAt,
     OwnerAt
<1>15. ASSUME NEW d \in Delegate, WorkerDrop(d) PROVE ThreadTypeOK'
  <2>1. mRefCount' \in [Delegate -> 0..2]
    BY <1>0, <1>15, DropKeepsType DEF WorkerDrop
  <2> QED
    BY <1>0, <1>15, <2>1 DEF WorkerDrop, Go, objects, threadHistory, ThreadTypeOK, WorkerAt
<1>16. ASSUME NEW d \in Delegate, WorkerDelete(d) PROVE ThreadTypeOK'
  BY <1>0, <1>16, Types DEF WorkerDelete, Go, Delete, fields, objects, threadHistory, ThreadTypeOK,
     WorkerAt, OwnerAt
<1>17. ASSUME NEW d \in Delegate, NEW again \in BOOLEAN, RunReturns(d, again) PROVE ThreadTypeOK'
  BY <1>0, <1>17, Types DEF RunReturns, Go, fields, objects, threadHistory, ThreadTypeOK, WorkerAt,
     OwnerAt
<1>18. CASE UNCHANGED threadVars
  BY <1>0, <1>18 DEF threadVars, fields, objects, threadHistory, ThreadTypeOK
<1> QED
  BY <1>1, <1>2, <1>3, <1>4, <1>5, <1>6, <1>7, <1>8, <1>9,
     <1>10, <1>11, <1>12, <1>13, <1>14, <1>15, <1>16, <1>17, <1>18
     DEF ThreadNext, OwnerCalls, OwnerProceeds, WorkerProceeds, WorkerLeaves

(* The owner stays in step.                                                *)
LEMMA InStepStep == IInv /\ [ThreadNext]_threadVars => OwnerInStep'
<1> SUFFICES ASSUME IInv, [ThreadNext]_threadVars PROVE OwnerInStep'
  OBVIOUS
<1>0. ThreadTypeOK /\ OwnerInStep
  BY DEF IInv
<1>1. ASSUME NEW d \in Delegate, NEW j \in Joinable, Create(d, j) PROVE OwnerInStep'
  <2>1. ASSUME NEW x \in Delegate, told'[x] = "nothing", threadOwner'.of # x PROVE Untouched(x)'
    <3>1. CASE x = d
      BY <1>0, <1>1, <2>1, <3>1, CreateHere
    <3>2. CASE x # d
      <4>1. Same(x)
        BY <1>0, <1>1, <3>2, Bystander
      <4> QED
        BY <1>0, <2>1, <4>1 DEF Same, OwnerInStep, Untouched
    <3> QED
      BY <3>1, <3>2
  <2> QED
    BY <1>0, <1>1, <2>1, CreateHere DEF OwnerInStep
<1>2. ASSUME NEW d \in Delegate, RefuseStart(d) PROVE OwnerInStep'
  BY <1>0, <1>2, Types DEF RefuseStart, fields, objects, threadHistory, OwnerInStep, Untouched
<1>3. CASE CheckCreated
  <2>1. ASSUME NEW x \in Delegate, told'[x] = "nothing", threadOwner'.of # x PROVE Untouched(x)'
    <3>1. CASE x = threadOwner.of
      BY <1>0, <1>3, <2>1, <3>1, CheckHere
    <3>2. CASE x # threadOwner.of
      <4>1. Same(x)
        BY <1>0, <1>3, <3>2, Bystander
      <4> QED
        BY <1>0, <2>1, <4>1 DEF Same, OwnerInStep, Untouched
    <3> QED
      BY <3>1, <3>2
  <2> QED
    BY <1>0, <1>3, <2>1, CheckHere DEF OwnerInStep
<1>4. CASE Stop
  <2>1. ASSUME NEW x \in Delegate, told'[x] = "nothing", threadOwner'.of # x PROVE Untouched(x)'
    <3>1. CASE x = mThread
      BY <1>0, <1>4, <2>1, <3>1, StopHere
    <3>2. CASE x # mThread
      <4>1. Same(x)
        BY <1>0, <1>4, <3>2, Bystander
      <4> QED
        BY <1>0, <2>1, <4>1 DEF Same, OwnerInStep, Untouched
    <3> QED
      BY <3>1, <3>2
  <2> QED
    BY <1>0, <1>4, <2>1, StopHere DEF OwnerInStep
<1>5. CASE Bye
  <2>1. ASSUME NEW x \in Delegate, told'[x] = "nothing", threadOwner'.of # x PROVE Untouched(x)'
    <3>1. CASE x = mThread
      BY <1>0, <1>5, <2>1, <3>1, StopHere
    <3>2. CASE x # mThread
      <4>1. Same(x)
        BY <1>0, <1>5, <3>2, Bystander
      <4> QED
        BY <1>0, <2>1, <4>1 DEF Same, OwnerInStep, Untouched
    <3> QED
      BY <3>1, <3>2
  <2> QED
    BY <1>0, <1>5, <2>1, StopHere DEF OwnerInStep
<1>6. CASE StopRunnable
  BY <1>0, <1>6, NoneAssumption DEF StopRunnable, With, ThreadTypeOK, OwnerAt, fields, objects,
     threadHistory, OwnerInStep, Untouched
<1>7. CASE Join
  BY <1>0, <1>7, NoneAssumption DEF Join, With, ThreadTypeOK, OwnerAt, fields, objects, threadHistory,
     OwnerInStep, Untouched
<1>8. CASE Joined
  BY <1>0, <1>8, NoneAssumption DEF Joined, With, ThreadTypeOK, OwnerAt, fields, objects, threadHistory,
     OwnerInStep, Untouched
<1>9. CASE OwnerDrop
  <2>1. ASSUME NEW x \in Delegate, told'[x] = "nothing", threadOwner'.of # x PROVE Untouched(x)'
    <3>1. CASE x = threadOwner.of
      BY <1>0, <1>9, <2>1, <3>1, DropHere
    <3>2. CASE x # threadOwner.of
      <4>1. Same(x)
        BY <1>0, <1>9, <3>2, Bystander
      <4> QED
        BY <1>0, <2>1, <4>1 DEF Same, OwnerInStep, Untouched
    <3> QED
      BY <3>1, <3>2
  <2> QED
    BY <1>0, <1>9, <2>1, DropHere DEF OwnerInStep
<1>10. CASE OwnerDelete
  <2>1. ASSUME NEW x \in Delegate, told'[x] = "nothing", threadOwner'.of # x PROVE Untouched(x)'
    <3>1. CASE x = threadOwner.of
      BY <1>0, <1>10, <2>1, <3>1, DeleteHere
    <3>2. CASE x # threadOwner.of
      <4>1. Same(x)
        BY <1>0, <1>10, <3>2, Bystander
      <4> QED
        BY <1>0, <2>1, <4>1 DEF Same, OwnerInStep, Untouched
    <3> QED
      BY <3>1, <3>2
  <2> QED
    BY <1>0, <1>10, <2>1, DeleteHere DEF OwnerInStep
<1>11. ASSUME NEW d \in Delegate, Begin(d) PROVE OwnerInStep'
  BY <1>0, <1>11, Types DEF Begin, Go, fields, objects, threadHistory, OwnerInStep, Untouched
<1>12. ASSUME NEW d \in Delegate, Loop(d) PROVE OwnerInStep'
  BY <1>0, <1>12, Types DEF Loop, Go, fields, objects, threadHistory, OwnerInStep, Untouched
<1>13. ASSUME NEW d \in Delegate, ClearRunnable(d) PROVE OwnerInStep'
  BY <1>0, <1>13, Types DEF ClearRunnable, Go, fields, objects, threadHistory, OwnerInStep,
     Untouched
<1>14. ASSUME NEW d \in Delegate, DeleteRunnable(d) PROVE OwnerInStep'
  BY <1>0, <1>14, Types DEF DeleteRunnable, Go, fields, objects, threadHistory, OwnerInStep,
     Untouched
<1>15. ASSUME NEW d \in Delegate, WorkerDrop(d) PROVE OwnerInStep'
  BY <1>0, <1>15, Types DEF WorkerDrop, Go, Drop, IsLast, fields, objects, threadHistory,
     OwnerInStep, Untouched
<1>16. ASSUME NEW d \in Delegate, WorkerDelete(d) PROVE OwnerInStep'
  BY <1>0, <1>16, Types DEF WorkerDelete, Go, Delete, fields, objects, threadHistory, OwnerInStep,
     Untouched
<1>17. ASSUME NEW d \in Delegate, NEW again \in BOOLEAN, RunReturns(d, again) PROVE OwnerInStep'
  BY <1>0, <1>17, Types DEF RunReturns, Go, fields, objects, threadHistory, OwnerInStep, Untouched
<1>18. CASE UNCHANGED threadVars
  BY <1>0, <1>18 DEF threadVars, fields, objects, threadHistory, OwnerInStep, Untouched
<1> QED
  BY <1>1, <1>2, <1>3, <1>4, <1>5, <1>6, <1>7, <1>8, <1>9,
     <1>10, <1>11, <1>12, <1>13, <1>14, <1>15, <1>16, <1>17, <1>18
     DEF ThreadNext, OwnerCalls, OwnerProceeds, WorkerProceeds, WorkerLeaves

(* A runnable is deleted by its own thread only, which then leaves.        *)
LEMMA RunStep == IInv /\ [ThreadNext]_threadVars => RunInv'
<1> SUFFICES ASSUME IInv, [ThreadNext]_threadVars PROVE RunInv'
  OBVIOUS
<1>0. ThreadTypeOK /\ OwnerInStep /\ RunInv
  BY DEF IInv
<1>1. ASSUME NEW d \in Delegate, NEW j \in Joinable, Create(d, j) PROVE RunInv'
  <2> SUFFICES ASSUME NEW x \in Delegate PROVE RunsLive(x)'
    BY DEF RunInv
  <2>1. CASE x = d
    BY <1>0, <1>1, <2>1, CreateHere, Types DEF RunInv, RunsLive, Untouched
  <2>2. CASE x # d
    <3>1. Same(x)
      BY <1>0, <1>1, <2>2, Bystander
    <3> QED
      BY <1>0, <3>1 DEF Same, RunInv, RunsLive, Untouched
  <2> QED
    BY <2>1, <2>2
<1>2. ASSUME NEW d \in Delegate, RefuseStart(d) PROVE RunInv'
  BY <1>0, <1>2, Types DEF RefuseStart, fields, objects, threadHistory, OwnerInStep, Untouched, RunInv,
     RunsLive
<1>3. CASE CheckCreated
  <2> SUFFICES ASSUME NEW x \in Delegate PROVE RunsLive(x)'
    BY DEF RunInv
  <2>1. CASE x = threadOwner.of
    BY <1>0, <1>3, <2>1, CheckHere, Types DEF RunInv, RunsLive, Untouched
  <2>2. CASE x # threadOwner.of
    <3>1. Same(x)
      BY <1>0, <1>3, <2>2, Bystander
    <3> QED
      BY <1>0, <3>1 DEF Same, RunInv, RunsLive, Untouched
  <2> QED
    BY <2>1, <2>2
<1>4. CASE Stop
  <2> SUFFICES ASSUME NEW x \in Delegate PROVE RunsLive(x)'
    BY DEF RunInv
  <2>1. CASE x = mThread
    BY <1>0, <1>4, <2>1, StopHere, Types DEF RunInv, RunsLive, Untouched
  <2>2. CASE x # mThread
    <3>1. Same(x)
      BY <1>0, <1>4, <2>2, Bystander
    <3> QED
      BY <1>0, <3>1 DEF Same, RunInv, RunsLive, Untouched
  <2> QED
    BY <2>1, <2>2
<1>5. CASE Bye
  <2> SUFFICES ASSUME NEW x \in Delegate PROVE RunsLive(x)'
    BY DEF RunInv
  <2>1. CASE x = mThread
    BY <1>0, <1>5, <2>1, StopHere, Types DEF RunInv, RunsLive, Untouched
  <2>2. CASE x # mThread
    <3>1. Same(x)
      BY <1>0, <1>5, <2>2, Bystander
    <3> QED
      BY <1>0, <3>1 DEF Same, RunInv, RunsLive, Untouched
  <2> QED
    BY <2>1, <2>2
<1>6. CASE StopRunnable
  BY <1>0, <1>6, NoneAssumption DEF StopRunnable, With, ThreadTypeOK, OwnerAt, fields, objects,
     threadHistory, OwnerInStep, Untouched, RunInv, RunsLive
<1>7. CASE Join
  BY <1>0, <1>7, NoneAssumption DEF Join, With, ThreadTypeOK, OwnerAt, fields, objects, threadHistory,
     OwnerInStep, Untouched, RunInv, RunsLive
<1>8. CASE Joined
  BY <1>0, <1>8, NoneAssumption DEF Joined, With, ThreadTypeOK, OwnerAt, fields, objects, threadHistory,
     OwnerInStep, Untouched, RunInv, RunsLive
<1>9. CASE OwnerDrop
  <2> SUFFICES ASSUME NEW x \in Delegate PROVE RunsLive(x)'
    BY DEF RunInv
  <2>1. CASE x = threadOwner.of
    BY <1>0, <1>9, <2>1, DropHere, Types DEF RunInv, RunsLive, Untouched
  <2>2. CASE x # threadOwner.of
    <3>1. Same(x)
      BY <1>0, <1>9, <2>2, Bystander
    <3> QED
      BY <1>0, <3>1 DEF Same, RunInv, RunsLive, Untouched
  <2> QED
    BY <2>1, <2>2
<1>10. CASE OwnerDelete
  <2> SUFFICES ASSUME NEW x \in Delegate PROVE RunsLive(x)'
    BY DEF RunInv
  <2>1. CASE x = threadOwner.of
    BY <1>0, <1>10, <2>1, DeleteHere, Types DEF RunInv, RunsLive, Untouched
  <2>2. CASE x # threadOwner.of
    <3>1. Same(x)
      BY <1>0, <1>10, <2>2, Bystander
    <3> QED
      BY <1>0, <3>1 DEF Same, RunInv, RunsLive, Untouched
  <2> QED
    BY <2>1, <2>2
<1>11. ASSUME NEW d \in Delegate, Begin(d) PROVE RunInv'
  BY <1>0, <1>11, Types DEF Begin, Go, fields, objects, threadHistory, OwnerInStep, Untouched,
     RunInv, RunsLive
<1>12. ASSUME NEW d \in Delegate, Loop(d) PROVE RunInv'
  BY <1>0, <1>12, Types DEF Loop, Go, fields, objects, threadHistory, OwnerInStep, Untouched,
     RunInv, RunsLive
<1>13. ASSUME NEW d \in Delegate, ClearRunnable(d) PROVE RunInv'
  BY <1>0, <1>13, Types DEF ClearRunnable, Go, fields, objects, threadHistory, OwnerInStep,
     Untouched, RunInv, RunsLive
<1>14. ASSUME NEW d \in Delegate, DeleteRunnable(d) PROVE RunInv'
  BY <1>0, <1>14, Types DEF DeleteRunnable, Go, fields, objects, threadHistory, OwnerInStep,
     Untouched, RunInv, RunsLive
<1>15. ASSUME NEW d \in Delegate, WorkerDrop(d) PROVE RunInv'
  BY <1>0, <1>15, Types DEF WorkerDrop, Go, Drop, IsLast, fields, objects, threadHistory,
     OwnerInStep, Untouched, RunInv, RunsLive
<1>16. ASSUME NEW d \in Delegate, WorkerDelete(d) PROVE RunInv'
  BY <1>0, <1>16, Types DEF WorkerDelete, Go, Delete, fields, objects, threadHistory, OwnerInStep,
     Untouched, RunInv, RunsLive
<1>17. ASSUME NEW d \in Delegate, NEW again \in BOOLEAN, RunReturns(d, again) PROVE RunInv'
  BY <1>0, <1>17, Types DEF RunReturns, Go, fields, objects, threadHistory, OwnerInStep,
     Untouched, RunInv, RunsLive
<1>18. CASE UNCHANGED threadVars
  BY <1>0, <1>18 DEF threadVars, fields, objects, threadHistory, RunInv, RunsLive
<1> QED
  BY <1>1, <1>2, <1>3, <1>4, <1>5, <1>6, <1>7, <1>8, <1>9,
     <1>10, <1>11, <1>12, <1>13, <1>14, <1>15, <1>16, <1>17, <1>18
     DEF ThreadNext, OwnerCalls, OwnerProceeds, WorkerProceeds, WorkerLeaves

(* The count stays right, and the delegate alive as long as it is used.    *)
LEMMA SharedStep == IInv /\ [ThreadNext]_threadVars => Shared'
<1> SUFFICES ASSUME IInv, [ThreadNext]_threadVars PROVE Shared'
  OBVIOUS
<1>0. ThreadTypeOK /\ OwnerInStep /\ Shared
  BY DEF IInv
<1>1. ASSUME NEW d \in Delegate, NEW j \in Joinable, Create(d, j) PROVE Shared'
  <2> SUFFICES ASSUME NEW x \in Delegate PROVE (Counted(x) /\ Outlived(x))'
    BY DEF Shared
  <2>1. CASE x = d
    <3>1. Counted(x) /\ Outlived(x)
      BY <1>0 DEF Shared
    <3>2. Counted(x)'
      <4>1. OwnerHolds(x)' /\ ~OwnerFrees(x)'
        BY <1>0, <1>1, <2>1, CreateHere DEF OwnerHolds, OwnerFrees, OwnerUses
      <4>2. \/ worker'[x] = "begin" /\ mRefCount'[x] = 2
            \/ worker'[x] = "none" /\ mRefCount'[x] = 1
        BY <1>0, <1>1, <2>1, CreateHere DEF Untouched
      <4> QED
        BY <4>1, <4>2 DEF Counted, WorkerHolds
    <3>3. Outlived(x)'
      BY <1>0, <1>1, <2>1, <3>1, CreateHere, NoneAssumption
         DEF Untouched, Counted, Outlived, OwnerHolds, OwnerFrees, WorkerHolds, OwnerUses, WorkerUses
    <3> QED
      BY <3>2, <3>3
  <2>2. CASE x # d
    <3>1. Same(x)
      BY <1>0, <1>1, <2>2, Bystander
    <3> QED
      BY <1>0, <3>1 DEF Same, Shared, Counted, Outlived, OwnerHolds, OwnerFrees, WorkerHolds, OwnerUses, WorkerUses
  <2> QED
    BY <2>1, <2>2
<1>2. ASSUME NEW d \in Delegate, RefuseStart(d) PROVE Shared'
  BY <1>0, <1>2, Types DEF RefuseStart, fields, objects, threadHistory, OwnerInStep, Untouched, Shared,
     Counted, Outlived, OwnerHolds, OwnerFrees, WorkerHolds, OwnerUses, WorkerUses
<1>3. CASE CheckCreated
  <2> SUFFICES ASSUME NEW x \in Delegate PROVE (Counted(x) /\ Outlived(x))'
    BY DEF Shared
  <2>1. CASE x = threadOwner.of
    <3>1. Counted(x) /\ Outlived(x)
      BY <1>0 DEF Shared
    <3>2. Counted(x)'
      BY <1>0, <1>3, <2>1, <3>1, CheckHere, NoneAssumption
         DEF Untouched, Counted, OwnerHolds, OwnerFrees, WorkerHolds, OwnerUses, WorkerUses
    <3>3. Outlived(x)'
      BY <1>0, <1>3, <2>1, <3>1, CheckHere, NoneAssumption
         DEF Untouched, Counted, Outlived, OwnerHolds, OwnerFrees, WorkerHolds, OwnerUses, WorkerUses
    <3> QED
      BY <3>2, <3>3
  <2>2. CASE x # threadOwner.of
    <3>1. Same(x)
      BY <1>0, <1>3, <2>2, Bystander
    <3> QED
      BY <1>0, <3>1 DEF Same, Shared, Counted, Outlived, OwnerHolds, OwnerFrees, WorkerHolds, OwnerUses, WorkerUses
  <2> QED
    BY <2>1, <2>2
<1>4. CASE Stop
  <2> SUFFICES ASSUME NEW x \in Delegate PROVE (Counted(x) /\ Outlived(x))'
    BY DEF Shared
  <2>1. CASE x = mThread
    <3>1. Counted(x) /\ Outlived(x)
      BY <1>0 DEF Shared
    <3>2. Counted(x)'
      BY <1>0, <1>4, <2>1, <3>1, StopHere, NoneAssumption
         DEF Untouched, Counted, OwnerHolds, OwnerFrees, WorkerHolds, OwnerUses, WorkerUses
    <3>3. Outlived(x)'
      BY <1>0, <1>4, <2>1, <3>1, StopHere, NoneAssumption
         DEF Untouched, Counted, Outlived, OwnerHolds, OwnerFrees, WorkerHolds, OwnerUses, WorkerUses
    <3> QED
      BY <3>2, <3>3
  <2>2. CASE x # mThread
    <3>1. Same(x)
      BY <1>0, <1>4, <2>2, Bystander
    <3> QED
      BY <1>0, <3>1 DEF Same, Shared, Counted, Outlived, OwnerHolds, OwnerFrees, WorkerHolds, OwnerUses, WorkerUses
  <2> QED
    BY <2>1, <2>2
<1>5. CASE Bye
  <2> SUFFICES ASSUME NEW x \in Delegate PROVE (Counted(x) /\ Outlived(x))'
    BY DEF Shared
  <2>1. CASE x = mThread
    <3>1. Counted(x) /\ Outlived(x)
      BY <1>0 DEF Shared
    <3>2. Counted(x)'
      BY <1>0, <1>5, <2>1, <3>1, StopHere, NoneAssumption
         DEF Untouched, Counted, OwnerHolds, OwnerFrees, WorkerHolds, OwnerUses, WorkerUses
    <3>3. Outlived(x)'
      BY <1>0, <1>5, <2>1, <3>1, StopHere, NoneAssumption
         DEF Untouched, Counted, Outlived, OwnerHolds, OwnerFrees, WorkerHolds, OwnerUses, WorkerUses
    <3> QED
      BY <3>2, <3>3
  <2>2. CASE x # mThread
    <3>1. Same(x)
      BY <1>0, <1>5, <2>2, Bystander
    <3> QED
      BY <1>0, <3>1 DEF Same, Shared, Counted, Outlived, OwnerHolds, OwnerFrees, WorkerHolds, OwnerUses, WorkerUses
  <2> QED
    BY <2>1, <2>2
<1>6. CASE StopRunnable
  BY <1>0, <1>6, NoneAssumption DEF StopRunnable, With, ThreadTypeOK, OwnerAt, fields, objects,
     threadHistory, OwnerInStep, Untouched, Shared, Counted, Outlived, OwnerHolds, OwnerFrees,
     WorkerHolds, OwnerUses, WorkerUses
<1>7. CASE Join
  BY <1>0, <1>7, NoneAssumption DEF Join, With, ThreadTypeOK, OwnerAt, fields, objects, threadHistory,
     OwnerInStep, Untouched, Shared, Counted, Outlived, OwnerHolds, OwnerFrees, WorkerHolds,
     OwnerUses, WorkerUses
<1>8. CASE Joined
  BY <1>0, <1>8, NoneAssumption DEF Joined, With, ThreadTypeOK, OwnerAt, fields, objects, threadHistory,
     OwnerInStep, Untouched, Shared, Counted, Outlived, OwnerHolds, OwnerFrees, WorkerHolds,
     OwnerUses, WorkerUses
<1>9. CASE OwnerDrop
  <2> SUFFICES ASSUME NEW x \in Delegate PROVE (Counted(x) /\ Outlived(x))'
    BY DEF Shared
  <2>1. CASE x = threadOwner.of
    <3>1. Counted(x) /\ Outlived(x)
      BY <1>0 DEF Shared
    <3>2. Counted(x)'
      <4>1. OwnerHolds(x)
        BY <1>0, <1>9, <2>1, DropHere DEF OwnerHolds, OwnerFrees, OwnerUses
      <4>2. ~OwnerHolds(x)'
        BY <1>0, <1>9, <2>1, DropHere, NoneAssumption DEF OwnerHolds, OwnerFrees, OwnerUses
      <4>3. CASE WorkerHolds(x)
        <5>1. mRefCount[threadOwner.of] = 2
          BY <2>1, <3>1, <4>1, <4>3 DEF Counted
        <5>2. mRefCount'[threadOwner.of] = 1 /\ threadOwner'.pc = "idle"
          BY <1>0, <1>9, <5>1, DropHere
        <5> QED
          BY <1>0, <1>9, <2>1, <4>2, <4>3, <5>2, DropHere
             DEF Counted, WorkerHolds, OwnerFrees
      <4>4. CASE ~WorkerHolds(x)
        <5>1. mRefCount'[x] = 0 /\ ~WorkerUses(x)
          BY <1>0, <1>9, <2>1, <3>1, <4>1, <4>4, DropHere
             DEF Counted, WorkerHolds, WorkerUses, OwnerHolds
        <5> QED
          BY <1>0, <1>9, <2>1, <4>2, <4>4, <5>1, DropHere
             DEF Counted, WorkerHolds, WorkerUses
      <4> QED
        BY <4>3, <4>4
    <3>3. Outlived(x)'
      BY <1>0, <1>9, <2>1, <3>1, DropHere, NoneAssumption
         DEF Untouched, Counted, Outlived, OwnerHolds, OwnerFrees, WorkerHolds, OwnerUses, WorkerUses
    <3> QED
      BY <3>2, <3>3
  <2>2. CASE x # threadOwner.of
    <3>1. Same(x)
      BY <1>0, <1>9, <2>2, Bystander
    <3> QED
      BY <1>0, <3>1 DEF Same, Shared, Counted, Outlived, OwnerHolds, OwnerFrees, WorkerHolds, OwnerUses, WorkerUses
  <2> QED
    BY <2>1, <2>2
<1>10. CASE OwnerDelete
  <2> SUFFICES ASSUME NEW x \in Delegate PROVE (Counted(x) /\ Outlived(x))'
    BY DEF Shared
  <2>1. CASE x = threadOwner.of
    <3>1. Counted(x) /\ Outlived(x)
      BY <1>0 DEF Shared
    <3>2. Counted(x)'
      BY <1>0, <1>10, <2>1, <3>1, DeleteHere, NoneAssumption
         DEF Untouched, Counted, OwnerHolds, OwnerFrees, WorkerHolds, OwnerUses, WorkerUses
    <3>3. Outlived(x)'
      BY <1>0, <1>10, <2>1, <3>1, DeleteHere, NoneAssumption
         DEF Untouched, Counted, Outlived, OwnerHolds, OwnerFrees, WorkerHolds, OwnerUses, WorkerUses
    <3> QED
      BY <3>2, <3>3
  <2>2. CASE x # threadOwner.of
    <3>1. Same(x)
      BY <1>0, <1>10, <2>2, Bystander
    <3> QED
      BY <1>0, <3>1 DEF Same, Shared, Counted, Outlived, OwnerHolds, OwnerFrees, WorkerHolds, OwnerUses, WorkerUses
  <2> QED
    BY <2>1, <2>2
<1>11. ASSUME NEW d \in Delegate, Begin(d) PROVE Shared'
  <2> SUFFICES ASSUME NEW x \in Delegate PROVE (Counted(x) /\ Outlived(x))'
    BY DEF Shared
  <2>1. /\ UNCHANGED <<mThread, threadOwner, told, joinable>>
        /\ Counted(x) /\ Outlived(x)
    BY <1>0, <1>11, Types DEF Begin, fields, objects, threadHistory, Shared
  <2>2. CASE x = d
    BY <1>0, <1>11, <2>1, <2>2, Types DEF Begin, Go, fields, objects, threadHistory, Counted,
       Outlived, OwnerHolds, OwnerFrees, WorkerHolds, OwnerUses, WorkerUses
  <2>3. CASE x # d
    BY <1>0, <1>11, <2>1, <2>3, Types DEF Begin, Go, fields, objects, threadHistory, Counted,
       Outlived, OwnerHolds, OwnerFrees, WorkerHolds, OwnerUses, WorkerUses
  <2> QED
    BY <2>2, <2>3
<1>12. ASSUME NEW d \in Delegate, Loop(d) PROVE Shared'
  <2> SUFFICES ASSUME NEW x \in Delegate PROVE (Counted(x) /\ Outlived(x))'
    BY DEF Shared
  <2>1. /\ UNCHANGED <<mThread, threadOwner, told, joinable>>
        /\ Counted(x) /\ Outlived(x)
    BY <1>0, <1>12, Types DEF Loop, fields, objects, threadHistory, Shared
  <2>2. CASE x = d
    BY <1>0, <1>12, <2>1, <2>2, Types DEF Loop, Go, fields, objects, threadHistory, Counted,
       Outlived, OwnerHolds, OwnerFrees, WorkerHolds, OwnerUses, WorkerUses
  <2>3. CASE x # d
    BY <1>0, <1>12, <2>1, <2>3, Types DEF Loop, Go, fields, objects, threadHistory, Counted,
       Outlived, OwnerHolds, OwnerFrees, WorkerHolds, OwnerUses, WorkerUses
  <2> QED
    BY <2>2, <2>3
<1>13. ASSUME NEW d \in Delegate, ClearRunnable(d) PROVE Shared'
  <2> SUFFICES ASSUME NEW x \in Delegate PROVE (Counted(x) /\ Outlived(x))'
    BY DEF Shared
  <2>1. /\ UNCHANGED <<mThread, threadOwner, told, joinable>>
        /\ Counted(x) /\ Outlived(x)
    BY <1>0, <1>13, Types DEF ClearRunnable, fields, objects, threadHistory, Shared
  <2>2. CASE x = d
    BY <1>0, <1>13, <2>1, <2>2, Types DEF ClearRunnable, Go, fields, objects, threadHistory,
       Counted, Outlived, OwnerHolds, OwnerFrees, WorkerHolds, OwnerUses, WorkerUses
  <2>3. CASE x # d
    BY <1>0, <1>13, <2>1, <2>3, Types DEF ClearRunnable, Go, fields, objects, threadHistory,
       Counted, Outlived, OwnerHolds, OwnerFrees, WorkerHolds, OwnerUses, WorkerUses
  <2> QED
    BY <2>2, <2>3
<1>14. ASSUME NEW d \in Delegate, DeleteRunnable(d) PROVE Shared'
  <2> SUFFICES ASSUME NEW x \in Delegate PROVE (Counted(x) /\ Outlived(x))'
    BY DEF Shared
  <2>1. /\ UNCHANGED <<mThread, threadOwner, told, joinable>>
        /\ Counted(x) /\ Outlived(x)
    BY <1>0, <1>14, Types DEF DeleteRunnable, fields, objects, threadHistory, Shared
  <2>2. CASE x = d
    BY <1>0, <1>14, <2>1, <2>2, Types DEF DeleteRunnable, Go, fields, objects, threadHistory,
       Counted, Outlived, OwnerHolds, OwnerFrees, WorkerHolds, OwnerUses, WorkerUses
  <2>3. CASE x # d
    BY <1>0, <1>14, <2>1, <2>3, Types DEF DeleteRunnable, Go, fields, objects, threadHistory,
       Counted, Outlived, OwnerHolds, OwnerFrees, WorkerHolds, OwnerUses, WorkerUses
  <2> QED
    BY <2>2, <2>3
<1>15. ASSUME NEW d \in Delegate, WorkerDrop(d) PROVE Shared'
  <2> SUFFICES ASSUME NEW x \in Delegate PROVE (Counted(x) /\ Outlived(x))'
    BY DEF Shared
  <2>1. /\ Counted(x) /\ Outlived(x)
        /\ UNCHANGED <<mThread, life, threadOwner>>
    BY <1>0, <1>15 DEF WorkerDrop, objects, Shared
  <2>2. CASE x = d
    <3>1. /\ worker[d] = "drop"
          /\ mRefCount[d] = 1 => mRefCount'[d] = 0 /\ worker'[d] = "free"
          /\ mRefCount[d] = 2 => mRefCount'[d] = 1 /\ worker'[d] = "ended"
      BY <1>0, <1>15, Types DEF WorkerDrop, Go, Drop, IsLast
    <3> QED
      BY <2>1, <2>2, <3>1 DEF Counted, Outlived, OwnerHolds, OwnerFrees, WorkerHolds, OwnerUses, WorkerUses
  <2>3. CASE x # d
    <3>1. mRefCount'[x] = mRefCount[x] /\ worker'[x] = worker[x]
      BY <1>0, <1>15, <2>3, Types DEF WorkerDrop, Go, Drop
    <3> QED
      BY <2>1, <3>1 DEF Counted, Outlived, OwnerHolds, OwnerFrees, WorkerHolds, OwnerUses, WorkerUses
  <2> QED
    BY <2>2, <2>3
<1>16. ASSUME NEW d \in Delegate, WorkerDelete(d) PROVE Shared'
  <2> SUFFICES ASSUME NEW x \in Delegate PROVE (Counted(x) /\ Outlived(x))'
    BY DEF Shared
  <2>1. /\ UNCHANGED <<mThread, threadOwner, told, joinable>>
        /\ Counted(x) /\ Outlived(x)
    BY <1>0, <1>16, Types DEF WorkerDelete, fields, objects, threadHistory, Shared
  <2>2. CASE x = d
    BY <1>0, <1>16, <2>1, <2>2, Types DEF WorkerDelete, Go, Delete, fields, objects,
       threadHistory, Counted, Outlived, OwnerHolds, OwnerFrees, WorkerHolds, OwnerUses,
       WorkerUses
  <2>3. CASE x # d
    BY <1>0, <1>16, <2>1, <2>3, Types DEF WorkerDelete, Go, Delete, fields, objects,
       threadHistory, Counted, Outlived, OwnerHolds, OwnerFrees, WorkerHolds, OwnerUses,
       WorkerUses
  <2> QED
    BY <2>2, <2>3
<1>17. ASSUME NEW d \in Delegate, NEW again \in BOOLEAN, RunReturns(d, again) PROVE Shared'
  <2> SUFFICES ASSUME NEW x \in Delegate PROVE (Counted(x) /\ Outlived(x))'
    BY DEF Shared
  <2>1. /\ UNCHANGED <<mThread, threadOwner, told, joinable>>
        /\ Counted(x) /\ Outlived(x)
    BY <1>0, <1>17, Types DEF RunReturns, fields, objects, threadHistory, Shared
  <2>2. CASE x = d
    BY <1>0, <1>17, <2>1, <2>2, Types DEF RunReturns, Go, fields, objects, threadHistory, Counted,
       Outlived, OwnerHolds, OwnerFrees, WorkerHolds, OwnerUses, WorkerUses
  <2>3. CASE x # d
    BY <1>0, <1>17, <2>1, <2>3, Types DEF RunReturns, Go, fields, objects, threadHistory, Counted,
       Outlived, OwnerHolds, OwnerFrees, WorkerHolds, OwnerUses, WorkerUses
  <2> QED
    BY <2>2, <2>3
<1>18. CASE UNCHANGED threadVars
  BY <1>0, <1>18 DEF threadVars, fields, objects, threadHistory, Shared, Counted, Outlived, OwnerHolds, OwnerFrees, WorkerHolds, OwnerUses, WorkerUses
<1> QED
  BY <1>1, <1>2, <1>3, <1>4, <1>5, <1>6, <1>7, <1>8, <1>9,
     <1>10, <1>11, <1>12, <1>13, <1>14, <1>15, <1>16, <1>17, <1>18
     DEF ThreadNext, OwnerCalls, OwnerProceeds, WorkerProceeds, WorkerLeaves

(* A joinable thread that was started is joined before it is let go of.    *)
LEMMA JoinStep == IInv /\ [ThreadNext]_threadVars => JoinInv'
<1> SUFFICES ASSUME IInv, [ThreadNext]_threadVars PROVE JoinInv'
  OBVIOUS
<1>0. ThreadTypeOK /\ OwnerInStep /\ JoinInv
  BY DEF IInv
<1>1. ASSUME NEW d \in Delegate, NEW j \in Joinable, Create(d, j) PROVE JoinInv'
  <2> SUFFICES ASSUME NEW x \in Delegate, x \in joinable' PROVE Marked(x)'
    BY <1>0, <1>1, TypeStep DEF JoinInv, ThreadTypeOK
  <2>1. CASE x = d
    BY <1>0, <1>1, <2>1, CreateHere, Types DEF JoinInv, Marked, OwnerUses, Untouched
  <2>2. CASE x # d
    <3>1. Same(x)
      BY <1>0, <1>1, <2>2, Bystander
    <3> QED
      BY <1>0, <3>1 DEF Same, JoinInv, Marked, OwnerUses, Untouched
  <2> QED
    BY <2>1, <2>2
<1>2. ASSUME NEW d \in Delegate, RefuseStart(d) PROVE JoinInv'
  BY <1>0, <1>2, Types DEF RefuseStart, fields, objects, threadHistory, OwnerInStep, Untouched,
     JoinInv, Marked, OwnerUses
<1>3. CASE CheckCreated
  <2> SUFFICES ASSUME NEW x \in Delegate, x \in joinable' PROVE Marked(x)'
    BY <1>0, <1>3, TypeStep DEF JoinInv, ThreadTypeOK
  <2>1. CASE x = threadOwner.of
    BY <1>0, <1>3, <2>1, CheckHere, Types DEF JoinInv, Marked, OwnerUses, Untouched
  <2>2. CASE x # threadOwner.of
    <3>1. Same(x)
      BY <1>0, <1>3, <2>2, Bystander
    <3> QED
      BY <1>0, <3>1 DEF Same, JoinInv, Marked, OwnerUses, Untouched
  <2> QED
    BY <2>1, <2>2
<1>4. CASE Stop
  <2> SUFFICES ASSUME NEW x \in Delegate, x \in joinable' PROVE Marked(x)'
    BY <1>0, <1>4, TypeStep DEF JoinInv, ThreadTypeOK
  <2>1. CASE x = mThread
    BY <1>0, <1>4, <2>1, StopHere, Types DEF JoinInv, Marked, OwnerUses, Untouched
  <2>2. CASE x # mThread
    <3>1. Same(x)
      BY <1>0, <1>4, <2>2, Bystander
    <3> QED
      BY <1>0, <3>1 DEF Same, JoinInv, Marked, OwnerUses, Untouched
  <2> QED
    BY <2>1, <2>2
<1>5. CASE Bye
  <2> SUFFICES ASSUME NEW x \in Delegate, x \in joinable' PROVE Marked(x)'
    BY <1>0, <1>5, TypeStep DEF JoinInv, ThreadTypeOK
  <2>1. CASE x = mThread
    BY <1>0, <1>5, <2>1, StopHere, Types DEF JoinInv, Marked, OwnerUses, Untouched
  <2>2. CASE x # mThread
    <3>1. Same(x)
      BY <1>0, <1>5, <2>2, Bystander
    <3> QED
      BY <1>0, <3>1 DEF Same, JoinInv, Marked, OwnerUses, Untouched
  <2> QED
    BY <2>1, <2>2
<1>6. CASE StopRunnable
  BY <1>0, <1>6, NoneAssumption DEF StopRunnable, With, ThreadTypeOK, OwnerAt, fields, objects,
     threadHistory, OwnerInStep, Untouched, JoinInv, Marked, OwnerUses
<1>7. CASE Join
  <2> SUFFICES ASSUME NEW x \in joinable' PROVE Marked(x)'
    BY DEF JoinInv
  <2>1. /\ threadOwner.pc = "join" /\ threadOwner.of \in Delegate
        /\ threadOwner' = With(IF mJoinable[threadOwner.of] THEN "joining" ELSE "drop", threadOwner.of)
        /\ mJoinable' = [mJoinable EXCEPT ![threadOwner.of] = FALSE]
        /\ UNCHANGED <<mThread, mRunnable, worker, told, joinable>>
    BY <1>0, <1>7, OwnerKinds DEF Join, objects, threadHistory
  <2>2. Marked(x) /\ x \in Delegate
    BY <1>0, <2>1, Types DEF JoinInv
  <2>3. threadOwner'.of = threadOwner.of /\ threadOwner'.pc = IF mJoinable[threadOwner.of] THEN "joining" ELSE "drop"
    BY <2>1, OwnerFields
  <2>4. CASE x = threadOwner.of
    BY <1>0, <2>1, <2>2, <2>3, <2>4 DEF OwnerInStep, Marked, OwnerUses
  <2>5. CASE x # threadOwner.of
    <3>1. mJoinable'[x] = mJoinable[x]
      BY <1>0, <2>1, <2>2, <2>5, Types
    <3> QED
      BY <2>1, <2>2, <2>3, <2>5, <3>1 DEF Marked, OwnerUses
  <2> QED
    BY <2>4, <2>5
<1>8. CASE Joined
  BY <1>0, <1>8, NoneAssumption DEF Joined, With, ThreadTypeOK, OwnerAt, fields, objects, threadHistory,
     OwnerInStep, Untouched, JoinInv, Marked, OwnerUses
<1>9. CASE OwnerDrop
  <2> SUFFICES ASSUME NEW x \in Delegate, x \in joinable' PROVE Marked(x)'
    BY <1>0, <1>9, TypeStep DEF JoinInv, ThreadTypeOK
  <2>0. Marked(x)
    BY <1>0, <1>9, DropHere DEF JoinInv
  <2>1. CASE x = threadOwner.of
    <3>1. worker'[x] = worker[x] /\ threadOwner'.pc # "created"
      BY <1>0, <1>9, <2>1, DropHere
    <3>2. CASE threadOwner.pc = "drop"
      BY <1>0, <1>9, <2>0, <2>1, <3>1, <3>2, DropHere, Types DEF Marked, OwnerUses
    <3>3. CASE threadOwner.pc = "discard"
      BY <1>0, <1>9, <2>0, <2>1, <3>1, <3>3, DropHere, Types DEF Marked, OwnerUses
    <3> QED
      BY <1>0, <1>9, <3>2, <3>3, DropHere
  <2>2. CASE x # threadOwner.of
    <3>1. Same(x)
      BY <1>0, <1>9, <2>2, Bystander
    <3> QED
      BY <2>0, <3>1 DEF Same, Marked, OwnerUses
  <2> QED
    BY <2>1, <2>2
<1>10. CASE OwnerDelete
  <2> SUFFICES ASSUME NEW x \in Delegate, x \in joinable' PROVE Marked(x)'
    BY <1>0, <1>10, TypeStep DEF JoinInv, ThreadTypeOK
  <2>0. Marked(x)
    BY <1>0, <1>10, DeleteHere DEF JoinInv
  <2>1. CASE x = threadOwner.of
    <3>1. worker'[x] = worker[x] /\ threadOwner'.pc # "created"
      BY <1>0, <1>10, <2>1, DeleteHere
    <3>2. CASE threadOwner.pc = "free"
      BY <1>0, <1>10, <2>0, <2>1, <3>1, <3>2, DeleteHere, Types DEF Marked, OwnerUses
    <3>3. CASE threadOwner.pc = "discard free"
      BY <1>0, <1>10, <2>0, <2>1, <3>1, <3>3, DeleteHere, Types DEF Marked, OwnerUses
    <3> QED
      BY <1>0, <1>10, <3>2, <3>3, DeleteHere
  <2>2. CASE x # threadOwner.of
    <3>1. Same(x)
      BY <1>0, <1>10, <2>2, Bystander
    <3> QED
      BY <2>0, <3>1 DEF Same, Marked, OwnerUses
  <2> QED
    BY <2>1, <2>2
<1>11. ASSUME NEW d \in Delegate, Begin(d) PROVE JoinInv'
  <2> SUFFICES ASSUME NEW x \in joinable' PROVE Marked(x)'
    BY DEF JoinInv
  <2>1. /\ UNCHANGED <<mThread, threadOwner, told, joinable>>
        /\ Marked(x) /\ x \in Delegate
    BY <1>0, <1>11, Types DEF Begin, fields, objects, threadHistory, JoinInv
  <2>2. CASE x = d
    BY <1>0, <1>11, <2>1, <2>2, Types DEF Begin, Go, fields, objects, threadHistory, Marked,
       OwnerUses
  <2>3. CASE x # d
    BY <1>0, <1>11, <2>1, <2>3, Types DEF Begin, Go, fields, objects, threadHistory, Marked,
       OwnerUses
  <2> QED
    BY <2>2, <2>3
<1>12. ASSUME NEW d \in Delegate, Loop(d) PROVE JoinInv'
  <2> SUFFICES ASSUME NEW x \in joinable' PROVE Marked(x)'
    BY DEF JoinInv
  <2>1. /\ UNCHANGED <<mThread, threadOwner, told, joinable>>
        /\ Marked(x) /\ x \in Delegate
    BY <1>0, <1>12, Types DEF Loop, fields, objects, threadHistory, JoinInv
  <2>2. CASE x = d
    BY <1>0, <1>12, <2>1, <2>2, Types DEF Loop, Go, fields, objects, threadHistory, Marked,
       OwnerUses
  <2>3. CASE x # d
    BY <1>0, <1>12, <2>1, <2>3, Types DEF Loop, Go, fields, objects, threadHistory, Marked,
       OwnerUses
  <2> QED
    BY <2>2, <2>3
<1>13. ASSUME NEW d \in Delegate, ClearRunnable(d) PROVE JoinInv'
  <2> SUFFICES ASSUME NEW x \in joinable' PROVE Marked(x)'
    BY DEF JoinInv
  <2>1. /\ UNCHANGED <<mThread, threadOwner, told, joinable>>
        /\ Marked(x) /\ x \in Delegate
    BY <1>0, <1>13, Types DEF ClearRunnable, fields, objects, threadHistory, JoinInv
  <2>2. CASE x = d
    BY <1>0, <1>13, <2>1, <2>2, Types DEF ClearRunnable, Go, fields, objects, threadHistory,
       Marked, OwnerUses
  <2>3. CASE x # d
    BY <1>0, <1>13, <2>1, <2>3, Types DEF ClearRunnable, Go, fields, objects, threadHistory,
       Marked, OwnerUses
  <2> QED
    BY <2>2, <2>3
<1>14. ASSUME NEW d \in Delegate, DeleteRunnable(d) PROVE JoinInv'
  <2> SUFFICES ASSUME NEW x \in joinable' PROVE Marked(x)'
    BY DEF JoinInv
  <2>1. /\ UNCHANGED <<mThread, threadOwner, told, joinable>>
        /\ Marked(x) /\ x \in Delegate
    BY <1>0, <1>14, Types DEF DeleteRunnable, fields, objects, threadHistory, JoinInv
  <2>2. CASE x = d
    BY <1>0, <1>14, <2>1, <2>2, Types DEF DeleteRunnable, Go, fields, objects, threadHistory,
       Marked, OwnerUses
  <2>3. CASE x # d
    BY <1>0, <1>14, <2>1, <2>3, Types DEF DeleteRunnable, Go, fields, objects, threadHistory,
       Marked, OwnerUses
  <2> QED
    BY <2>2, <2>3
<1>15. ASSUME NEW d \in Delegate, WorkerDrop(d) PROVE JoinInv'
  <2> SUFFICES ASSUME NEW x \in joinable' PROVE Marked(x)'
    BY DEF JoinInv
  <2>1. /\ UNCHANGED <<mThread, threadOwner, told, joinable>>
        /\ Marked(x) /\ x \in Delegate
    BY <1>0, <1>15, Types DEF WorkerDrop, fields, objects, threadHistory, JoinInv
  <2>2. CASE x = d
    BY <1>0, <1>15, <2>1, <2>2, Types DEF WorkerDrop, Go, Drop, IsLast, fields, objects,
       threadHistory, Marked, OwnerUses
  <2>3. CASE x # d
    BY <1>0, <1>15, <2>1, <2>3, Types DEF WorkerDrop, Go, Drop, IsLast, fields, objects,
       threadHistory, Marked, OwnerUses
  <2> QED
    BY <2>2, <2>3
<1>16. ASSUME NEW d \in Delegate, WorkerDelete(d) PROVE JoinInv'
  <2> SUFFICES ASSUME NEW x \in joinable' PROVE Marked(x)'
    BY DEF JoinInv
  <2>1. /\ UNCHANGED <<mThread, threadOwner, told, joinable>>
        /\ Marked(x) /\ x \in Delegate
    BY <1>0, <1>16, Types DEF WorkerDelete, fields, objects, threadHistory, JoinInv
  <2>2. CASE x = d
    BY <1>0, <1>16, <2>1, <2>2, Types DEF WorkerDelete, Go, Delete, fields, objects,
       threadHistory, Marked, OwnerUses
  <2>3. CASE x # d
    BY <1>0, <1>16, <2>1, <2>3, Types DEF WorkerDelete, Go, Delete, fields, objects,
       threadHistory, Marked, OwnerUses
  <2> QED
    BY <2>2, <2>3
<1>17. ASSUME NEW d \in Delegate, NEW again \in BOOLEAN, RunReturns(d, again) PROVE JoinInv'
  <2> SUFFICES ASSUME NEW x \in joinable' PROVE Marked(x)'
    BY DEF JoinInv
  <2>1. /\ UNCHANGED <<mThread, threadOwner, told, joinable>>
        /\ Marked(x) /\ x \in Delegate
    BY <1>0, <1>17, Types DEF RunReturns, fields, objects, threadHistory, JoinInv
  <2>2. CASE x = d
    BY <1>0, <1>17, <2>1, <2>2, Types DEF RunReturns, Go, fields, objects, threadHistory, Marked,
       OwnerUses
  <2>3. CASE x # d
    BY <1>0, <1>17, <2>1, <2>3, Types DEF RunReturns, Go, fields, objects, threadHistory, Marked,
       OwnerUses
  <2> QED
    BY <2>2, <2>3
<1>18. CASE UNCHANGED threadVars
  BY <1>0, <1>18 DEF threadVars, fields, objects, threadHistory, JoinInv, Marked, OwnerUses
<1> QED
  BY <1>1, <1>2, <1>3, <1>4, <1>5, <1>6, <1>7, <1>8, <1>9,
     <1>10, <1>11, <1>12, <1>13, <1>14, <1>15, <1>16, <1>17, <1>18
     DEF ThreadNext, OwnerCalls, OwnerProceeds, WorkerProceeds, WorkerLeaves

-----------------------------------------------------------------------------
(* The strengthening holds initially.                                      *)
LEMMA InvInit == ThreadInit => IInv
<1> SUFFICES ASSUME ThreadInit PROVE IInv
  OBVIOUS
<1>1. ThreadTypeOK
  BY DEF ThreadInit, Free, ThreadTypeOK, WorkerAt, OwnerAt
<1>2. threadOwner.pc = "idle" /\ threadOwner.of = None
  BY DEF ThreadInit, Free
<1>3. OwnerInStep
  BY <1>2, NoneAssumption DEF ThreadInit, OwnerInStep, Untouched
<1>4. Shared
  BY <1>2, NoneAssumption
     DEF ThreadInit, Shared, Counted, Outlived, OwnerHolds, OwnerFrees, WorkerHolds, OwnerUses, WorkerUses
<1>5. JoinInv /\ RunInv
  BY DEF ThreadInit, JoinInv, RunInv, RunsLive
<1> QED
  BY <1>1, <1>3, <1>4, <1>5 DEF IInv

(* Every step keeps the strengthening.                                     *)
LEMMA InvStep == IInv /\ [ThreadNext]_threadVars => IInv'
  BY TypeStep, InStepStep, SharedStep, JoinStep, RunStep DEF IInv

(* The strengthening is an invariant, for any number of delegates, each    *)
(* joinable or not (LocThread.cpp).                                        *)
THEOREM Invariant == ThreadSpec => []IInv
  BY InvInit, InvStep, PTL DEF ThreadSpec

-----------------------------------------------------------------------------
(* The variables keep their types: the reference count of a delegate, in   *)
(* particular, never exceeds two, and what the owner refers to exists      *)
(* (LocThread.cpp).                                                        *)
THEOREM TypeCorrect == ThreadSpec => []ThreadTypeOK
<1>1. IInv => ThreadTypeOK
  BY DEF IInv
<1> QED
  BY <1>1, Invariant, PTL

(* Whichever of the owner and the spawned thread releases the delegate     *)
(* last deletes it, and neither touches it after that                      *)
(* (LocThreadDelegate::destroy).                                           *)
THEOREM SharedSafely == ThreadSpec => []DelegateOutlivesUsers
<1>1. IInv => DelegateOutlivesUsers
  BY DEF IInv, Shared, Outlived, DelegateOutlivesUsers
<1> QED
  BY <1>1, Invariant, PTL

(* The spawned thread never calls a runnable that has been deleted, though *)
(* the owner clears it without a lock (LocThreadDelegate::threadMain).     *)
THEOREM RunsSafely == ThreadSpec => []RunsLiveRunnable
<1>1. IInv => RunsLiveRunnable
  BY DEF IInv, RunInv, RunsLive, RunsLiveRunnable
<1> QED
  BY <1>1, Invariant, PTL

(* A joinable thread that was started is over when stop(), or the          *)
(* destructor, has returned (LocThreadDelegate::stop).                     *)
THEOREM JoinedFirst == ThreadSpec => []JoinedIsOver
<1>1. IInv => JoinedIsOver
  BY DEF IInv, JoinInv, Marked, JoinedIsOver
<1> QED
  BY <1>1, Invariant, PTL
=============================================================================
