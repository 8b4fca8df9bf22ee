------------------------- MODULE GnssTrackingProofs -------------------------
(***************************************************************************)
(* Theorems about what clients are served: GnssTracking, for any clients,  *)
(* session ids, intervals and any number of restart messages; the          *)
(* satellites and the sentences of GnssReports, for any constellations,    *)
(* ids, width of the masks and length of the reports; GeofenceClient, for  *)
(* any geofences, masks, lists of ids and bound on the calls under way;    *)
(* LocConfig, for any file whose processes have all their lines.           *)
(***************************************************************************)
EXTENDS GnssTracking, GnssReports, GeofenceClient, LocConfig, FiniteSetTheorems, SequenceTheorems, TLAPS

-----------------------------------------------------------------------------
(* The strengthening.  An id that is yet to be generated has no session,   *)
(* and the sessions to be stopped of a client that goes all exist, as no   *)
(* other message is handled in between.                                    *)
SessionsKnown ==
  /\ Sessions \subseteq generated
  /\ removing.todo \subseteq Sessions

Served == EngineAtShortest /\ SessionsAreServed

IInv == TypeOK /\ SessionsKnown /\ Served

-----------------------------------------------------------------------------
(* What is known of the sessions.                                          *)
LEMMA SessionTypes ==
  ASSUME TypeOK
  PROVE  /\ Sessions \subseteq Id
         /\ \A i \in Sessions :
              /\ mTrackingSessions[i] \in Session
              /\ OptionsOf(i) \in Options
              /\ IntervalOf(i) \in Nat /\ IntervalOf(i) = OptionsOf(i).minInterval
<1>1. \A i \in Sessions : mTrackingSessions[i] \in Session
  BY DEF TypeOK, Sessions
<1>2. \A i \in Sessions : OptionsOf(i) \in Options
  BY <1>1 DEF OptionsOf, Session
<1>3. \A o \in Options : o.minInterval \in Nat
  BY IntervalAssumption DEF Options
<1> QED
  BY <1>1, <1>2, <1>3 DEF Sessions, IntervalOf

LEMMA OptionsTypes ==
  /\ \A o \in Options : o.minInterval \in Nat /\ o # None
BY IntervalAssumption, NoneAssumption DEF Options

(* A session that is saved, or whose options change, is there afterwards   *)
(* with the options; the others stay.                                      *)
LEMMA Saved ==
  ASSUME TypeOK, NEW i \in Id, NEW c \in Client, NEW options \in Options,
         mTrackingSessions' = [mTrackingSessions EXCEPT ![i] = [client |-> c, options |-> options]]
  PROVE  /\ mTrackingSessions' \in [Id -> Session \cup {None}]
         /\ Sessions' = Sessions \cup {i}
         /\ IntervalOf(i)' = options.minInterval
         /\ \A j \in Sessions \ {i} : IntervalOf(j)' = IntervalOf(j)
<1> DEFINE new == [client |-> c, options |-> options]
<1>1. new \in Session /\ new.options = options
  BY DEF Session
<1>2. new # None
  BY <1>1, NoneAssumption
<1> HIDE DEF new
<1>3. mTrackingSessions' = [mTrackingSessions EXCEPT ![i] = new]
  BY DEF new
<1>4. mTrackingSessions' \in [Id -> Session \cup {None}]
  BY <1>1, <1>3 DEF TypeOK
<1>5. Sessions' = Sessions \cup {i}
  BY <1>2, <1>3 DEF TypeOK, Sessions
<1>6. mTrackingSessions'[i] = new /\ \A j \in Id \ {i} : mTrackingSessions'[j] = mTrackingSessions[j]
  BY <1>3 DEF TypeOK
<1> QED
  BY <1>1, <1>4, <1>5, <1>6 DEF IntervalOf, OptionsOf, Sessions

LEMMA Updated ==
  ASSUME TypeOK, NEW i \in Sessions, NEW options \in Options,
         mTrackingSessions' = [mTrackingSessions EXCEPT ![i].options = options]
  PROVE  /\ mTrackingSessions' \in [Id -> Session \cup {None}]
         /\ Sessions' = Sessions
         /\ IntervalOf(i)' = options.minInterval
         /\ \A j \in Sessions \ {i} : IntervalOf(j)' = IntervalOf(j)
<1> DEFINE new == [mTrackingSessions[i] EXCEPT !.options = options]
<1>0. i \in Id /\ mTrackingSessions[i] \in Session
  BY SessionTypes
<1>1. new \in Session /\ new.options = options
  BY <1>0 DEF Session
<1>2. new # None
  BY <1>1, NoneAssumption
<1>3. mTrackingSessions' = [mTrackingSessions EXCEPT ![i] = new]
  OBVIOUS
<1> HIDE DEF new
<1>4. mTrackingSessions' \in [Id -> Session \cup {None}]
  BY <1>1, <1>3 DEF TypeOK
<1>5. Sessions' = Sessions
  BY <1>0, <1>2, <1>3 DEF TypeOK, Sessions
<1>6. mTrackingSessions'[i] = new /\ \A j \in Id \ {i} : mTrackingSessions'[j] = mTrackingSessions[j]
  BY <1>0, <1>3 DEF TypeOK
<1> QED
  BY <1>1, <1>4, <1>5, <1>6 DEF IntervalOf, OptionsOf, Sessions

(* A session that is erased is gone; the others stay.                      *)
LEMMA Erased ==
  ASSUME TypeOK, NEW i \in Id, mTrackingSessions' = [mTrackingSessions EXCEPT ![i] = None]
  PROVE  /\ mTrackingSessions' \in [Id -> Session \cup {None}]
         /\ Sessions' = Sessions \ {i}
         /\ \A j \in Sessions \ {i} : IntervalOf(j)' = IntervalOf(j)
<1>1. mTrackingSessions' \in [Id -> Session \cup {None}]
  BY DEF TypeOK
<1>2. Sessions' = Sessions \ {i}
  BY DEF TypeOK, Sessions
<1>3. \A j \in Id \ {i} : mTrackingSessions'[j] = mTrackingSessions[j]
  BY DEF TypeOK
<1> QED
  BY <1>1, <1>2, <1>3 DEF IntervalOf, OptionsOf, Sessions

-----------------------------------------------------------------------------
(* What the multiplexing leaves the engine with.                           *)

AtShortest(interval, S) ==
  (\E j \in S : IntervalOf(j) = interval) /\ (\A j \in S : interval <= IntervalOf(j))

(* The engine starts with the smallest of some sessions: that is at their  *)
(* shortest interval.                                                      *)
LEMMA SmallestIsShortest ==
  ASSUME TypeOK, NEW S \in SUBSET Sessions, NEW j \in Smallest(S), StartFix(OptionsOf(j))
  PROVE  engine' \in Options /\ engine' # None /\ AtShortest(engine'.minInterval, S)
<1>1. j \in S /\ \A k \in S : IntervalOf(j) < IntervalOf(k) \/ IntervalOf(j) = IntervalOf(k)
  BY DEF Smallest
<1>2. engine' = OptionsOf(j) /\ engine' \in Options /\ engine'.minInterval = IntervalOf(j)
  BY <1>1, SessionTypes DEF StartFix
<1>3. \A k \in S : IntervalOf(k) \in Nat
  BY SessionTypes
<1> QED
  BY <1>1, <1>2, <1>3, OptionsTypes DEF AtShortest

(* Whatever the engine does about a session that leaves, it is at the      *)
(* shortest interval of the others, or does not run as before.             *)
LEMMA FellBack ==
  ASSUME IInv, NEW i \in Sessions, Sessions # {i}, FallBack(i, Sessions \ {i})
  PROVE  /\ engine' \in Options \cup {None} /\ restartFailed' \in BOOLEAN
         /\ engine' # None => AtShortest(engine'.minInterval, Sessions \ {i})
         /\ engine' = None => engine = None /\ restartFailed' = restartFailed
<1> DEFINE others == Sessions \ {i}
<1>0. TypeOK /\ others \in SUBSET Sessions
  BY DEF IInv
<1>1. CASE Below(IntervalOf(i), others)
  <2>1. PICK j \in Smallest(others) : StartFix(OptionsOf(j))
    BY <1>1 DEF FallBack
  <2> QED
    BY <1>0, <2>1, SmallestIsShortest DEF StartFix
<1>2. CASE ~Below(IntervalOf(i), others)
  <2>1. engine' = engine /\ restartFailed' = restartFailed
    BY <1>2 DEF FallBack, Keep
  <2>2. PICK k \in others : ~(IntervalOf(i) < IntervalOf(k))
    BY <1>2 DEF Below
  <2>3. IntervalOf(i) \in Nat /\ IntervalOf(k) \in Nat
    BY <1>0, SessionTypes
  <2>4. ASSUME engine # None PROVE AtShortest(engine.minInterval, others)
    <3>1. engine.minInterval \in Nat
      BY <1>0, <2>4, OptionsTypes DEF TypeOK
    <3>2. PICK s \in Sessions : IntervalOf(s) = engine.minInterval
      BY <2>4 DEF IInv, Served, EngineAtShortest
    <3>3. \A j \in Sessions : engine.minInterval <= IntervalOf(j)
      BY <2>4 DEF IInv, Served, EngineAtShortest
    <3>4. CASE s = i
      <4>1. IntervalOf(k) = engine.minInterval
        BY <2>2, <2>3, <3>1, <3>2, <3>3, <3>4
      <4> QED
        BY <3>3, <4>1 DEF AtShortest
    <3>5. CASE s # i
      BY <3>2, <3>3, <3>5 DEF AtShortest
    <3> QED
      BY <3>4, <3>5
  <2> QED
    BY <1>0, <2>1, <2>4 DEF TypeOK
<1> QED
  BY <1>1, <1>2

(* A start that succeeds leaves the engine at the shortest interval, the   *)
(* new one included.                                                       *)
LEMMA Started ==
  ASSUME IInv, NEW options \in Options, StartMultiplex(options)
  PROVE  /\ engine' \in Options \cup {None} /\ restartFailed' \in BOOLEAN
         /\ engine' # None => /\ \/ engine'.minInterval = options.minInterval
                                 \/ \E j \in Sessions : IntervalOf(j) = engine'.minInterval
                              /\ engine'.minInterval <= options.minInterval
                              /\ \A j \in Sessions : engine'.minInterval <= IntervalOf(j)
         /\ engine' = None => engine = None /\ restartFailed' = restartFailed /\ Sessions # {}
<1>0. TypeOK
  BY DEF IInv
<1>1. \A j \in Sessions : IntervalOf(j) \in Nat
  BY <1>0, SessionTypes
<1>2. CASE Below(options.minInterval, Sessions)
  <2>1. engine' = options /\ restartFailed' = FALSE
    BY <1>2 DEF StartMultiplex, StartFix
  <2>2. \A j \in Sessions : options.minInterval < IntervalOf(j)
    BY <1>2 DEF Below
  <2>3. options.minInterval \in Nat /\ options # None
    BY OptionsTypes
  <2>4. engine' # None /\ engine'.minInterval = options.minInterval
    BY <2>1, <2>3
  <2>5. /\ engine'.minInterval <= options.minInterval
        /\ \A j \in Sessions : engine'.minInterval <= IntervalOf(j)
    BY <1>1, <2>2, <2>3, <2>4
  <2> QED
    BY <2>1, <2>4, <2>5
<1>3. CASE ~Below(options.minInterval, Sessions)
  <2>1. engine' = engine /\ restartFailed' = restartFailed
    BY <1>3 DEF StartMultiplex, Keep
  <2>2. PICK k \in Sessions : ~(options.minInterval < IntervalOf(k))
    BY <1>3 DEF Below
  <2>3. ASSUME engine # None
        PROVE  /\ \E j \in Sessions : IntervalOf(j) = engine.minInterval
               /\ engine.minInterval <= options.minInterval
               /\ \A j \in Sessions : engine.minInterval <= IntervalOf(j)
    <3>1. engine.minInterval \in Nat /\ options.minInterval \in Nat
      BY <1>0, <2>3, OptionsTypes DEF TypeOK
    <3>2. /\ \E j \in Sessions : IntervalOf(j) = engine.minInterval
          /\ \A j \in Sessions : engine.minInterval <= IntervalOf(j)
      BY <2>3 DEF IInv, Served, EngineAtShortest
    <3>3. engine.minInterval <= IntervalOf(k) /\ IntervalOf(k) <= options.minInterval
      BY <1>1, <2>2, <3>1, <3>2
    <3> QED
      BY <1>1, <3>1, <3>2, <3>3
  <2> QED
    BY <1>0, <2>1, <2>2, <2>3 DEF TypeOK
<1> QED
  BY <1>2, <1>3
-----------------------------------------------------------------------------
(* The messages that the engine is told of.  Each keeps the types, and     *)
(* leaves the engine at the shortest interval and every session served.    *)

Kept ==
  /\ mTrackingSessions' \in [Id -> Session \cup {None}]
  /\ engine' \in Options \cup {None} /\ restartFailed' \in BOOLEAN
  /\ Served'

(* Sessions and engine that stay as they are.                              *)
LEMMA Unchanged ==
  ASSUME IInv, UNCHANGED <<mTrackingSessions, engine, restartFailed>>, restarts' = restarts
  PROVE  Kept /\ Sessions' = Sessions
BY DEF IInv, TypeOK, Kept, Served, EngineAtShortest, SessionsAreServed, Sessions, IntervalOf, OptionsOf

(* startTracking                                                           *)
LEMMA StartKeeps ==
  ASSUME IInv, NEW c \in Client, NEW i \in Id, NEW options \in Options,
         i \notin generated, StartMultiplex(options), restarts' = restarts,
         mTrackingSessions' = [mTrackingSessions EXCEPT ![i] = [client |-> c, options |-> options]]
  PROVE  Kept /\ Sessions' = Sessions \cup {i}
<1>0. TypeOK /\ i \notin Sessions
  BY DEF IInv, SessionsKnown
<1>1. /\ mTrackingSessions' \in [Id -> Session \cup {None}]
      /\ Sessions' = Sessions \cup {i} /\ IntervalOf(i)' = options.minInterval
      /\ \A j \in Sessions : IntervalOf(j)' = IntervalOf(j)
  BY <1>0, Saved
<1>2. /\ engine' \in Options \cup {None} /\ restartFailed' \in BOOLEAN
      /\ engine' # None => /\ \/ engine'.minInterval = options.minInterval
                              \/ \E j \in Sessions : IntervalOf(j) = engine'.minInterval
                           /\ engine'.minInterval <= options.minInterval
                           /\ \A j \in Sessions : engine'.minInterval <= IntervalOf(j)
      /\ engine' = None => engine = None /\ restartFailed' = restartFailed /\ Sessions # {}
  BY Started
<1>3. EngineAtShortest'
  BY <1>1, <1>2 DEF EngineAtShortest
<1>4. SessionsAreServed'
  BY <1>2 DEF IInv, Served, SessionsAreServed
<1> QED
  BY <1>1, <1>2, <1>3, <1>4 DEF Kept, Served

(* A session that leaves the engine to the others, by going or by asking   *)
(* for an interval that is not the shortest.                               *)
LEMMA LeaveKeeps ==
  ASSUME IInv, NEW i \in Sessions, Sessions # {i}, FallBack(i, Sessions \ {i}), restarts' = restarts,
         mTrackingSessions' \in [Id -> Session \cup {None}],
         Sessions' \in SUBSET Sessions, Sessions \ {i} \subseteq Sessions',
         \A j \in Sessions \ {i} : IntervalOf(j)' = IntervalOf(j),
         i \in Sessions' => \E k \in Sessions \ {i} : IntervalOf(k) <= IntervalOf(i)',
         i \in Sessions' => IntervalOf(i)' \in Nat
  PROVE  Kept
<1>0. TypeOK
  BY DEF IInv
<1>1. /\ engine' \in Options \cup {None} /\ restartFailed' \in BOOLEAN
      /\ engine' # None => AtShortest(engine'.minInterval, Sessions \ {i})
      /\ engine' = None => engine = None /\ restartFailed' = restartFailed
  BY FellBack
<1>2. ASSUME engine' # None
      PROVE  /\ \E j \in Sessions' : IntervalOf(j)' = engine'.minInterval
             /\ \A j \in Sessions' : engine'.minInterval <= IntervalOf(j)'
  <2>1. PICK j \in Sessions \ {i} : IntervalOf(j) = engine'.minInterval
    BY <1>1, <1>2 DEF AtShortest
  <2>2. \A k \in Sessions \ {i} : engine'.minInterval <= IntervalOf(k)
    BY <1>1, <1>2 DEF AtShortest
  <2>3. engine'.minInterval \in Nat /\ \A k \in Sessions : IntervalOf(k) \in Nat
    BY <1>0, <1>1, <1>2, SessionTypes, OptionsTypes
  <2>4. ASSUME i \in Sessions' PROVE engine'.minInterval <= IntervalOf(i)'
    <3>1. PICK k \in Sessions \ {i} : IntervalOf(k) <= IntervalOf(i)'
      BY <2>4
    <3>2. engine'.minInterval <= IntervalOf(k) /\ IntervalOf(i)' \in Nat /\ IntervalOf(k) \in Nat
      BY <2>2, <2>3, <2>4
    <3> QED
      BY <2>3, <3>1, <3>2
  <2>5. \A k \in Sessions' \ {i} : k \in Sessions \ {i}
    OBVIOUS
  <2> QED
    BY <2>1, <2>2, <2>4, <2>5
<1>3. EngineAtShortest'
  BY <1>2 DEF EngineAtShortest
<1>4. SessionsAreServed'
  BY <1>1 DEF IInv, Served, SessionsAreServed
<1> QED
  BY <1>1, <1>3, <1>4 DEF Kept, Served

(* updateTracking                                                          *)
LEMMA UpdateKeeps ==
  ASSUME IInv, NEW i \in Sessions, NEW options \in Options, UpdateMultiplex(i, options),
         restarts' = restarts,
         mTrackingSessions' = [mTrackingSessions EXCEPT ![i].options = options]
  PROVE  Kept /\ Sessions' = Sessions
<1>0. TypeOK /\ options.minInterval \in Nat /\ options # None
  BY OptionsTypes DEF IInv
<1>1. /\ mTrackingSessions' \in [Id -> Session \cup {None}]
      /\ Sessions' = Sessions /\ IntervalOf(i)' = options.minInterval
      /\ \A j \in Sessions \ {i} : IntervalOf(j)' = IntervalOf(j)
  BY <1>0, Updated
<1>2. \A j \in Sessions : IntervalOf(j) \in Nat
  BY <1>0, SessionTypes
<1>3. CASE Below(options.minInterval, Sessions \ {i})
  <2>1. engine' = options /\ restartFailed' = FALSE
    BY <1>3 DEF UpdateMultiplex, StartFix
  <2>2. \A j \in Sessions \ {i} : options.minInterval <= IntervalOf(j)'
    BY <1>0, <1>1, <1>2, <1>3 DEF Below
  <2>3. EngineAtShortest'
    BY <1>0, <1>1, <2>1, <2>2 DEF EngineAtShortest
  <2>4. SessionsAreServed'
    BY <1>0, <2>1 DEF SessionsAreServed
  <2> QED
    BY <1>1, <2>1, <2>3, <2>4 DEF Kept, Served
<1>4. CASE ~Below(options.minInterval, Sessions \ {i})
  <2>1. FallBack(i, Sessions \ {i})
    BY <1>4 DEF UpdateMultiplex
  <2>2. PICK k \in Sessions \ {i} : ~(options.minInterval < IntervalOf(k))
    BY <1>4 DEF Below
  <2>3. IntervalOf(k) <= options.minInterval
    BY <1>0, <1>2, <2>2
  <2>4. \E n \in Sessions \ {i} : IntervalOf(n) <= IntervalOf(i)'
    BY <1>1, <2>3
  <2>5. Sessions # {i} /\ IntervalOf(i)' \in Nat
    BY <1>0, <1>1, <2>2
  <2> QED
    BY <1>1, <2>1, <2>4, <2>5, LeaveKeeps
<1> QED
  BY <1>3, <1>4

(* stopTracking                                                            *)
LEMMA StopKeeps ==
  ASSUME IInv, NEW i \in Sessions, StopMultiplex(i), restarts' = restarts,
         mTrackingSessions' = [mTrackingSessions EXCEPT ![i] = None]
  PROVE  Kept /\ Sessions' = Sessions \ {i}
<1>0. TypeOK /\ i \in Id
  BY SessionTypes DEF IInv
<1>1. /\ mTrackingSessions' \in [Id -> Session \cup {None}]
      /\ Sessions' = Sessions \ {i}
      /\ \A j \in Sessions \ {i} : IntervalOf(j)' = IntervalOf(j)
  BY <1>0, Erased
<1>2. CASE Sessions = {i}
  <2>1. engine' = None /\ restartFailed' = FALSE /\ Sessions' = {}
    BY <1>1, <1>2 DEF StopMultiplex, StopFix
  <2> QED
    BY <1>1, <2>1 DEF Kept, Served, EngineAtShortest, SessionsAreServed
<1>3. CASE Sessions # {i}
  <2>1. FallBack(i, Sessions \ {i})
    BY <1>3 DEF StopMultiplex
  <2>2. i \notin Sessions' /\ Sessions' \in SUBSET Sessions /\ Sessions \ {i} \subseteq Sessions'
    BY <1>1
  <2> QED
    BY <1>1, <1>3, <2>1, <2>2, LeaveKeeps
<1> QED
  BY <1>2, <1>3
-----------------------------------------------------------------------------
(* The strengthening holds initially.                                      *)
LEMMA InvInit == Init => IInv
<1> SUFFICES ASSUME Init PROVE IInv
  OBVIOUS
<1>1. TypeOK
  <2>1. removing \in [client : Client \cup {None}, todo : SUBSET Id]
    BY DEF Init, NoRemoval
  <2>2. restarts \in 0..MaxRestarts
    BY MaxRestartsAssumption DEF Init
  <2> QED
    BY <2>1, <2>2 DEF Init, TypeOK
<1>2. Sessions = {}
  BY DEF Init, Sessions
<1>3. SessionsKnown
  BY <1>2 DEF Init, SessionsKnown, NoRemoval
<1>4. Served
  BY <1>2 DEF Init, Served, EngineAtShortest, SessionsAreServed
<1> QED
  BY <1>1, <1>3, <1>4 DEF IInv

(* Every message keeps it, and so does a reset of the engine.              *)
LEMMA InvStep == IInv /\ [Next]_vars => IInv'
<1> SUFFICES ASSUME IInv, [Next]_vars PROVE IInv'
  OBVIOUS
<1>0. TypeOK /\ SessionsKnown /\ Served
  BY DEF IInv
<1>1. ASSUME NEW c \in Client, NEW callbacks \in {"silent", "tracking"}, AddClient(c, callbacks)
      PROVE  IInv'
  <2>1. Kept /\ Sessions' = Sessions
    BY <1>1, Unchanged DEF AddClient
  <2>2. mClientData' \in [Client -> {"absent", "silent", "tracking"}]
    BY <1>0, <1>1 DEF AddClient, TypeOK
  <2> QED
    BY <1>0, <1>1, <2>1, <2>2 DEF AddClient, IInv, TypeOK, SessionsKnown, Kept
<1>2. ASSUME NEW c \in Client, RemoveClient(c) PROVE IInv'
  <2>1. Kept /\ Sessions' = Sessions
    BY <1>2, Unchanged DEF RemoveClient
  <2> DEFINE todo == {i \in Sessions : IsTrackingSession(c, i)}
  <2>2. todo \subseteq Sessions /\ Sessions \subseteq Id
    BY <1>0, SessionTypes
  <2>3. removing' = [client |-> c, todo |-> todo]
    BY <1>2 DEF RemoveClient
  <2> HIDE DEF todo
  <2>4. removing'.todo = todo /\ removing' \in [client : Client \cup {None}, todo : SUBSET Id]
    BY <2>2, <2>3
  <2> QED
    BY <1>0, <1>2, <2>1, <2>2, <2>4 DEF RemoveClient, IInv, TypeOK, SessionsKnown, Kept
<1>3. ASSUME NEW c \in Client, NEW i \in Id, NEW options \in Options, StartTracking(c, i, options)
      PROVE  IInv'
  <2>1. Kept /\ Sessions' \subseteq Sessions \cup {i}
    <3>1. CASE /\ StartMultiplex(options)
               /\ mTrackingSessions' = [mTrackingSessions EXCEPT ![i] = [client |-> c, options |-> options]]
      BY <1>3, <3>1, StartKeeps DEF StartTracking
    <3>2. CASE UNCHANGED <<mTrackingSessions, engine, restartFailed>>
      BY <1>3, <3>2, Unchanged DEF StartTracking
    <3> QED
      BY <1>3, <3>1, <3>2 DEF StartTracking
  <2>2. removing' = NoRemoval
    BY <1>3 DEF StartTracking, Receive
  <2> QED
    BY <1>0, <1>3, <2>1, <2>2 DEF StartTracking, IInv, TypeOK, SessionsKnown, Kept, NoRemoval
<1>4. ASSUME NEW c \in Client, NEW i \in Id, NEW options \in Options, UpdateTracking(c, i, options)
      PROVE  IInv'
  <2>1. i \in Sessions
    BY <1>4 DEF UpdateTracking, IsTrackingSession
  <2>2. Kept /\ Sessions' = Sessions
    BY <1>4, <2>1, UpdateKeeps DEF UpdateTracking
  <2> QED
    BY <1>0, <1>4, <2>2 DEF UpdateTracking, IInv, TypeOK, SessionsKnown, Kept
<1>5. ASSUME NEW c \in Client, NEW i \in Id, StopTracking(c, i) PROVE IInv'
  <2>1. i \in Sessions
    BY <1>5 DEF StopTracking, IsTrackingSession
  <2>2. Kept /\ Sessions' = Sessions \ {i}
    BY <1>5, <2>1, StopKeeps DEF StopTracking
  <2>3. removing' = NoRemoval
    BY <1>5 DEF StopTracking, Receive
  <2> QED
    BY <1>0, <1>5, <2>2, <2>3 DEF StopTracking, IInv, TypeOK, SessionsKnown, Kept, NoRemoval
<1>6. CASE StopClientSession
  <2>1. PICK i \in removing.todo :
          /\ \/ /\ StopMultiplex(i)
                /\ mTrackingSessions' = [mTrackingSessions EXCEPT ![i] = None]
             \/ UNCHANGED <<mTrackingSessions, engine, restartFailed>>
          /\ removing' = [removing EXCEPT !.todo = @ \ {i}]
          /\ UNCHANGED <<mClientData, restarts, generated>>
    BY <1>6 DEF StopClientSession
  <2>2. i \in Sessions
    BY <1>0, <2>1 DEF SessionsKnown
  <2>3. Kept /\ Sessions \ {i} \subseteq Sessions' /\ Sessions' \subseteq Sessions
    <3>1. CASE StopMultiplex(i) /\ mTrackingSessions' = [mTrackingSessions EXCEPT ![i] = None]
      BY <2>1, <2>2, <3>1, StopKeeps
    <3>2. CASE UNCHANGED <<mTrackingSessions, engine, restartFailed>>
      BY <2>1, <3>2, Unchanged
    <3> QED
      BY <2>1, <3>1, <3>2
  <2>4. /\ removing'.todo = removing.todo \ {i}
        /\ removing' \in [client : Client \cup {None}, todo : SUBSET Id]
    BY <1>0, <2>1 DEF TypeOK
  <2> QED
    BY <1>0, <2>1, <2>3, <2>4 DEF IInv, TypeOK, SessionsKnown, Kept
<1>7. CASE EraseClient
  <2>1. Kept /\ Sessions' = Sessions
    BY <1>7, Unchanged DEF EraseClient
  <2>2. mClientData' \in [Client -> {"absent", "silent", "tracking"}]
    BY <1>0, <1>7 DEF EraseClient, TypeOK
  <2> QED
    BY <1>0, <1>7, <2>1, <2>2 DEF EraseClient, IInv, TypeOK, SessionsKnown, Kept, NoRemoval
<1>8. CASE RestartSessions
  <2>1. /\ restarts' = restarts - 1 /\ restarts > 0
        /\ UNCHANGED <<mClientData, mTrackingSessions, removing, generated>>
    BY <1>8 DEF RestartSessions
  <2>2. restarts' \in 0..MaxRestarts
    BY <1>0, <2>1, MaxRestartsAssumption DEF TypeOK
  <2>3. /\ Sessions' = Sessions
        /\ \A j \in Sessions : IntervalOf(j)' = IntervalOf(j)
    BY <2>1 DEF Sessions, IntervalOf, OptionsOf
  <2>4. engine' \in Options \cup {None} /\ restartFailed' \in BOOLEAN /\ Served'
    <3>1. CASE Sessions = {}
      <4>1. engine' = engine /\ restartFailed' = restartFailed
        BY <1>8, <3>1 DEF RestartSessions, Keep
      <4> QED
        BY <1>0, <2>3, <3>1, <4>1 DEF TypeOK, Served, EngineAtShortest, SessionsAreServed
    <3>2. CASE \E i \in Smallest(Sessions) : StartFix(OptionsOf(i))
      <4>1. /\ engine' \in Options /\ engine' # None
            /\ AtShortest(engine'.minInterval, Sessions) /\ restartFailed' = FALSE
        BY <1>0, <3>2, SmallestIsShortest DEF StartFix
      <4> QED
        BY <2>3, <4>1 DEF AtShortest, Served, EngineAtShortest, SessionsAreServed
    <3>3. CASE restartFailed' = TRUE /\ engine' = engine
      BY <1>0, <2>3, <3>3 DEF TypeOK, Served, EngineAtShortest, SessionsAreServed
    <3> QED
      BY <1>8, <3>1, <3>2, <3>3 DEF RestartSessions
  <2> QED
    BY <1>0, <2>1, <2>2, <2>3, <2>4 DEF IInv, TypeOK, SessionsKnown
<1>9. CASE EngineReset
  <2>1. /\ engine' = None /\ restarts' = restarts + 1 /\ restarts < MaxRestarts
        /\ UNCHANGED <<mClientData, mTrackingSessions, removing, generated, restartFailed>>
    BY <1>9 DEF EngineReset
  <2>2. restarts' \in 0..MaxRestarts /\ restarts' > 0
    BY <1>0, <2>1, MaxRestartsAssumption DEF TypeOK
  <2>3. Sessions' = Sessions
    BY <2>1 DEF Sessions
  <2>4. Served'
    BY <2>1, <2>2 DEF Served, EngineAtShortest, SessionsAreServed
  <2> QED
    BY <1>0, <2>1, <2>2, <2>3, <2>4 DEF IInv, TypeOK, SessionsKnown
<1>10. CASE UNCHANGED vars
  <2>1. Kept /\ Sessions' = Sessions
    BY <1>10, Unchanged DEF vars
  <2> QED
    BY <1>0, <1>10, <2>1 DEF vars, IInv, TypeOK, SessionsKnown, Kept
<1> QED
  BY <1>1, <1>2, <1>3, <1>4, <1>5, <1>6, <1>7, <1>8, <1>9, <1>10 DEF Next, ClientMessage

(* The strengthening is an invariant (GnssAdapter.cpp).                    *)
THEOREM Invariant == Spec => []IInv
  BY InvInit, InvStep, PTL DEF Spec

-----------------------------------------------------------------------------
(* The variables keep their types: the engine runs with the options of     *)
(* some client or not at all (GnssAdapter::startTrackingMultiplex).        *)
THEOREM TypeCorrect == Spec => []TypeOK
<1>1. IInv => TypeOK
  BY DEF IInv
<1> QED
  BY <1>1, Invariant, PTL

(* The engine runs at the shortest interval of all sessions, whatever was  *)
(* started, updated, stopped, refused, restarted or removed before         *)
(* (GnssAdapter's multiplexing of its tracking sessions).                  *)
THEOREM ShortestInterval == Spec => []EngineAtShortest
<1>1. IInv => EngineAtShortest
  BY DEF IInv, Served
<1> QED
  BY <1>1, Invariant, PTL

(* Sessions the engine does not run for are about to be restarted, or the  *)
(* engine has refused that (GnssAdapter::restartSessions).                 *)
THEOREM NoSessionForgotten == Spec => []SessionsAreServed
<1>1. IInv => SessionsAreServed
  BY DEF IInv, Served
<1> QED
  BY <1>1, Invariant, PTL

-----------------------------------------------------------------------------
(* The satellites that reports mark.  The ghost that the property reads is *)
(* what the adapter has kept, as long as it says that it has kept it.      *)
ReportsTypeOK ==
  /\ usedInPosition \in [avail : BOOLEAN, ids : [Types -> SUBSET Nat]]
  /\ named \in [Types -> SUBSET Nat]
FixIsNamed == named = IF usedInPosition.avail THEN usedInPosition.ids ELSE NoSvs
ReportsInv == ReportsTypeOK /\ FixIsNamed /\ UsedAreOfTheFix

(* What the modem may report.                                              *)
LEMMA UsedTypes == \A used \in UsedSets : used \in [Types -> SUBSET Nat]
<1> SUFFICES ASSUME NEW used \in UsedSets
             PROVE  used \in [Types -> SUBSET Nat]
  OBVIOUS
<1>1. PICK pairs \in UNION {kSubset(n, SvTypes \X (1 .. MaxSvId)) : n \in 0 .. MaxUsed} :
             used = [type \in Types |-> {pair[2] : pair \in {p \in pairs : p[1] = type}}]
  BY DEF UsedSets
<1>2. PICK n \in 0 .. MaxUsed : pairs \in kSubset(n, SvTypes \X (1 .. MaxSvId))
  BY <1>1
<1>3. pairs \subseteq SvTypes \X (1 .. MaxSvId)
  BY <1>2 DEF kSubset
<1>4. \A p \in pairs : p[2] \in Nat
  BY <1>3
<1> QED
  BY <1>1, <1>4

LEMMA PositionTypes == \A fix \in Positions : fix.used \in [Types -> SUBSET Nat]
<1>1. NoSvs \in [Types -> SUBSET Nat]
  BY DEF NoSvs
<1> QED
  BY <1>1, UsedTypes DEF Positions

(* Below the width, the shift that finds the bit of a satellite is exact. *)
LEMMA MarksAreOfTheMasks ==
  ASSUME NEW masks \in [Types -> SUBSET Nat], NEW sv, sv.id \in Nat, sv.id < Width,
         NEW beyond \in BOOLEAN
  PROVE  SomeMatches(sv, masks, beyond) <=> sv.type \in Types /\ sv.id \in masks[sv.type]
<1> DEFINE mask == IF sv.type \in Types THEN masks[sv.type] ELSE {}
<1>1. ~(sv.id = Width) /\ ~(sv.id > Width)
  BY NmeaAssumption
<1>2. SomeMatches(sv, masks, beyond) = (sv.id \in mask)
  BY <1>1 DEF SomeMatches
<1> QED
  BY <1>2

(* The satellites of a report are numbers of their constellation.         *)
LEMMA ReportedIds ==
  ASSUME NEW svs \in SvReports, NEW i \in DOMAIN svs
  PROVE  /\ svs[i].id \in Nat
         /\ svs[i].used \in BOOLEAN
         /\ svs[i] = [type |-> svs[i].type, id |-> svs[i].id, used |-> svs[i].used]
<1>1. PICK types, marked : svs = Numbered(types, marked) /\ DOMAIN types \subseteq Nat
  <2>1. \A n \in Nat : 1 .. n \subseteq Nat
    OBVIOUS
  <2>2. PICK types \in (UNION {[1 .. n -> SvTypes] : n \in 0 .. MaxSvs})
                   \cup {<<"GPS", "SBAS", "GPS">>} :
               \E marked \in SUBSET MarkedAt : svs = Numbered(types, marked)
    BY DEF SvReports
  <2>3. DOMAIN types \subseteq Nat
    OBVIOUS
  <2> QED
    BY <2>2, <2>3
<1>2. i \in Nat /\ i \in DOMAIN types
  BY <1>1 DEF Numbered
<1>3. Cardinality({j \in 1 .. i : types[j] = types[i]}) \in Nat
  <2>1. IsFiniteSet(1 .. i)
    BY <1>2, FS_Interval
  <2> QED
    BY <2>1, FS_Subset, FS_CardinalityType
<1>4. svs[i] = [type |-> types[i], id |-> Cardinality({j \in 1 .. i : types[j] = types[i]}),
                used |-> i \in marked]
  BY <1>1, <1>2 DEF Numbered
<1>5. (i \in marked) \in BOOLEAN
  OBVIOUS
<1> QED
  BY <1>3, <1>4, <1>5

(* The strengthening is inductive: reportPosition keeps the satellites     *)
(* that it says were used, and reportSv forgets that it has any.           *)
THEOREM MarksHold == ReportsSpec => []ReportsInv
<1>1. ReportsInit => ReportsInv
  BY DEF ReportsInit, ReportsInv, ReportsTypeOK, FixIsNamed, UsedAreOfTheFix, NoSvs, NoNews
<1>2. ReportsInv /\ [ReportsNext]_reportVars => ReportsInv'
  <2> SUFFICES ASSUME ReportsInv, [ReportsNext]_reportVars
               PROVE  ReportsInv'
    OBVIOUS
  <2> USE DEF ReportsInv
  <2>1. CASE Heard
    BY <2>1 DEF Heard, ReportsTypeOK, FixIsNamed, UsedAreOfTheFix, NoNews
  <2>2. ASSUME NEW fix \in Positions, ReportPosition(fix)
        PROVE  ReportsInv'
    <3>1. told'.kind = "position"
      BY <2>2 DEF ReportPosition
    <3>2. CASE NeedReport(fix) /\ fix.hasUsed
      <4>1. usedInPosition' = [avail |-> TRUE, ids |-> fix.used] /\ named' = fix.used
        BY <2>2, <3>2 DEF ReportPosition
      <4>2. ReportsTypeOK' /\ FixIsNamed'
        BY <4>1, PositionTypes DEF ReportsTypeOK, FixIsNamed
      <4> QED
        BY <3>1, <4>2 DEF UsedAreOfTheFix
    <3>3. CASE ~(NeedReport(fix) /\ fix.hasUsed)
      <4>1. UNCHANGED <<usedInPosition, named>>
        BY <2>2, <3>3 DEF ReportPosition
      <4> QED
        BY <3>1, <4>1 DEF ReportsTypeOK, FixIsNamed, UsedAreOfTheFix
    <3> QED
      BY <3>2, <3>3
  <2>3. ASSUME NEW svs \in SvReports, ReportSv(svs)
        PROVE  ReportsInv'
    <3>1. ReportsTypeOK' /\ FixIsNamed'
      BY <2>3 DEF ReportSv, ReportsTypeOK, FixIsNamed, NoSvs
    <3>2. PICK beyond \in BOOLEAN : TellSvs(svs, Marked(svs, beyond))
      BY <2>3 DEF ReportSv
    <3>3. told'.svs = Marked(svs, beyond) /\ told'.named = named /\ told'.reported = svs
      BY <3>2 DEF TellSvs
    <3> DEFINE masks == IF usedInPosition.avail THEN usedInPosition.ids ELSE NoSvs
    <3>4. masks = named /\ masks \in [Types -> SUBSET Nat]
      BY DEF FixIsNamed, ReportsTypeOK
    <3>5. ASSUME NEW i \in DOMAIN svs
          PROVE  LET sv == Marked(svs, beyond)[i]
                     id == OwnId(sv)
                 IN  id < Width =>
                        (sv.used <=> svs[i].used \/ (sv.type \in Types /\ id \in named[sv.type]))
      <4> DEFINE sv == Marked(svs, beyond)[i]
                 id == OwnId(sv)
      <4>1. sv = [svs[i] EXCEPT !.used = @ \/ SomeMatches(svs[i], masks, beyond),
                                !.id = IF svs[i].type = "QZSS" THEN @ + QzssPrns ELSE @]
        BY DEF Marked
      <4>2. /\ sv.type = svs[i].type /\ id = svs[i].id
            /\ sv.used = (svs[i].used \/ SomeMatches(svs[i], masks, beyond))
        BY <4>1, ReportedIds DEF QzssPrns, OwnId
      <4> HIDE DEF sv, id, masks
      <4>3. id < Width => (SomeMatches(svs[i], masks, beyond)
                             <=> svs[i].type \in Types /\ svs[i].id \in masks[svs[i].type])
        BY <3>4, <4>2, MarksAreOfTheMasks, ReportedIds, <3>2
      <4>4. id < Width =>
               (sv.used <=> svs[i].used \/ (sv.type \in Types /\ id \in named[sv.type]))
        BY <3>4, <4>2, <4>3
      <4> QED
        BY <4>4 DEF sv, id
    <3>6. DOMAIN Marked(svs, beyond) = DOMAIN svs
      BY DEF Marked
    <3>7. UsedAreOfTheFix'
      BY <3>3, <3>5, <3>6 DEF UsedAreOfTheFix, OfTheFix
    <3> QED
      BY <3>1, <3>7
  <2>4. CASE SessionsChange
    BY <2>4 DEF SessionsChange, ReportsTypeOK, FixIsNamed, UsedAreOfTheFix, OfTheFix
  <2>5. CASE UNCHANGED reportVars
    BY <2>5 DEF reportVars, ReportsTypeOK, FixIsNamed, UsedAreOfTheFix, OfTheFix
  <2> QED
    BY <2>1, <2>2, <2>3, <2>4, <2>5 DEF ReportsNext
<1> QED
  BY <1>1, <1>2, PTL DEF ReportsSpec

(* Whatever is reported in whatever order, and however the modem marks its *)
(* satellites, reportSv tells as used exactly those that came in marked    *)
(* and those of the position before it, for ids below the width of the     *)
(* masks, and only the former when another report came in between.         *)
THEOREM MarksAreOfTheFix == ReportsSpec => []UsedAreOfTheFix
<1>1. ReportsInv => UsedAreOfTheFix
  BY DEF ReportsInv
<1> QED
  BY <1>1, MarksHold, PTL

-----------------------------------------------------------------------------
(* Numbers.  The library's induction takes a predicate as a parameter,     *)
(* which the provers cannot instantiate; for a set it follows from what is *)
(* known of finite sets, as an injection into a smaller set is impossible. *)
LEMMA SetInduction ==
  ASSUME NEW T, 0 \in T, \A n \in Nat : n \in T => n + 1 \in T
  PROVE  Nat \subseteq T
<1> SUFFICES ASSUME NEW n \in Nat, n \notin T
             PROVE  FALSE
  OBVIOUS
<1> DEFINE below == T \cap (0 .. n)
           next == [k \in below |-> k + 1]
<1>1. IsFiniteSet(below)
  <2>1. IsFiniteSet(0 .. n)
    BY FS_Interval
  <2> QED
    BY <2>1, FS_Subset
<1>2. 0 \in below
  OBVIOUS
<1>3. \A k \in below : k + 1 \in below \ {0}
  <2> SUFFICES ASSUME NEW k \in below
               PROVE  k + 1 \in below \ {0}
    OBVIOUS
  <2>1. k \in Nat /\ k <= n /\ k # n /\ k \in T
    OBVIOUS
  <2>2. k + 1 \in T
    BY <2>1
  <2> QED
    BY <2>1, <2>2
<1>4. next \in Injection(below, below \ {0})
  BY <1>3 DEF Injection, IsInjective
<1>5. IsFiniteSet(below \ {0}) /\ Cardinality(below \ {0}) = Cardinality(below) - 1
  BY <1>1, <1>2, FS_RemoveElement
<1>6. Cardinality(below) <= Cardinality(below \ {0})
  BY <1>1, <1>4, <1>5, FS_Injection DEF ExistsInjection
<1> QED
  BY <1>1, <1>5, <1>6, FS_CardinalityType

(* A set of numbers has a least one.                                       *)
LEMMA LeastNumber ==
  ASSUME NEW T \in SUBSET Nat, T # {}
  PROVE  \E x \in T : \A y \in T : x <= y
<1> SUFFICES ASSUME \A x \in T : \E y \in T : y < x
             PROVE  FALSE
  OBVIOUS
<1> DEFINE U == {n \in Nat : \A y \in T : n <= y}
<1>1. 0 \in U
  OBVIOUS
<1>2. \A n \in Nat : n \in U => n + 1 \in U
  OBVIOUS
<1> HIDE DEF U
<1>3. Nat \subseteq U
  BY <1>1, <1>2, SetInduction
<1>4. PICK x \in T : TRUE
  OBVIOUS
<1>5. x + 1 \in U
  BY <1>3, <1>4
<1> QED
  BY <1>4, <1>5 DEF U

(* A finite set of numbers has a first, a second, and so on.               *)
LEMMA NthOfNumbers ==
  ASSUME NEW n \in Nat, NEW S \in SUBSET (1 .. n), NEW j \in 1 .. Cardinality(S)
  PROVE  \E k \in S : Cardinality(S \cap 1 .. k) = j
<1>1. IsFiniteSet(S) /\ \A k \in Nat : IsFiniteSet(S \cap 1 .. k)
  <2>1. IsFiniteSet(1 .. n)
    BY FS_Interval
  <2>2. IsFiniteSet(S)
    BY <2>1, FS_Subset
  <2> QED
    BY <2>2, FS_Subset
<1>2. \A k \in Nat : Cardinality(S \cap 1 .. k) \in Nat
  BY <1>1, FS_CardinalityType
<1> DEFINE Enough == {k \in Nat : j <= Cardinality(S \cap 1 .. k)}
<1>3. n \in Enough
  <2>1. S \cap 1 .. n = S
    OBVIOUS
  <2> QED
    BY <2>1
<1>4. PICK k \in Enough : \A other \in Enough : k <= other
  BY <1>3, LeastNumber
<1>5. k # 0
  <2>1. S \cap 1 .. 0 = {}
    OBVIOUS
  <2>2. Cardinality({}) = 0
    BY FS_EmptySet
  <2> QED
    BY <1>4, <2>1, <2>2
<1>6. k - 1 \in Nat /\ k - 1 \notin Enough
  BY <1>4, <1>5
<1>7. Cardinality(S \cap 1 .. k - 1) < j /\ j <= Cardinality(S \cap 1 .. k)
  BY <1>2, <1>4, <1>6
<1>8. k \in S
  <2> SUFFICES ASSUME k \notin S
               PROVE  FALSE
    OBVIOUS
  <2>1. S \cap 1 .. k = S \cap 1 .. k - 1
    BY <1>6
  <2> QED
    BY <1>2, <1>6, <1>7, <2>1
<1>9. Cardinality(S \cap 1 .. k) = Cardinality(S \cap 1 .. k - 1) + 1
  <2>1. S \cap 1 .. k = (S \cap 1 .. k - 1) \cup {k}
    BY <1>6, <1>8
  <2>2. k \notin S \cap 1 .. k - 1
    BY <1>6
  <2> QED
    BY <1>1, <1>6, <2>1, <2>2, FS_AddElement
<1>10. Cardinality(S \cap 1 .. k) = j
  <2>1. Cardinality(S \cap 1 .. k - 1) \in Nat
    BY <1>2, <1>6
  <2> QED
    BY <1>7, <1>9, <2>1
<1> QED
  BY <1>8, <1>10

-----------------------------------------------------------------------------
(* Geofences.  A call under way.                                           *)
Ops == {"add", "remove", "modify", "pause", "resume"}
FenceCall == [op : Ops, ids : Seq(FenceId), sessions : Seq(Nat), masks : Seq(Masks)]

Excuses ==
  [refused : SUBSET Nat, shifted : SUBSET Nat, resumed : SUBSET Nat,
   misnamed : BOOLEAN, mixed : BOOLEAN]

(* It names sessions that were given, one for each id.                     *)
CallInOrder(call, counter) ==
  /\ DOMAIN call.ids = DOMAIN call.sessions
  /\ Elements(call.sessions) \subseteq 1 .. counter

FenceTypeOK ==
  /\ fenceCounter \in Nat
  /\ fenceMail \in Seq(FenceCall) /\ fencePending = fenceMail
  /\ \A k \in DOMAIN fenceMail : CallInOrder(fenceMail[k], fenceCounter)
  /\ DOMAIN mGeofenceBiDict.forward \subseteq FenceId
  /\ DOMAIN mGeofenceBiDict.backward \subseteq 1 .. fenceCounter
  /\ DOMAIN mGeofenceBiDict.ext = DOMAIN mGeofenceBiDict.backward
  /\ DOMAIN fences \subseteq 1 .. fenceCounter
  /\ \A s \in DOMAIN fences : fences[s] = [mask |-> fences[s].mask, paused |-> fences[s].paused]
  /\ fenceSeen \in Excuses

(* The session of an id is that of no other.                               *)
DictAgrees ==
  \A id \in DOMAIN mGeofenceBiDict.forward :
    /\ mGeofenceBiDict.forward[id] \in DOMAIN mGeofenceBiDict.backward
    /\ mGeofenceBiDict.backward[mGeofenceBiDict.forward[id]] = id

(* As long as the dictionary knows a session that a call is about, it has  *)
(* the id that the owner called it by.                                     *)
CallsNameFences ==
  \A k \in DOMAIN fenceMail : \A i \in DOMAIN fenceMail[k].sessions :
    LET s == fenceMail[k].sessions[i]
    IN  fenceMail[k].op # "remove" /\ s \in DOMAIN mGeofenceBiDict.backward
          => mGeofenceBiDict.backward[s] = fenceMail[k].ids[i]

(* A geofence that is about to be added is known, or a removal follows.    *)
Removes(call, s) == call.op = "remove" /\ s \in Elements(call.sessions)
AddedAreOwned ==
  \A k \in DOMAIN fenceMail : \A s \in Elements(fenceMail[k].sessions) :
    fenceMail[k].op = "add" =>
      \/ s \in DOMAIN mGeofenceBiDict.backward
      \/ \E j \in DOMAIN fenceMail : k < j /\ Removes(fenceMail[j], s)

(* What the library expects of a session is the mask of the last call that *)
(* is about to set it, or, with no such call, what the interface has.      *)
MaskSets(call, s) == call.op \in {"add", "modify"} /\ s \in Elements(call.sessions)
MaskOf(call, s) == call.masks[At(call.sessions, s)]
MasksAgree ==
  \A s \in DOMAIN mGeofenceBiDict.ext \ (fenceSeen.resumed \cup fenceSeen.shifted) :
    /\ \A k \in DOMAIN fenceMail :
         /\ MaskSets(fenceMail[k], s)
         /\ \A j \in DOMAIN fenceMail : k < j => ~MaskSets(fenceMail[j], s)
         => MaskOf(fenceMail[k], s) = mGeofenceBiDict.ext[s]
    /\ (\A k \in DOMAIN fenceMail : ~MaskSets(fenceMail[k], s)) /\ s \in DOMAIN fences
         => fences[s].mask = mGeofenceBiDict.ext[s] \/ s \in fenceSeen.refused

(* The inductive invariant.                                                *)
FenceInv ==
  /\ FenceTypeOK /\ DictAgrees
  /\ CallsNameFences /\ AnswersNameTheirFences
  /\ AddedAreOwned /\ FencesAreOwned
  /\ MasksAgree

-----------------------------------------------------------------------------
(* The operators on the dictionary.                                        *)
LEMMA AtFinds ==
  ASSUME NEW s, NEW e \in Elements(s)
  PROVE  At(s, e) \in DOMAIN s /\ s[At(s, e)] = e
  BY DEF Elements, At

(* What setting several ids at once does.                                  *)
LEMMA SetEachSets ==
  ASSUME NEW d, NEW ids, NEW sessions, NEW masks
  PROVE  LET after == SetEach(d, ids, sessions, masks)
         IN  /\ DOMAIN after.forward = Elements(ids) \cup DOMAIN d.forward
             /\ DOMAIN after.backward = Elements(sessions) \cup DOMAIN d.backward
             /\ DOMAIN after.ext = Elements(sessions) \cup DOMAIN d.ext
             /\ \A id \in DOMAIN after.forward :
                  after.forward[id] = IF id \in Elements(ids) THEN sessions[At(ids, id)]
                                      ELSE d.forward[id]
             /\ \A s \in DOMAIN after.backward :
                  after.backward[s] = IF s \in Elements(sessions) THEN ids[At(sessions, s)]
                                      ELSE d.backward[s]
             /\ \A s \in DOMAIN after.ext :
                  after.ext[s] = IF s \in Elements(sessions) THEN masks[At(sessions, s)]
                                 ELSE d.ext[s]
  BY DEF SetEach, Over

(* The ids that are known are ids of the list, and no more of them.        *)
LEMMA KnownIds ==
  ASSUME FenceTypeOK, NEW ids \in Seq(FenceId)
  PROVE  /\ Known(ids) \in Seq(FenceId) /\ Len(Known(ids)) <= Len(ids)
         /\ \A j \in DOMAIN Known(ids) :
              /\ Known(ids)[j] \in DOMAIN mGeofenceBiDict.forward
              /\ Known(ids)[j] \in Elements(ids)
         /\ DOMAIN SessionsOf(ids) = DOMAIN Known(ids)
         /\ \A j \in DOMAIN Known(ids) :
              SessionsOf(ids)[j] = mGeofenceBiDict.forward[Known(ids)[j]]
<1> DEFINE places == KnownAt(ids)
           Nth(j) == CHOOSE k \in places : Cardinality(places \cap 1 .. k) = j
<1>1. Len(ids) \in Nat /\ DOMAIN ids = 1 .. Len(ids) /\ \A k \in DOMAIN ids : ids[k] \in FenceId
  BY LenProperties, ElementOfSeq
<1>2. places \in SUBSET (1 .. Len(ids))
  BY <1>1 DEF KnownAt
<1>3. /\ IsFiniteSet(1 .. Len(ids)) /\ Cardinality(1 .. Len(ids)) = Len(ids)
  BY <1>1, FS_Interval
<1>4. Cardinality(places) \in Nat /\ Cardinality(places) <= Len(ids)
  BY <1>2, <1>3, FS_Subset, FS_CardinalityType
<1> HIDE DEF places
<1>5. \A j \in 1 .. Cardinality(places) : Nth(j) \in places
  BY <1>1, <1>2, NthOfNumbers
<1>6. Known(ids) = [j \in 1 .. Cardinality(places) |-> ids[Nth(j)]]
  BY DEF Known, places
<1> HIDE DEF Nth
<1>7. \A j \in 1 .. Cardinality(places) :
        /\ ids[Nth(j)] \in FenceId /\ ids[Nth(j)] \in Elements(ids)
        /\ GetSession(mGeofenceBiDict, ids[Nth(j)]) > 0
  <2>1. \A k \in places : k \in DOMAIN ids /\ GetSession(mGeofenceBiDict, ids[k]) > 0
    BY DEF places, KnownAt
  <2> QED
    BY <1>1, <1>5, <2>1 DEF Elements
<1>8. \A id : GetSession(mGeofenceBiDict, id) > 0 =>
        /\ id \in DOMAIN mGeofenceBiDict.forward
        /\ GetSession(mGeofenceBiDict, id) = mGeofenceBiDict.forward[id]
  BY DEF GetSession, HasId
<1>9. /\ DOMAIN Known(ids) = 1 .. Cardinality(places)
      /\ Known(ids) \in [1 .. Cardinality(places) -> FenceId]
  BY <1>6, <1>7
<1>10. Known(ids) \in Seq(FenceId) /\ Len(Known(ids)) = Cardinality(places)
  BY <1>4, <1>9
<1>11. \A j \in DOMAIN Known(ids) :
         /\ Known(ids)[j] \in DOMAIN mGeofenceBiDict.forward
         /\ Known(ids)[j] \in Elements(ids)
         /\ GetSession(mGeofenceBiDict, Known(ids)[j]) = mGeofenceBiDict.forward[Known(ids)[j]]
  BY <1>6, <1>7, <1>8
<1> QED
  BY <1>4, <1>10, <1>11 DEF SessionsOf

(* Their sessions lead back to them.                                       *)
LEMMA KnownSessions ==
  ASSUME FenceTypeOK, DictAgrees, NEW ids \in Seq(FenceId)
  PROVE  /\ SessionsOf(ids) \in Seq(Nat)
         /\ Elements(SessionsOf(ids)) \subseteq DOMAIN mGeofenceBiDict.backward
         /\ Elements(SessionsOf(ids)) \subseteq 1 .. fenceCounter
         /\ \A j \in DOMAIN SessionsOf(ids) :
              mGeofenceBiDict.backward[SessionsOf(ids)[j]] = Known(ids)[j]
<1>1. DOMAIN SessionsOf(ids) = 1 .. Len(Known(ids)) /\ Len(Known(ids)) \in Nat
      /\ SessionsOf(ids) = [j \in DOMAIN SessionsOf(ids) |-> SessionsOf(ids)[j]]
  BY KnownIds, LenProperties DEF SessionsOf
<1>2. \A j \in DOMAIN SessionsOf(ids) :
        /\ SessionsOf(ids)[j] \in DOMAIN mGeofenceBiDict.backward
        /\ mGeofenceBiDict.backward[SessionsOf(ids)[j]] = Known(ids)[j]
  BY KnownIds DEF DictAgrees
<1>3. DOMAIN mGeofenceBiDict.backward \subseteq 1 .. fenceCounter
  BY DEF FenceTypeOK
<1>4. \A j \in DOMAIN SessionsOf(ids) : SessionsOf(ids)[j] \in Nat
  BY <1>2, <1>3
<1> QED
  BY <1>1, <1>2, <1>3, <1>4 DEF Elements

(* To set known ids to their sessions changes masks only.                  *)
LEMMA SetKnown ==
  ASSUME FenceTypeOK, DictAgrees, NEW ids \in Seq(FenceId), NEW masks
  PROVE  LET d == mGeofenceBiDict
             after == SetEach(d, Known(ids), SessionsOf(ids), masks)
         IN  /\ DOMAIN after.forward = DOMAIN d.forward
             /\ DOMAIN after.backward = DOMAIN d.backward
             /\ DOMAIN after.ext = DOMAIN d.ext
             /\ \A id \in DOMAIN d.forward : after.forward[id] = d.forward[id]
             /\ \A s \in DOMAIN d.backward : after.backward[s] = d.backward[s]
             /\ \A s \in DOMAIN d.ext :
                  after.ext[s] = IF s \in Elements(SessionsOf(ids)) THEN masks[At(SessionsOf(ids), s)]
                                 ELSE d.ext[s]
<1> DEFINE d == mGeofenceBiDict
           after == SetEach(d, Known(ids), SessionsOf(ids), masks)
<1>1. /\ Elements(Known(ids)) \subseteq DOMAIN d.forward
      /\ Elements(SessionsOf(ids)) \subseteq DOMAIN d.backward
      /\ DOMAIN d.ext = DOMAIN d.backward
  BY KnownIds, KnownSessions DEF Elements, FenceTypeOK
<1>2. /\ DOMAIN after.forward = DOMAIN d.forward
      /\ DOMAIN after.backward = DOMAIN d.backward
      /\ DOMAIN after.ext = DOMAIN d.ext
  <2>1. /\ DOMAIN after.forward = Elements(Known(ids)) \cup DOMAIN d.forward
        /\ DOMAIN after.backward = Elements(SessionsOf(ids)) \cup DOMAIN d.backward
        /\ DOMAIN after.ext = Elements(SessionsOf(ids)) \cup DOMAIN d.ext
    BY SetEachSets
  <2> HIDE DEF d, after
  <2> QED
    BY <1>1, <2>1
<1>3. ASSUME NEW id \in DOMAIN d.forward
      PROVE  after.forward[id] = d.forward[id]
  <2>1. CASE id \in Elements(Known(ids))
    <3>1. after.forward[id] = SessionsOf(ids)[At(Known(ids), id)]
      BY <1>2, <2>1, SetEachSets
    <3>2. At(Known(ids), id) \in DOMAIN Known(ids) /\ Known(ids)[At(Known(ids), id)] = id
      BY <2>1, AtFinds
    <3> QED
      BY <3>1, <3>2, KnownIds
  <2>2. CASE id \notin Elements(Known(ids))
    BY <1>2, <2>2, SetEachSets
  <2> QED
    BY <2>1, <2>2
<1>4. ASSUME NEW s \in DOMAIN d.backward
      PROVE  after.backward[s] = d.backward[s]
  <2>1. CASE s \in Elements(SessionsOf(ids))
    <3>1. after.backward[s] = Known(ids)[At(SessionsOf(ids), s)]
      BY <1>2, <2>1, SetEachSets
    <3>2. /\ At(SessionsOf(ids), s) \in DOMAIN SessionsOf(ids)
          /\ SessionsOf(ids)[At(SessionsOf(ids), s)] = s
      BY <2>1, AtFinds
    <3> QED
      BY <3>1, <3>2, KnownSessions
  <2>2. CASE s \notin Elements(SessionsOf(ids))
    BY <1>2, <2>2, SetEachSets
  <2> QED
    BY <2>1, <2>2
<1>5. \A s \in DOMAIN d.ext :
        after.ext[s] = IF s \in Elements(SessionsOf(ids)) THEN masks[At(SessionsOf(ids), s)]
                       ELSE d.ext[s]
  BY <1>2, SetEachSets
<1> QED
  BY <1>2, <1>3, <1>4, <1>5

-----------------------------------------------------------------------------
(* A call and what it does to the dictionary go together: what is forgotten*)
(* is being removed, what is added or changed is in the call.              *)
Enters(call) ==
  LET d == mGeofenceBiDict
      after == mGeofenceBiDict'
  IN  /\ \A s \in DOMAIN after.backward :
           \/ s \in DOMAIN d.backward /\ after.backward[s] = d.backward[s]
           \/ fenceCounter < s
      /\ \A s \in DOMAIN d.backward \ DOMAIN after.backward : Removes(call, s)
      /\ \A i \in DOMAIN call.sessions :
           call.op # "remove" /\ call.sessions[i] \in DOMAIN after.backward
             => after.backward[call.sessions[i]] = call.ids[i]
      /\ call.op = "add" => Elements(call.sessions) \subseteq DOMAIN after.backward
      /\ \A s \in DOMAIN after.ext \ (fenceSeen'.resumed \cup fenceSeen'.shifted) :
           IF MaskSets(call, s) THEN MaskOf(call, s) = after.ext[s]
           ELSE s \in DOMAIN d.ext /\ after.ext[s] = d.ext[s]

(* The dictionary's types.                                                 *)
DictTypes(d, counter) ==
  /\ DOMAIN d.forward \subseteq FenceId
  /\ DOMAIN d.backward \subseteq 1 .. counter
  /\ DOMAIN d.ext = DOMAIN d.backward

(* A call only adds excuses.                                               *)
ExcusesGrow ==
  /\ fenceSeen' \in Excuses
  /\ fenceSeen'.refused = fenceSeen.refused
  /\ fenceSeen'.misnamed = fenceSeen.misnamed /\ fenceSeen'.mixed = fenceSeen.mixed
  /\ fenceSeen.shifted \subseteq fenceSeen'.shifted
  /\ fenceSeen.resumed \subseteq fenceSeen'.resumed

(* Such a call, put at the end of the queue, keeps the invariant.          *)
LEMMA CallKeeps ==
  ASSUME FenceInv, NEW call \in FenceCall, CallInOrder(call, fenceCounter'), Enters(call),
         fenceMail' = Append(fenceMail, call), fencePending' = Append(fencePending, call),
         UNCHANGED fences,
         fenceCounter' \in Nat, fenceCounter <= fenceCounter',
         DictTypes(mGeofenceBiDict', fenceCounter'), DictAgrees',
         ExcusesGrow
  PROVE  FenceInv'
<1> DEFINE d == mGeofenceBiDict
           n == Len(fenceMail)
<1>1. FenceTypeOK /\ DictAgrees /\ CallsNameFences /\ AnswersNameTheirFences
      /\ AddedAreOwned /\ FencesAreOwned /\ MasksAgree
  BY DEF FenceInv
<1>2. /\ fenceMail \in Seq(FenceCall) /\ n \in Nat
      /\ fenceMail' \in Seq(FenceCall)
      /\ DOMAIN fenceMail = 1 .. n /\ DOMAIN fenceMail' = 1 .. n + 1
      /\ \A k \in 1 .. n : fenceMail'[k] = fenceMail[k]
      /\ fenceMail'[n + 1] = call
  BY <1>1, LenProperties, AppendProperties DEF FenceTypeOK
<1>3. /\ fenceSeen'.refused = fenceSeen.refused
      /\ fenceSeen'.misnamed = fenceSeen.misnamed /\ fenceSeen'.mixed = fenceSeen.mixed
      /\ fenceSeen.shifted \subseteq fenceSeen'.shifted
      /\ fenceSeen.resumed \subseteq fenceSeen'.resumed
      /\ fenceSeen' \in Excuses
  BY DEF ExcusesGrow
<1>4. fenceCounter \in Nat /\ \A i \in 1 .. fenceCounter : i \in 1 .. fenceCounter'
  BY <1>1 DEF FenceTypeOK
<1>5. \A k \in 1 .. n : CallInOrder(fenceMail[k], fenceCounter)
  BY <1>1, <1>2 DEF FenceTypeOK
<1>6. FenceTypeOK'
  <2>1. ASSUME NEW k \in 1 .. n + 1
        PROVE  /\ DOMAIN fenceMail'[k].ids = DOMAIN fenceMail'[k].sessions
               /\ Elements(fenceMail'[k].sessions) \subseteq 1 .. fenceCounter'
    <3>1. CASE k = n + 1
      BY <1>2, <3>1 DEF CallInOrder
    <3>2. CASE k # n + 1
      <4>1. k \in 1 .. n
        BY <1>2, <3>2
      <4> QED
        BY <1>2, <1>4, <1>5, <4>1 DEF CallInOrder
    <3> QED
      BY <3>1, <3>2
  <2>2. \A k \in DOMAIN fenceMail' : CallInOrder(fenceMail'[k], fenceCounter')
    BY <1>2, <2>1 DEF CallInOrder
  <2>3. fencePending' = fenceMail'
    BY <1>1 DEF FenceTypeOK
  <2>4. DOMAIN fences' \subseteq 1 .. fenceCounter'
        /\ \A s \in DOMAIN fences' :
             fences'[s] = [mask |-> fences'[s].mask, paused |-> fences'[s].paused]
    BY <1>1, <1>4 DEF FenceTypeOK
  <2> QED
    BY <1>2, <1>3, <2>2, <2>3, <2>4 DEF FenceTypeOK, DictTypes
<1>7. ASSUME NEW k \in 1 .. n, NEW i \in DOMAIN fenceMail[k].sessions
      PROVE  /\ fenceMail[k].sessions[i] \in Nat
             /\ fenceMail[k].sessions[i] <= fenceCounter
  <2>1. fenceMail[k].sessions[i] \in Elements(fenceMail[k].sessions)
    BY DEF Elements
  <2>2. fenceMail[k].sessions[i] \in 1 .. fenceCounter
    BY <1>5, <2>1 DEF CallInOrder
  <2> QED
    BY <1>4, <2>2
<1>8. CallsNameFences'
  <2> SUFFICES ASSUME NEW k \in 1 .. n + 1, NEW i \in DOMAIN fenceMail'[k].sessions,
                      fenceMail'[k].op # "remove",
                      fenceMail'[k].sessions[i] \in DOMAIN d'.backward
               PROVE  d'.backward[fenceMail'[k].sessions[i]] = fenceMail'[k].ids[i]
    BY <1>2, ZenonT(60) DEF CallsNameFences
  <2>1. CASE k = n + 1
    BY <1>2, <2>1 DEF Enters
  <2>2. CASE k # n + 1
    <3>1. k \in 1 .. n
      BY <1>2, <2>2
    <3>2. fenceMail'[k] = fenceMail[k]
      BY <1>2, <3>1
    <3>3. ~(fenceCounter < fenceMail[k].sessions[i])
      BY <1>4, <1>7, <3>1, <3>2
    <3>4. /\ fenceMail[k].sessions[i] \in DOMAIN d.backward
          /\ d'.backward[fenceMail[k].sessions[i]] = d.backward[fenceMail[k].sessions[i]]
      BY <3>2, <3>3 DEF Enters
    <3> QED
      BY <1>1, <1>2, <3>1, <3>2, <3>4 DEF CallsNameFences
  <2> QED
    BY <2>1, <2>2
<1>9. AnswersNameTheirFences'
  BY <1>1, <1>3 DEF AnswersNameTheirFences
<1>10. AddedAreOwned'
  <2> SUFFICES ASSUME NEW k \in 1 .. n + 1, NEW s \in Elements(fenceMail'[k].sessions),
                      fenceMail'[k].op = "add", s \notin DOMAIN d'.backward
               PROVE  \E j \in 1 .. n + 1 : k < j /\ Removes(fenceMail'[j], s)
    BY <1>2 DEF AddedAreOwned, Removes
  <2>1. k # n + 1
    BY <1>2 DEF Enters
  <2>2. k \in 1 .. n
    BY <1>2, <2>1
  <2>3. fenceMail'[k] = fenceMail[k]
    BY <1>2, <2>2
  <2>4. CASE s \in DOMAIN d.backward
    <3>1. Removes(fenceMail'[n + 1], s)
      BY <1>2, <2>4 DEF Enters
    <3> QED
      BY <1>2, <2>2, <3>1
  <2>5. CASE s \notin DOMAIN d.backward
    <3>1. PICK j \in 1 .. n : k < j /\ Removes(fenceMail[j], s)
      BY <1>1, <1>2, <2>2, <2>3, <2>5 DEF AddedAreOwned
    <3>2. j \in 1 .. n + 1 /\ fenceMail'[j] = fenceMail[j]
      BY <1>2
    <3> QED
      BY <3>1, <3>2
  <2> QED
    BY <2>4, <2>5
<1>11. FencesAreOwned'
  <2> SUFFICES ASSUME NEW s \in DOMAIN fences, s \notin DOMAIN d'.backward,
                      s \notin fenceSeen.refused
               PROVE  \E j \in 1 .. n + 1 : Removes(fenceMail'[j], s)
    BY <1>2, <1>3 DEF FencesAreOwned, HasSession, Removes
  <2>1. CASE s \in DOMAIN d.backward
    <3>1. Removes(fenceMail'[n + 1], s)
      BY <1>2, <2>1 DEF Enters
    <3> QED
      BY <1>2, <3>1
  <2>2. CASE s \notin DOMAIN d.backward
    <3>1. PICK j \in 1 .. n : Removes(fenceMail[j], s)
      BY <1>1, <1>2, <2>2 DEF FencesAreOwned, HasSession, Removes
    <3>2. j \in 1 .. n + 1 /\ fenceMail'[j] = fenceMail[j]
      BY <1>2
    <3> QED
      BY <3>1, <3>2
  <2> QED
    BY <2>1, <2>2
<1>12. MasksAgree'
  <2> SUFFICES ASSUME NEW s \in DOMAIN d'.ext \ (fenceSeen'.resumed \cup fenceSeen'.shifted)
               PROVE  /\ \A k \in 1 .. n + 1 :
                           /\ MaskSets(fenceMail'[k], s)
                           /\ \A j \in 1 .. n + 1 : k < j => ~MaskSets(fenceMail'[j], s)
                           => MaskOf(fenceMail'[k], s) = d'.ext[s]
                      /\ (\A k \in 1 .. n + 1 : ~MaskSets(fenceMail'[k], s)) /\ s \in DOMAIN fences
                           => fences[s].mask = d'.ext[s] \/ s \in fenceSeen.refused
    BY <1>2, <1>3, ZenonT(60) DEF MasksAgree, MaskSets, MaskOf
  <2>1. CASE MaskSets(call, s)
    <3>1. MaskOf(call, s) = d'.ext[s] /\ MaskSets(fenceMail'[n + 1], s) /\ n + 1 \in 1 .. n + 1
      BY <1>2, <2>1 DEF Enters
    <3>2. \A k \in 1 .. n + 1 : k < n + 1 \/ k = n + 1
      BY <1>2
    <3> QED
      BY <1>2, <3>1, <3>2
  <2>2. CASE ~MaskSets(call, s)
    <3>1. /\ s \in DOMAIN d.ext \ (fenceSeen.resumed \cup fenceSeen.shifted)
          /\ d'.ext[s] = d.ext[s]
      BY <1>3, <2>2 DEF Enters
    <3>2. \A k \in 1 .. n + 1 : MaskSets(fenceMail'[k], s)
                                  => k \in 1 .. n /\ fenceMail'[k] = fenceMail[k]
      BY <1>2, <2>2
    <3>3. \A k \in 1 .. n : k \in 1 .. n + 1 /\ fenceMail'[k] = fenceMail[k]
      BY <1>2
    <3>4. /\ \A k \in 1 .. n :
               /\ MaskSets(fenceMail[k], s)
               /\ \A j \in 1 .. n : k < j => ~MaskSets(fenceMail[j], s)
               => MaskOf(fenceMail[k], s) = d.ext[s]
          /\ (\A k \in 1 .. n : ~MaskSets(fenceMail[k], s)) /\ s \in DOMAIN fences
               => fences[s].mask = d.ext[s] \/ s \in fenceSeen.refused
      BY <1>1, <1>2, <3>1 DEF MasksAgree
    <3>5. ASSUME NEW k \in 1 .. n + 1, MaskSets(fenceMail'[k], s),
                 \A j \in 1 .. n + 1 : k < j => ~MaskSets(fenceMail'[j], s)
          PROVE  MaskOf(fenceMail'[k], s) = d'.ext[s]
      <4>1. k \in 1 .. n /\ fenceMail'[k] = fenceMail[k]
        BY <3>2, <3>5
      <4>2. \A j \in 1 .. n : k < j => ~MaskSets(fenceMail[j], s)
        BY <3>3, <3>5
      <4> QED
        BY <3>1, <3>4, <3>5, <4>1, <4>2
    <3>6. (\A k \in 1 .. n + 1 : ~MaskSets(fenceMail'[k], s)) =>
             \A k \in 1 .. n : ~MaskSets(fenceMail[k], s)
      BY <3>3
    <3> QED
      BY <3>1, <3>4, <3>5, <3>6
  <2> QED
    BY <2>1, <2>2
<1> QED
  BY <1>6, <1>8, <1>9, <1>10, <1>11, <1>12 DEF FenceInv

(* The same where no excuse is added.                                      *)
LEMMA PlainCallKeeps ==
  ASSUME FenceInv, NEW call \in FenceCall, CallInOrder(call, fenceCounter'), Enters(call),
         fenceMail' = Append(fenceMail, call), fencePending' = Append(fencePending, call),
         UNCHANGED fences, UNCHANGED fenceSeen,
         fenceCounter' \in Nat, fenceCounter <= fenceCounter',
         DictTypes(mGeofenceBiDict', fenceCounter'), DictAgrees'
  PROVE  FenceInv'
<1>1. ExcusesGrow
  BY DEF FenceInv, FenceTypeOK, ExcusesGrow
<1> QED
  BY <1>1, CallKeeps

-----------------------------------------------------------------------------
(* The owner's calls are of that kind.                                     *)
LEMMA CallSent ==
  ASSUME NEW op, NEW ids, NEW sessions, NEW masks, CallFences(op, ids, sessions, masks)
  PROVE  LET call == [op |-> op, ids |-> ids, sessions |-> sessions, masks |-> masks]
         IN  fenceMail' = Append(fenceMail, call) /\ fencePending' = Append(fencePending, call)
  BY DEF CallFences

(* The masks that go with a list of ids.                                   *)
LEMMA SeqOfMasks ==
  ASSUME NEW ids \in Seq(FenceId), NEW masks \in MasksOf(ids)
  PROVE  masks \in Seq(Masks) /\ Len(masks) = Len(ids)
<1>1. Len(ids) \in Nat /\ DOMAIN ids = 1 .. Len(ids)
  BY LenProperties
<1> QED
  BY <1>1 DEF MasksOf

(* New sessions are above all others, so nothing under way names them.     *)
LEMMA AddKeeps ==
  ASSUME FenceInv, NEW ids \in Seq(FenceId), NEW masks \in MasksOf(ids),
         \A i, j \in DOMAIN ids : ids[i] = ids[j] => i = j,
         LocAPIAddGeofences(ids, masks)
  PROVE  FenceInv'
<1> DEFINE d == mGeofenceBiDict
           given == [k \in DOMAIN ids |-> fenceCounter + k]
           call == [op |-> "add", ids |-> ids, sessions |-> given, masks |-> masks]
           n == Len(ids)
<1>1. FenceTypeOK /\ DictAgrees
  BY DEF FenceInv
<1>2. n \in Nat /\ DOMAIN ids = 1 .. n /\ DOMAIN given = 1 .. n /\ fenceCounter \in Nat
  BY <1>1, LenProperties DEF FenceTypeOK
<1>3. /\ fenceMail' = Append(fenceMail, call) /\ fencePending' = Append(fencePending, call)
      /\ fenceCounter' = fenceCounter + n
      /\ d' = SetEach(d, ids, given, masks)
      /\ UNCHANGED <<fences, fenceSeen>>
  BY CallSent DEF LocAPIAddGeofences
<1>4. \A k \in 1 .. n : given[k] \in Nat /\ fenceCounter < given[k] /\ given[k] <= fenceCounter'
  BY <1>2, <1>3
<1>5. \A s \in Elements(given) : s \in 1 .. fenceCounter' /\ fenceCounter < s
  BY <1>2, <1>3, <1>4 DEF Elements
<1>6. given \in Seq(Nat)
  BY <1>2, <1>4
<1>7. call \in FenceCall
  BY <1>6, SeqOfMasks DEF FenceCall, Ops
<1>8. fenceCounter' \in Nat /\ fenceCounter <= fenceCounter'
  BY <1>2, <1>3
<1>9. CallInOrder(call, fenceCounter')
  BY <1>2, <1>5 DEF CallInOrder
<1>10. \A k \in 1 .. n : given[k] \in Elements(given) /\ At(given, given[k]) = k
  <2> SUFFICES ASSUME NEW k \in 1 .. n
               PROVE  given[k] \in Elements(given) /\ At(given, given[k]) = k
    OBVIOUS
  <2>1. given[k] \in Elements(given)
    BY <1>2 DEF Elements
  <2>2. /\ At(given, given[k]) \in DOMAIN given
        /\ given[At(given, given[k])] = given[k]
    BY <2>1, AtFinds
  <2>3. \A i \in 1 .. n : given[i] = fenceCounter + i
    BY <1>2
  <2> QED
    BY <1>2, <2>1, <2>2, <2>3
<1> HIDE DEF given
<1>11. /\ DOMAIN d'.forward = Elements(ids) \cup DOMAIN d.forward
       /\ DOMAIN d'.backward = Elements(given) \cup DOMAIN d.backward
       /\ DOMAIN d'.ext = Elements(given) \cup DOMAIN d.ext
       /\ \A id \in DOMAIN d'.forward :
            d'.forward[id] = IF id \in Elements(ids) THEN given[At(ids, id)] ELSE d.forward[id]
       /\ \A s \in DOMAIN d'.backward :
            d'.backward[s] = IF s \in Elements(given) THEN ids[At(given, s)] ELSE d.backward[s]
       /\ \A s \in DOMAIN d'.ext :
            d'.ext[s] = IF s \in Elements(given) THEN masks[At(given, s)] ELSE d.ext[s]
  BY <1>3, SetEachSets
<1>12. Elements(ids) \subseteq FenceId
  BY <1>2, ElementOfSeq DEF Elements
<1>13. DictTypes(d', fenceCounter')
  BY <1>1, <1>2, <1>5, <1>8, <1>11, <1>12 DEF DictTypes, FenceTypeOK
<1>14. \A s \in DOMAIN d.backward : s \notin Elements(given)
  BY <1>1, <1>2, <1>5 DEF FenceTypeOK
<1>15. DictAgrees'
  <2> SUFFICES ASSUME NEW id \in DOMAIN d'.forward
               PROVE  d'.forward[id] \in DOMAIN d'.backward /\ d'.backward[d'.forward[id]] = id
    BY DEF DictAgrees
  <2>1. CASE id \in Elements(ids)
    <3>1. At(ids, id) \in 1 .. n /\ ids[At(ids, id)] = id
      BY <1>2, <2>1, AtFinds
    <3>2. d'.forward[id] = given[At(ids, id)]
      BY <1>11, <2>1
    <3>3. d'.forward[id] \in Elements(given) /\ At(given, d'.forward[id]) = At(ids, id)
      BY <1>10, <3>1, <3>2
    <3> QED
      BY <1>11, <3>1, <3>3
  <2>2. CASE id \notin Elements(ids)
    <3>1. id \in DOMAIN d.forward /\ d'.forward[id] = d.forward[id]
      BY <1>11, <2>2
    <3>2. d.forward[id] \in DOMAIN d.backward /\ d.backward[d.forward[id]] = id
      BY <1>1, <3>1 DEF DictAgrees
    <3> QED
      BY <1>11, <1>14, <3>1, <3>2
  <2> QED
    BY <2>1, <2>2
<1>16. Enters(call)
  <2>1. \A s \in DOMAIN d'.backward : (s \in DOMAIN d.backward /\ d'.backward[s] = d.backward[s])
                                        \/ fenceCounter < s
    BY <1>5, <1>11
  <2>2. \A i \in DOMAIN given : d'.backward[given[i]] = ids[i]
    BY <1>2, <1>10, <1>11
  <2>3. \A s \in DOMAIN d'.ext : IF MaskSets(call, s) THEN MaskOf(call, s) = d'.ext[s]
                                 ELSE s \in DOMAIN d.ext /\ d'.ext[s] = d.ext[s]
    BY <1>11 DEF MaskSets, MaskOf
  <2> QED
    BY <1>11, <2>1, <2>2, <2>3 DEF Enters
<1> HIDE DEF call
<1> QED
  BY <1>3, <1>7, <1>8, <1>9, <1>13, <1>15, <1>16, PlainCallKeeps

(* The calls about geofences that are known.                               *)
LEMMA KnownCall ==
  ASSUME FenceInv, NEW ids \in Seq(FenceId), NEW op \in Ops \ {"add"}, NEW masks \in Seq(Masks),
         UNCHANGED fenceCounter
  PROVE  LET call == [op |-> op, ids |-> Known(ids), sessions |-> SessionsOf(ids), masks |-> masks]
         IN  /\ call \in FenceCall /\ CallInOrder(call, fenceCounter')
<1> USE DEF FenceInv
<1>1. /\ Known(ids) \in Seq(FenceId) /\ SessionsOf(ids) \in Seq(Nat)
      /\ DOMAIN SessionsOf(ids) = DOMAIN Known(ids)
      /\ Elements(SessionsOf(ids)) \subseteq 1 .. fenceCounter
  BY KnownIds, KnownSessions
<1> QED
  BY <1>1 DEF FenceCall, CallInOrder

(* What is forgotten is what the call removes.                             *)
LEMMA RemoveKeeps ==
  ASSUME FenceInv, NEW ids \in Seq(FenceId), LocAPIRemoveGeofences(ids)
  PROVE  FenceInv'
<1> DEFINE d == mGeofenceBiDict
           known == Known(ids)
           its == SessionsOf(ids)
           call == [op |-> "remove", ids |-> known, sessions |-> its, masks |-> << >>]
<1>1. FenceTypeOK /\ DictAgrees /\ fenceCounter \in Nat
  BY DEF FenceInv, FenceTypeOK
<1>2. /\ fenceMail' = Append(fenceMail, call) /\ fencePending' = Append(fencePending, call)
      /\ d' = RemoveEach(d, known, its)
      /\ UNCHANGED <<fences, fenceCounter, fenceSeen>>
  BY CallSent DEF LocAPIRemoveGeofences
<1>3. call \in FenceCall /\ CallInOrder(call, fenceCounter')
  <2>1. "remove" \in Ops \ {"add"} /\ << >> \in Seq(Masks)
    BY EmptySeq DEF Ops
  <2> QED
    BY <1>2, <2>1, KnownCall
<1> HIDE DEF known, its
<1>4. /\ DOMAIN d'.forward = DOMAIN d.forward \ Elements(known)
      /\ DOMAIN d'.backward = DOMAIN d.backward \ Elements(its)
      /\ DOMAIN d'.ext = DOMAIN d.ext \ Elements(its)
      /\ \A id \in DOMAIN d'.forward : d'.forward[id] = d.forward[id]
      /\ \A s \in DOMAIN d'.backward : d'.backward[s] = d.backward[s]
      /\ \A s \in DOMAIN d'.ext : d'.ext[s] = d.ext[s]
  BY <1>2 DEF RemoveEach, Without, Restrict
<1>5. DictTypes(d', fenceCounter')
  BY <1>1, <1>2, <1>4 DEF DictTypes, FenceTypeOK
<1>6. \A s \in Elements(its) : d.backward[s] \in Elements(known)
  <2>1. \A j \in DOMAIN its : j \in DOMAIN known /\ d.backward[its[j]] = known[j]
    BY <1>1, KnownIds, KnownSessions DEF its, known
  <2> QED
    BY <2>1 DEF Elements
<1>7. DictAgrees'
  BY <1>1, <1>4, <1>6 DEF DictAgrees
<1>8. Enters(call)
  <2>1. \A s : ~MaskSets(call, s)
    BY DEF MaskSets
  <2> QED
    BY <1>4, <2>1 DEF Enters, Removes
<1> HIDE DEF call
<1> QED
  BY <1>1, <1>2, <1>3, <1>5, <1>7, <1>8, PlainCallKeeps

(* A pause leaves the dictionary alone.                                    *)
LEMMA PauseKeeps ==
  ASSUME FenceInv, NEW ids \in Seq(FenceId), LocAPIPauseGeofences(ids)
  PROVE  FenceInv'
<1> DEFINE d == mGeofenceBiDict
           call == [op |-> "pause", ids |-> Known(ids), sessions |-> SessionsOf(ids), masks |-> << >>]
<1>1. FenceTypeOK /\ DictAgrees /\ fenceCounter \in Nat
  BY DEF FenceInv, FenceTypeOK
<1>2. /\ fenceMail' = Append(fenceMail, call) /\ fencePending' = Append(fencePending, call)
      /\ UNCHANGED <<mGeofenceBiDict, fences, fenceCounter, fenceSeen>>
  BY CallSent DEF LocAPIPauseGeofences
<1>3. call \in FenceCall /\ CallInOrder(call, fenceCounter')
  <2>1. "pause" \in Ops \ {"add"} /\ << >> \in Seq(Masks)
    BY EmptySeq DEF Ops
  <2> QED
    BY <1>2, <2>1, KnownCall
<1>4. DictTypes(d', fenceCounter') /\ DictAgrees'
  BY <1>1, <1>2 DEF DictTypes, FenceTypeOK, DictAgrees
<1>5. Enters(call)
  <2>1. \A s : ~MaskSets(call, s)
    BY DEF MaskSets
  <2>2. \A j \in DOMAIN call.sessions : d.backward[call.sessions[j]] = call.ids[j]
    BY <1>1, KnownSessions
  <2> QED
    BY <1>2, <2>1, <2>2 DEF Enters
<1> HIDE DEF call
<1> QED
  BY <1>1, <1>2, <1>3, <1>4, <1>5, PlainCallKeeps

(* Where the mask sent is not the one remembered, an unknown id shifted it.*)
LEMMA ModifyKeeps ==
  ASSUME FenceInv, NEW ids \in Seq(FenceId), NEW masks \in MasksOf(ids),
         LocAPIModifyGeofences(ids, masks)
  PROVE  FenceInv'
<1> DEFINE d == mGeofenceBiDict
           its == SessionsOf(ids)
           sent == [k \in DOMAIN Known(ids) |-> masks[k]]
           meant == MasksKnown(ids, masks)
           wrong == {k \in DOMAIN Known(ids) : sent[k] # meant[k]}
           shifted == {its[k] : k \in wrong}
           call == [op |-> "modify", ids |-> Known(ids), sessions |-> its, masks |-> sent]
<1>1. FenceTypeOK /\ DictAgrees /\ fenceCounter \in Nat
  BY DEF FenceInv, FenceTypeOK
<1>2. /\ fenceMail' = Append(fenceMail, call) /\ fencePending' = Append(fencePending, call)
      /\ d' = SetEach(d, Known(ids), its, meant)
      /\ fenceSeen' = [fenceSeen EXCEPT !.shifted = @ \cup shifted]
      /\ UNCHANGED <<fences, fenceCounter>>
  BY CallSent DEF LocAPIModifyGeofences
<1>3. sent \in Seq(Masks)
  <2>1. Len(Known(ids)) \in Nat /\ DOMAIN Known(ids) = 1 .. Len(Known(ids))
        /\ Len(Known(ids)) <= Len(ids) /\ Len(ids) \in Nat
    BY <1>1, KnownIds, LenProperties
  <2>2. \A k \in DOMAIN Known(ids) : masks[k] \in Masks
    BY <2>1, SeqOfMasks, ElementOfSeq
  <2> QED
    BY <2>1, <2>2
<1>4. call \in FenceCall /\ CallInOrder(call, fenceCounter')
  <2>1. "modify" \in Ops \ {"add"}
    BY DEF Ops
  <2> HIDE DEF sent
  <2> QED
    BY <1>2, <1>3, <2>1, KnownCall
<1>5. /\ DOMAIN its = DOMAIN Known(ids) /\ its \in Seq(Nat)
      /\ \A j \in DOMAIN its : d.backward[its[j]] = Known(ids)[j]
  BY <1>1, KnownIds, KnownSessions
<1>6. /\ DOMAIN d'.forward = DOMAIN d.forward
      /\ DOMAIN d'.backward = DOMAIN d.backward
      /\ DOMAIN d'.ext = DOMAIN d.ext
      /\ \A id \in DOMAIN d.forward : d'.forward[id] = d.forward[id]
      /\ \A s \in DOMAIN d.backward : d'.backward[s] = d.backward[s]
      /\ \A s \in DOMAIN d.ext : d'.ext[s] = IF s \in Elements(its) THEN meant[At(its, s)]
                                            ELSE d.ext[s]
  BY <1>1, <1>2, SetKnown
<1>7. DictTypes(d', fenceCounter') /\ DictAgrees'
  BY <1>1, <1>2, <1>6 DEF DictTypes, FenceTypeOK, DictAgrees
<1>8. shifted \in SUBSET Nat
  <2>1. \A k \in DOMAIN its : its[k] \in Nat
    BY <1>5, ElementOfSeq
  <2> HIDE DEF its
  <2> QED
    BY <1>5, <2>1
<1>9. fenceSeen'.shifted = fenceSeen.shifted \cup shifted
  BY <1>1, <1>2 DEF FenceTypeOK, Excuses
<1>10. ASSUME NEW s \in Elements(its), s \notin shifted
       PROVE  sent[At(its, s)] = meant[At(its, s)]
  <2>1. At(its, s) \in DOMAIN its /\ its[At(its, s)] = s
    BY AtFinds
  <2> QED
    BY <1>5, <1>10, <2>1
<1> HIDE DEF sent, meant, its, shifted
<1>11. Enters(call)
  <2>1. \A s : MaskSets(call, s) <=> s \in Elements(its)
    BY DEF MaskSets
  <2>2. \A s : MaskOf(call, s) = sent[At(its, s)]
    BY DEF MaskOf
  <2>3. \A j \in DOMAIN its : its[j] \in DOMAIN d'.backward => d'.backward[its[j]] = Known(ids)[j]
    BY <1>5, <1>6
  <2>4. ASSUME NEW s \in DOMAIN d'.ext \ (fenceSeen'.resumed \cup fenceSeen'.shifted)
        PROVE  IF MaskSets(call, s) THEN MaskOf(call, s) = d'.ext[s]
               ELSE s \in DOMAIN d.ext /\ d'.ext[s] = d.ext[s]
    <3>1. s \notin shifted
      BY <1>9
    <3> QED
      BY <1>6, <1>10, <2>1, <2>2, <3>1
  <2> QED
    BY <1>6, <2>3, <2>4 DEF Enters
<1>12. ExcusesGrow
  BY <1>1, <1>2, <1>8 DEF FenceTypeOK, Excuses, ExcusesGrow
<1> HIDE DEF call
<1> QED
  BY <1>1, <1>2, <1>4, <1>7, <1>11, <1>12, CallKeeps

(* A mask given with resume is an excuse of its own.                       *)
LEMMA ResumeKeeps ==
  ASSUME FenceInv, NEW ids \in Seq(FenceId), NEW masks, LocAPIResumeGeofences(ids, masks)
  PROVE  FenceInv'
<1> DEFINE d == mGeofenceBiDict
           its == SessionsOf(ids)
           resumed == Elements(its)
           call == [op |-> "resume", ids |-> Known(ids), sessions |-> its, masks |-> << >>]
<1>1. FenceTypeOK /\ DictAgrees /\ fenceCounter \in Nat
  BY DEF FenceInv, FenceTypeOK
<1>2. /\ fenceMail' = Append(fenceMail, call) /\ fencePending' = Append(fencePending, call)
      /\ d' = SetEach(d, Known(ids), its, MasksKnown(ids, masks))
      /\ fenceSeen' = [fenceSeen EXCEPT !.resumed = @ \cup resumed]
      /\ UNCHANGED <<fences, fenceCounter>>
  BY CallSent DEF LocAPIResumeGeofences
<1>3. call \in FenceCall /\ CallInOrder(call, fenceCounter')
  <2>1. "resume" \in Ops \ {"add"} /\ << >> \in Seq(Masks)
    BY EmptySeq DEF Ops
  <2> QED
    BY <1>2, <2>1, KnownCall
<1>4. /\ DOMAIN its = DOMAIN Known(ids)
      /\ \A j \in DOMAIN its : d.backward[its[j]] = Known(ids)[j]
      /\ resumed \subseteq 1 .. fenceCounter
  BY <1>1, KnownIds, KnownSessions
<1>5. /\ DOMAIN d'.forward = DOMAIN d.forward
      /\ DOMAIN d'.backward = DOMAIN d.backward
      /\ DOMAIN d'.ext = DOMAIN d.ext
      /\ \A id \in DOMAIN d.forward : d'.forward[id] = d.forward[id]
      /\ \A s \in DOMAIN d.backward : d'.backward[s] = d.backward[s]
      /\ \A s \in DOMAIN d.ext : s \notin resumed => d'.ext[s] = d.ext[s]
  BY <1>1, <1>2, SetKnown
<1>6. DictTypes(d', fenceCounter') /\ DictAgrees'
  BY <1>1, <1>2, <1>5 DEF DictTypes, FenceTypeOK, DictAgrees
<1>7. resumed \in SUBSET Nat
  BY <1>1, <1>4
<1>8. fenceSeen'.resumed = fenceSeen.resumed \cup resumed
  BY <1>1, <1>2 DEF FenceTypeOK, Excuses
<1> HIDE DEF its, resumed
<1>9. Enters(call)
  <2>1. \A s : ~MaskSets(call, s)
    BY DEF MaskSets
  <2>2. \A j \in DOMAIN its : its[j] \in DOMAIN d'.backward => d'.backward[its[j]] = Known(ids)[j]
    BY <1>4, <1>5
  <2>3. \A s \in DOMAIN d'.ext \ (fenceSeen'.resumed \cup fenceSeen'.shifted) :
          s \in DOMAIN d.ext /\ d'.ext[s] = d.ext[s]
    BY <1>5, <1>8
  <2> QED
    BY <1>5, <2>1, <2>2, <2>3 DEF Enters
<1>10. ExcusesGrow
  BY <1>1, <1>2, <1>7 DEF FenceTypeOK, Excuses, ExcusesGrow
<1> HIDE DEF call
<1> QED
  BY <1>1, <1>2, <1>3, <1>6, <1>9, <1>10, CallKeeps

-----------------------------------------------------------------------------
(* The interface's answer: what it watches after it carried out a call.    *)
LEMMA CarriedFences ==
  ASSUME FenceTypeOK, NEW call \in FenceCall, Elements(call.sessions) \subseteq 1 .. fenceCounter,
         NEW ok \in [DOMAIN call.sessions -> BOOLEAN]
  PROVE  LET its == {call.sessions[k] : k \in {i \in DOMAIN call.sessions : ok[i]}}
             after == Carried(call, ok)
         IN  /\ its \subseteq Elements(call.sessions)
             /\ DOMAIN after \subseteq 1 .. fenceCounter
             /\ \A s \in DOMAIN after : after[s] = [mask |-> after[s].mask, paused |-> after[s].paused]
             /\ \A s \in DOMAIN after : s \in DOMAIN fences \/ (call.op = "add" /\ s \in its)
             /\ \A s \in DOMAIN after : ~(call.op = "remove" /\ s \in its)
             /\ \A s \in DOMAIN after :
                  after[s].mask = IF call.op \in {"add", "modify"} /\ s \in its THEN MaskOf(call, s)
                                  ELSE fences[s].mask
<1> DEFINE its == {call.sessions[k] : k \in {i \in DOMAIN call.sessions : ok[i]}}
           after == Carried(call, ok)
<1>1. its \subseteq Elements(call.sessions)
  BY DEF Elements
<1>2. \A s \in DOMAIN fences : /\ s \in 1 .. fenceCounter
                               /\ fences[s] = [mask |-> fences[s].mask, paused |-> fences[s].paused]
  BY DEF FenceTypeOK
<1>3. call.op \in Ops
  BY DEF FenceCall
<1> HIDE DEF its
<1>4. CASE call.op = "add"
  <2>1. after = Over([s \in its |-> [mask |-> MaskOf(call, s), paused |-> FALSE]], fences)
    BY <1>4 DEF Carried, MaskOf, its
  <2>2. /\ DOMAIN after = its \cup DOMAIN fences
        /\ \A s \in its : after[s] = [mask |-> MaskOf(call, s), paused |-> FALSE]
        /\ \A s \in DOMAIN fences \ its : after[s] = fences[s]
    BY <2>1 DEF Over
  <2> HIDE DEF after
  <2>3. its \subseteq 1 .. fenceCounter /\ DOMAIN after \subseteq 1 .. fenceCounter
    BY <1>1, <1>2, <2>2
  <2>4. \A s \in DOMAIN after : after[s] = [mask |-> after[s].mask, paused |-> after[s].paused]
    <3>1. \A s \in its : after[s].mask = MaskOf(call, s) /\ after[s].paused = FALSE
      BY <2>2
    <3> QED
      BY <1>2, <2>2, <3>1
  <2>5. \A s \in DOMAIN after : after[s].mask = IF s \in its THEN MaskOf(call, s) ELSE fences[s].mask
    BY <2>2
  <2> QED
    BY <1>1, <1>4, <2>2, <2>3, <2>4, <2>5 DEF its, after
<1>5. CASE call.op = "remove"
  <2>1. after = [s \in DOMAIN fences \ its |-> fences[s]]
    BY <1>5 DEF Carried, Without, Restrict, its
  <2> QED
    BY <1>1, <1>2, <1>5, <2>1 DEF its
<1>6. CASE call.op = "modify"
  <2>1. after = [s \in DOMAIN fences |-> IF s \in its THEN [fences[s] EXCEPT !.mask = MaskOf(call, s)]
                                         ELSE fences[s]]
    BY <1>6 DEF Carried, MaskOf, its
  <2>2. \A s \in DOMAIN fences : after[s] = IF s \in its THEN [mask |-> MaskOf(call, s), paused |-> fences[s].paused]
                                            ELSE fences[s]
    BY <1>2, <2>1
  <2>3. DOMAIN after = DOMAIN fences
    BY <2>1
  <2> HIDE DEF after
  <2> QED
    BY <1>1, <1>2, <1>6, <2>2, <2>3 DEF its, after
<1>7. CASE call.op \in {"pause", "resume"}
  <2>1. after = [s \in DOMAIN fences |-> IF s \in its THEN [fences[s] EXCEPT !.paused = call.op = "pause"]
                                         ELSE fences[s]]
    BY <1>7 DEF Carried, its
  <2>2. \A s \in DOMAIN fences : after[s] = IF s \in its THEN [mask |-> fences[s].mask, paused |-> call.op = "pause"]
                                            ELSE fences[s]
    BY <1>2, <2>1
  <2>3. DOMAIN after = DOMAIN fences
    BY <2>1
  <2> HIDE DEF after
  <2> QED
    BY <1>1, <1>2, <1>7, <2>2, <2>3 DEF its, after
<1> QED
  BY <1>3, <1>4, <1>5, <1>6, <1>7 DEF Ops

(* An answer keeps the invariant: the head of the queue becomes what the   *)
(* interface has, or what excuses it.                                      *)
LEMMA HandleKeeps ==
  ASSUME FenceInv, FenceHandle
  PROVE  FenceInv'
<1> DEFINE d == mGeofenceBiDict
           n == Len(fenceMail)
           call == Head(fenceMail)
           all == DOMAIN call.sessions
<1>1. FenceTypeOK /\ DictAgrees /\ CallsNameFences /\ AnswersNameTheirFences
      /\ AddedAreOwned /\ FencesAreOwned /\ MasksAgree
  BY DEF FenceInv
<1>2. /\ fenceMail \in Seq(FenceCall) /\ fenceMail # << >>
      /\ fenceMail' = Tail(fenceMail) /\ fencePending' = Tail(fencePending)
      /\ fencePending = fenceMail
      /\ UNCHANGED <<mGeofenceBiDict, fenceCounter>>
  BY <1>1 DEF FenceHandle, FenceTypeOK
<1>3. /\ n \in Nat \ {0} /\ DOMAIN fenceMail = 1 .. n
      /\ call \in FenceCall /\ call = fenceMail[1] /\ 1 \in 1 .. n
      /\ fenceMail' \in Seq(FenceCall) /\ DOMAIN fenceMail' = 1 .. n - 1
      /\ \A k \in 1 .. n - 1 : k + 1 \in 1 .. n /\ fenceMail'[k] = fenceMail[k + 1]
  <2>1. /\ n \in Nat /\ DOMAIN fenceMail = 1 .. n
    BY <1>2, LenProperties
  <2>2. n # 0
    BY <1>2, <2>1, EmptySeq
  <2>3. /\ call \in FenceCall /\ fenceMail' \in Seq(FenceCall) /\ Len(fenceMail') = n - 1
        /\ \A k \in 1 .. n - 1 : fenceMail'[k] = fenceMail[k + 1]
    BY <1>2, HeadTailProperties
  <2>4. call = fenceMail[1]
    BY <1>2
  <2>5. DOMAIN fenceMail' = 1 .. n - 1
    BY <2>3, LenProperties
  <2> QED
    BY <2>1, <2>2, <2>3, <2>4, <2>5
<1>4. PICK ok \in [all -> BOOLEAN] :
        /\ \A k \in all : ok[k] => (call.op = "add" \/ call.sessions[k] \in DOMAIN fences)
        /\ fences' = Carried(call, ok)
        /\ fenceSeen' = [fenceSeen EXCEPT
             !.refused = (@ \cup {call.sessions[k] : k \in {i \in all : ~ok[i]}})
                           \cap DOMAIN Carried(call, ok),
             !.misnamed = @ \/ \E k \in all : Named(call, k) \notin {call.ids[k], 0},
             !.mixed = @ \/ Head(fencePending) # call]
  BY DEF FenceHandle
<1> DEFINE its == {call.sessions[k] : k \in {i \in all : ok[i]}}
           refused == {call.sessions[k] : k \in {i \in all : ~ok[i]}}
<1>5. CallInOrder(call, fenceCounter)
  BY <1>1, <1>3 DEF FenceTypeOK
<1>6. /\ its \subseteq Elements(call.sessions)
      /\ DOMAIN fences' \subseteq 1 .. fenceCounter
      /\ \A s \in DOMAIN fences' :
           fences'[s] = [mask |-> fences'[s].mask, paused |-> fences'[s].paused]
      /\ \A s \in DOMAIN fences' : s \in DOMAIN fences \/ (call.op = "add" /\ s \in its)
      /\ \A s \in DOMAIN fences' : ~(call.op = "remove" /\ s \in its)
      /\ \A s \in DOMAIN fences' :
           fences'[s].mask = IF call.op \in {"add", "modify"} /\ s \in its THEN MaskOf(call, s)
                             ELSE fences[s].mask
  BY <1>1, <1>3, <1>4, <1>5, CarriedFences DEF CallInOrder
<1>7. /\ fenceSeen'.refused = (fenceSeen.refused \cup refused) \cap DOMAIN fences'
      /\ fenceSeen'.misnamed = (fenceSeen.misnamed \/ \E k \in all : Named(call, k) \notin {call.ids[k], 0})
      /\ fenceSeen'.mixed = (fenceSeen.mixed \/ Head(fencePending) # call)
      /\ fenceSeen'.shifted = fenceSeen.shifted /\ fenceSeen'.resumed = fenceSeen.resumed
      /\ fenceSeen' \in Excuses
  <2>1. fenceSeen \in Excuses
    BY <1>1 DEF FenceTypeOK
  <2> DEFINE now == (fenceSeen.refused \cup refused) \cap DOMAIN fences'
             misnamed == fenceSeen.misnamed \/ \E k \in all : Named(call, k) \notin {call.ids[k], 0}
             mixed == fenceSeen.mixed \/ Head(fencePending) # call
  <2>2. fenceSeen' = [fenceSeen EXCEPT !.refused = now, !.misnamed = misnamed, !.mixed = mixed]
    BY <1>4
  <2>3. misnamed \in BOOLEAN /\ mixed \in BOOLEAN
    BY <2>1 DEF Excuses
  <2>4. now \in SUBSET Nat
    <3>1. fenceSeen.refused \in SUBSET Nat /\ refused \subseteq Elements(call.sessions)
      BY <2>1 DEF Excuses, Elements
    <3> HIDE DEF refused
    <3>2. fenceCounter \in Nat /\ Elements(call.sessions) \subseteq 1 .. fenceCounter
      BY <1>1, <1>5 DEF FenceTypeOK, CallInOrder
    <3> QED
      BY <3>1, <3>2
  <2> HIDE DEF now, misnamed, mixed
  <2>5. /\ fenceSeen'.refused = now /\ fenceSeen'.misnamed = misnamed /\ fenceSeen'.mixed = mixed
        /\ fenceSeen'.shifted = fenceSeen.shifted /\ fenceSeen'.resumed = fenceSeen.resumed
        /\ fenceSeen' \in Excuses
    BY <2>1, <2>2, <2>3, <2>4 DEF Excuses
  <2> QED
    BY <2>5 DEF now, misnamed, mixed
<1>8. \A s \in Elements(call.sessions) : s \in its \/ s \in refused
  BY DEF Elements
<1> HIDE DEF call, its, refused
<1>9. FenceTypeOK'
  <2>1. \A k \in DOMAIN fenceMail' : CallInOrder(fenceMail'[k], fenceCounter')
    BY <1>1, <1>2, <1>3 DEF FenceTypeOK
  <2> QED
    BY <1>1, <1>2, <1>3, <1>6, <1>7, <2>1 DEF FenceTypeOK
<1>10. DictAgrees'
  BY <1>1, <1>2 DEF DictAgrees
<1>11. CallsNameFences'
  <2> SUFFICES ASSUME NEW k \in 1 .. n - 1, NEW i \in DOMAIN fenceMail'[k].sessions,
                      fenceMail'[k].op # "remove",
                      fenceMail'[k].sessions[i] \in DOMAIN d.backward
               PROVE  d.backward[fenceMail'[k].sessions[i]] = fenceMail'[k].ids[i]
    BY <1>2, <1>3, ZenonT(60) DEF CallsNameFences
  <2>1. k + 1 \in 1 .. n /\ fenceMail'[k] = fenceMail[k + 1]
    BY <1>3
  <2>2. i \in DOMAIN fenceMail[k + 1].sessions /\ fenceMail[k + 1].op # "remove"
    BY <2>1
  <2>3. fenceMail[k + 1].sessions[i] \in DOMAIN d.backward
          => d.backward[fenceMail[k + 1].sessions[i]] = fenceMail[k + 1].ids[i]
    <3>1. k + 1 \in DOMAIN fenceMail
      BY <1>3, <2>1
    <3> HIDE DEF d
    <3> QED
      BY <1>1, <2>2, <3>1 DEF CallsNameFences, d
  <2> QED
    BY <2>1, <2>3
<1>12. AnswersNameTheirFences'
  <2>1. ASSUME NEW k \in all
        PROVE  Named(call, k) \in {call.ids[k], 0}
    <3>1. call.op # "remove" /\ call.sessions[k] \in DOMAIN d.backward
            => d.backward[call.sessions[k]] = call.ids[k]
      BY <1>1, <1>3, <2>1 DEF CallsNameFences
    <3> QED
      BY <3>1 DEF Named, GetId, HasSession
  <2>2. Head(fencePending) = call
    BY <1>2 DEF call
  <2> QED
    BY <1>1, <1>7, <2>1, <2>2 DEF AnswersNameTheirFences
<1>13. AddedAreOwned'
  <2> SUFFICES ASSUME NEW k \in 1 .. n - 1, NEW s \in Elements(fenceMail'[k].sessions),
                      fenceMail'[k].op = "add", s \notin DOMAIN d.backward
               PROVE  \E j \in 1 .. n - 1 : k < j /\ Removes(fenceMail'[j], s)
    BY <1>2, <1>3 DEF AddedAreOwned, Removes
  <2>1. PICK j \in 1 .. n : k + 1 < j /\ Removes(fenceMail[j], s)
    BY <1>1, <1>3 DEF AddedAreOwned
  <2>2. j - 1 \in 1 .. n - 1 /\ k < j - 1 /\ (j - 1) + 1 = j
    BY <1>3, <2>1
  <2> QED
    BY <1>3, <2>1, <2>2
<1>14. FencesAreOwned'
  <2> SUFFICES ASSUME NEW s \in DOMAIN fences', s \notin DOMAIN d.backward,
                      s \notin fenceSeen'.refused
               PROVE  \E j \in 1 .. n - 1 : Removes(fenceMail'[j], s)
    BY <1>2, <1>3 DEF FencesAreOwned, HasSession, Removes
  <2>1. s \notin fenceSeen.refused /\ s \notin refused
    BY <1>7
  <2>2. PICK j \in 1 .. n : 1 < j /\ Removes(fenceMail[j], s)
    <3>1. CASE s \in DOMAIN fences
      <4>1. PICK j \in 1 .. n : Removes(fenceMail[j], s)
        BY <1>1, <1>3, <2>1, <3>1 DEF FencesAreOwned, HasSession, Removes
      <4>2. ~Removes(call, s)
        BY <1>6, <1>8, <2>1 DEF Removes
      <4>3. j # 1
        BY <1>3, <4>1, <4>2
      <4> QED
        BY <1>3, <4>1, <4>3
    <3>2. CASE s \notin DOMAIN fences
      <4>1. call.op = "add" /\ s \in Elements(call.sessions)
        BY <1>6, <3>2
      <4> QED
        BY <1>1, <1>3, <4>1 DEF AddedAreOwned
    <3> QED
      BY <3>1, <3>2
  <2>3. j - 1 \in 1 .. n - 1 /\ (j - 1) + 1 = j
    BY <1>3, <2>2
  <2> QED
    BY <1>3, <2>2, <2>3
<1>15. MasksAgree'
  <2> SUFFICES ASSUME NEW s \in DOMAIN d.ext \ (fenceSeen.resumed \cup fenceSeen.shifted)
               PROVE  /\ \A k \in 1 .. n - 1 :
                           /\ MaskSets(fenceMail'[k], s)
                           /\ \A j \in 1 .. n - 1 : k < j => ~MaskSets(fenceMail'[j], s)
                           => MaskOf(fenceMail'[k], s) = d.ext[s]
                      /\ (\A k \in 1 .. n - 1 : ~MaskSets(fenceMail'[k], s)) /\ s \in DOMAIN fences'
                           => fences'[s].mask = d.ext[s] \/ s \in fenceSeen'.refused
    BY <1>2, <1>3, <1>7, ZenonT(60) DEF MasksAgree, MaskSets, MaskOf
  <2>1. /\ \A k \in 1 .. n :
             /\ MaskSets(fenceMail[k], s)
             /\ \A j \in 1 .. n : k < j => ~MaskSets(fenceMail[j], s)
             => MaskOf(fenceMail[k], s) = d.ext[s]
        /\ (\A k \in 1 .. n : ~MaskSets(fenceMail[k], s)) /\ s \in DOMAIN fences
             => fences[s].mask = d.ext[s] \/ s \in fenceSeen.refused
    BY <1>1, <1>3 DEF MasksAgree
  <2>2. \A j \in 1 .. n : 1 < j => j - 1 \in 1 .. n - 1 /\ fenceMail[j] = fenceMail'[j - 1]
    <3> SUFFICES ASSUME NEW j \in 1 .. n, 1 < j
                 PROVE  j - 1 \in 1 .. n - 1 /\ fenceMail[j] = fenceMail'[j - 1]
      OBVIOUS
    <3>1. j - 1 \in 1 .. n - 1 /\ (j - 1) + 1 = j
      BY <1>3
    <3> QED
      BY <1>3, <3>1
  <2>3. ASSUME NEW k \in 1 .. n - 1, MaskSets(fenceMail'[k], s),
               \A j \in 1 .. n - 1 : k < j => ~MaskSets(fenceMail'[j], s)
        PROVE  MaskOf(fenceMail'[k], s) = d.ext[s]
    <3>1. k + 1 \in 1 .. n /\ fenceMail'[k] = fenceMail[k + 1]
      BY <1>3
    <3>2. ASSUME NEW j \in 1 .. n, k + 1 < j
          PROVE  ~MaskSets(fenceMail[j], s)
      <4>1. j - 1 \in 1 .. n - 1 /\ fenceMail[j] = fenceMail'[j - 1] /\ k < j - 1
        BY <1>3, <2>2, <3>2
      <4> QED
        BY <2>3, <4>1
    <3> QED
      BY <2>1, <2>3, <3>1, <3>2
  <2>4. ASSUME \A k \in 1 .. n - 1 : ~MaskSets(fenceMail'[k], s), s \in DOMAIN fences'
        PROVE  fences'[s].mask = d.ext[s] \/ s \in fenceSeen'.refused
    <3>1. \A j \in 1 .. n : 1 < j => ~MaskSets(fenceMail[j], s)
      BY <2>2, <2>4
    <3>2. CASE MaskSets(call, s)
      <4>1. MaskOf(call, s) = d.ext[s]
        BY <1>3, <2>1, <3>1, <3>2
      <4>2. CASE s \in its
        BY <1>6, <2>4, <3>2, <4>1, <4>2 DEF MaskSets
      <4>3. CASE s \in refused
        BY <1>7, <2>4, <4>3
      <4> QED
        BY <1>8, <3>2, <4>2, <4>3 DEF MaskSets
    <3>3. CASE ~MaskSets(call, s)
      <4>1. ~(call.op \in {"add", "modify"} /\ s \in its)
        BY <1>6, <3>3 DEF MaskSets
      <4>2. s \in DOMAIN fences /\ fences'[s].mask = fences[s].mask
        BY <1>6, <2>4, <4>1
      <4>3. \A k \in 1 .. n : ~MaskSets(fenceMail[k], s)
        <5>1. \A k \in 1 .. n : k = 1 \/ 1 < k
          BY <1>3
        <5> QED
          BY <1>3, <3>1, <3>3, <5>1
      <4> QED
        BY <1>7, <2>1, <2>4, <4>2, <4>3
    <3> QED
      BY <3>2, <3>3
  <2> QED
    BY <2>3, <2>4
<1> QED
  BY <1>9, <1>10, <1>11, <1>12, <1>13, <1>14, <1>15 DEF FenceInv

-----------------------------------------------------------------------------
(* The strengthening holds: it ties the dictionary of the library to the   *)
(* calls under way and to what the interface watches, from every call      *)
(* (locAPIAddGeofences to locAPIResumeGeofences) to every response.        *)
THEOREM FencesHold == FenceSpec => []FenceInv
<1>1. FenceInit => FenceInv
  <2> SUFFICES ASSUME FenceInit
               PROVE  FenceInv
    OBVIOUS
  <2>1. /\ fenceMail = << >> /\ fencePending = << >> /\ fenceCounter = 0
        /\ DOMAIN mGeofenceBiDict.forward = {} /\ DOMAIN mGeofenceBiDict.backward = {}
        /\ DOMAIN mGeofenceBiDict.ext = {} /\ DOMAIN fences = {}
        /\ fenceSeen = [refused |-> {}, shifted |-> {}, resumed |-> {},
                        misnamed |-> FALSE, mixed |-> FALSE]
    BY DEF FenceInit, EmptyDict
  <2>2. DOMAIN fenceMail = {} /\ fenceMail \in Seq(FenceCall)
    BY <2>1, EmptySeq
  <2>3. FenceTypeOK
    BY <2>1, <2>2 DEF FenceTypeOK, Excuses
  <2> QED
    BY <2>1, <2>2, <2>3 DEF FenceInv, DictAgrees, CallsNameFences, AnswersNameTheirFences,
                            AddedAreOwned, FencesAreOwned, MasksAgree
<1>2. FenceInv /\ [FenceNext]_fenceVars => FenceInv'
  <2> SUFFICES ASSUME FenceInv, [FenceNext]_fenceVars
               PROVE  FenceInv'
    OBVIOUS
  <2>1. \A ids \in Ids : ids \in Seq(FenceId) /\ \A i, j \in DOMAIN ids : ids[i] = ids[j] => i = j
    BY FenceAssumption
  <2>2. ASSUME NEW ids \in Ids, NEW masks \in MasksOf(ids),
               LocAPIAddGeofences(ids, masks) \/ LocAPIModifyGeofences(ids, masks)
        PROVE  FenceInv'
    BY <2>1, <2>2, AddKeeps, ModifyKeeps
  <2>3. ASSUME NEW ids \in Ids, LocAPIRemoveGeofences(ids) \/ LocAPIPauseGeofences(ids)
        PROVE  FenceInv'
    BY <2>1, <2>3, RemoveKeeps, PauseKeeps
  <2>4. ASSUME NEW id \in FenceId, NEW mask \in Masks
        PROVE  /\ <<id>> \in Seq(FenceId) /\ <<mask>> \in MasksOf(<<id>>)
               /\ \A i, j \in DOMAIN <<id>> : <<id>>[i] = <<id>>[j] => i = j
    BY DEF MasksOf
  <2>5. ASSUME NEW id \in FenceId, NEW mask \in Masks,
               \/ GeofenceAdd(id, mask) \/ GeofencePause(id)
               \/ GeofenceResume(id, mask) \/ GeofenceRemove(id)
        PROVE  FenceInv'
    <3>1. CASE GeofenceAdd(id, mask)
      BY <2>4, <3>1, AddKeeps DEF GeofenceAdd
    <3>2. CASE GeofencePause(id)
      BY <2>4, <3>2, PauseKeeps DEF GeofencePause
    <3>3. CASE GeofenceResume(id, mask)
      BY <2>4, <3>3, ResumeKeeps DEF GeofenceResume
    <3>4. CASE GeofenceRemove(id)
      BY <2>4, <3>4, RemoveKeeps DEF GeofenceRemove
    <3> QED
      BY <2>5, <3>1, <3>2, <3>3, <3>4
  <2>6. CASE FenceHandle
    BY <2>6, HandleKeeps
  <2>7. CASE UNCHANGED fenceVars
    <3>1. UNCHANGED <<fenceMail, fencePending, mGeofenceBiDict, fences, fenceCounter, fenceSeen>>
      BY <2>7 DEF fenceVars
    <3> QED
      BY <3>1 DEF FenceInv, FenceTypeOK, DictAgrees, CallsNameFences, AnswersNameTheirFences,
                  AddedAreOwned, FencesAreOwned, MasksAgree, HasSession, Removes, MaskSets, MaskOf
  <2> QED
    BY <2>2, <2>3, <2>5, <2>6, <2>7 DEF FenceNext, FenceCalls
<1> QED
  BY <1>1, <1>2, PTL DEF FenceSpec

(* Whatever the owner adds, removes and adds again while answers are out,  *)
(* the interface watches no geofence that the owner could not name, but    *)
(* those whose removal it refused.                                         *)
THEOREM NoFenceIsOrphaned == FenceSpec => []FencesAreOwned
<1>1. FenceInv => FencesAreOwned
  BY DEF FenceInv
<1> QED
  BY <1>1, FencesHold, PTL

(* A collective response is taken for the call it answers, and names each  *)
(* geofence by the owner's id or by 0 (onCollectiveResponseCb).            *)
THEOREM FenceAnswersMatch == FenceSpec => []AnswersNameTheirFences
<1>1. FenceInv => AnswersNameTheirFences
  BY DEF FenceInv
<1> QED
  BY <1>1, FencesHold, PTL

(* With no call under way, the owner hears of the breaches that each       *)
(* geofence is watched for and no others (beforeGeofenceBreachCb), but for *)
(* a change refused, a mask given with resume and one shifted by an        *)
(* unknown id.                                                             *)
THEOREM BreachesGoToTheirOwner == FenceSpec => []BreachesAreReported
<1>1. FenceInv => BreachesAreReported
  <2> SUFFICES ASSUME FenceInv, fenceMail = << >>, NEW s \in DOMAIN fences, Current(s),
                      s \notin fenceSeen.refused \cup fenceSeen.resumed \cup fenceSeen.shifted
               PROVE  BreachesMatch(s)
    BY DEF BreachesAreReported
  <2> DEFINE d == mGeofenceBiDict
  <2>1. s \in DOMAIN d.ext
    BY DEF FenceInv, FenceTypeOK, Current, HasSession
  <2>2. DOMAIN fenceMail = {}
    OBVIOUS
  <2>3. fences[s].mask = d.ext[s]
    BY <2>1, <2>2 DEF FenceInv, MasksAgree
  <2>4. GetExtBySession(d, s, {}) = fences[s].mask
    BY <2>1, <2>3 DEF GetExtBySession
  <2> QED
    BY <2>4 DEF BreachesMatch, BeforeGeofenceBreachCb
<1> QED
  BY <1>1, FencesHold, PTL

-----------------------------------------------------------------------------
(* The file of the launcher's processes, in which lines are counted.       *)

(* What numbers of a bounded set have: a greatest one.                     *)
LEMMA GreatestNumber ==
  ASSUME NEW n \in Nat, NEW T \in SUBSET (0 .. n), T # {}
  PROVE  \E x \in T : \A y \in T : y <= x
<1> DEFINE U == {k \in Nat : \A y \in T : y <= k}
<1>1. n \in U
  OBVIOUS
<1>2. PICK x \in U : \A k \in U : x <= k
  BY <1>1, LeastNumber
<1>3. x \in T
  <2> SUFFICES ASSUME x \notin T
               PROVE  FALSE
    OBVIOUS
  <2>1. PICK y \in T : TRUE
    OBVIOUS
  <2>2. \A z \in T : z \in Nat /\ z < x
    BY <1>2
  <2>3. x - 1 \in Nat /\ \A z \in T : z <= x - 1
    BY <1>2, <2>1, <2>2
  <2>4. x - 1 \in U /\ x \in Nat
    BY <1>2, <2>3
  <2> HIDE DEF U
  <2> QED
    BY <1>2, <2>3, <2>4
<1> QED
  BY <1>2, <1>3

(* What Min and Max choose.                                                *)
LEMMA MinIs ==
  ASSUME NEW S \in SUBSET Nat, NEW x \in S, \A y \in S : x <= y
  PROVE  Min(S) = x
<1>1. \A m \in S : (\A y \in S : m <= y) => m = x
  OBVIOUS
<1>2. \E m \in S : \A y \in S : m <= y
  OBVIOUS
<1> QED
  BY <1>1, <1>2, Zenon DEF Min

LEMMA MaxIs ==
  ASSUME NEW S \in SUBSET Nat, NEW x \in S, \A y \in S : y <= x
  PROVE  Max(S) = x
<1>1. \A m \in S : (\A y \in S : y <= m) => m = x
  OBVIOUS
<1>2. \E m \in S : \A y \in S : y <= m
  OBVIOUS
<1> QED
  BY <1>1, <1>2, Zenon DEF Max

(* A file is a sequence of lines.                                          *)
IsFile == Len(file) \in Nat /\ DOMAIN file = 1 .. Len(file)

(* Where the reader stops: at the line with which enough have been read.   *)
LEMMA StopsAt ==
  ASSUME IsFile, NEW from \in Nat \ {0}, NEW keys, NEW x,
         NEW F, F = {j \in from .. Len(file) : Fills(j, keys)},
         x \in F, Cardinality({j \in F : j <= x}) = Cardinality(keys)
  PROVE  LastRead(from, keys) = x
<1> DEFINE enough == {i \in F : Cardinality({j \in F : j <= i}) = Cardinality(keys)}
<1>1. F \subseteq Nat /\ IsFiniteSet(F)
  <2>1. IsFiniteSet(from .. Len(file))
    BY FS_Interval DEF IsFile
  <2>2. F \subseteq from .. Len(file)
    OBVIOUS
  <2>3. from .. Len(file) \subseteq Nat
    BY DEF IsFile
  <2> QED
    BY <2>1, <2>2, <2>3, FS_Subset
<1>2. ASSUME NEW a \in enough, NEW b \in enough, a < b
      PROVE  FALSE
  <2> DEFINE A == {j \in F : j <= a}
             B == {j \in F : j <= b}
  <2>1. A \subseteq B
    BY <1>1, <1>2
  <2>2. IsFiniteSet(B)
    BY <1>1, FS_Subset
  <2>3. Cardinality(A) = Cardinality(B)
    OBVIOUS
  <2>4. A = B
    BY <2>1, <2>2, <2>3, FS_Subset
  <2>5. b \in B /\ b \notin A
    BY <1>1, <1>2
  <2> QED
    BY <2>4, <2>5
<1>3. x \in enough
  OBVIOUS
<1>4. enough \subseteq Nat
  BY <1>1
<1>5. \A y \in enough : x <= y
  BY <1>2, <1>3, <1>4
<1>6. Min(enough) = x
  <2> HIDE DEF enough
  <2> QED
    BY <1>3, <1>4, <1>5, MinIs
<1> QED
  BY <1>3, <1>6 DEF LastRead

(* What is read: one line of a key, or none.                               *)
LEMMA ReadOne ==
  ASSUME NEW held, NEW from \in Nat \ {0}, NEW to \in Nat, NEW keys, NEW key \in keys, key \in DOMAIN held,
         NEW x, {i \in from .. to : file[i].key = key} = {x}
  PROVE  Filled(held, from, to, keys)[key] = Trimmed(key, file[x].value)
<1>1. {x} \subseteq from .. to
  OBVIOUS
<1>2. x \in Nat /\ {x} \in SUBSET Nat
  BY <1>1
<1>3. Max({x}) = x
  BY <1>2, MaxIs
<1> QED
  BY <1>3 DEF Filled

(* A key that no line read has keeps what it held.                         *)
LEMMA ReadNone ==
  ASSUME NEW held, NEW from, NEW to, NEW keys, NEW key, key \in DOMAIN held,
         key \notin keys \/ {i \in from .. to : file[i].key = key} = {}
  PROVE  Filled(held, from, to, keys)[key] = held[key]
BY DEF Filled

(* Reading adds no key.                                                    *)
LEMMA FilledDomain ==
  ASSUME NEW held, NEW from, NEW to, NEW keys
  PROVE  DOMAIN Filled(held, from, to, keys) = DOMAIN held
BY DEF Filled

(* Names, and how many there are up to a line.                             *)
LEMMA NamesAre ==
  ASSUME IsFile
  PROVE  Names \subseteq 1 .. Len(file) /\ Names \subseteq Nat /\ IsFiniteSet(Names)
<1>1. Names \subseteq 1 .. Len(file)
  BY DEF Names, IsFile
<1>2. IsFiniteSet(1 .. Len(file))
  BY FS_Interval DEF IsFile
<1>3. 1 .. Len(file) \subseteq Nat
  BY DEF IsFile
<1> QED
  BY <1>1, <1>2, <1>3, FS_Subset

(* The processes begun up to a line are among the names.                   *)
LEMMA BegunIs ==
  ASSUME IsFile, NEW k \in Nat
  PROVE  Begun(k) \in Nat /\ Begun(k) <= Cardinality(Names) /\ Cardinality(Names) \in Nat
<1>1. IsFiniteSet(Names)
  BY NamesAre
<1>2. IsFiniteSet(Names \cap 1 .. k) /\ Cardinality(Names \cap 1 .. k) <= Cardinality(Names)
  BY <1>1, FS_Subset
<1> QED
  BY <1>1, <1>2, FS_CardinalityType DEF Begun

(* None is begun before the first line.                                    *)
LEMMA NoneBegun ==
  ASSUME IsFile
  PROVE  Begun(0) = 0
<1>1. Names \cap 1 .. 0 = {}
  OBVIOUS
<1> QED
  BY <1>1, FS_EmptySet DEF Begun

(* All are begun behind the last name.                                     *)
LEMMA AllBegun ==
  ASSUME IsFile, NEW k \in Nat, \A n \in Names : n <= k
  PROVE  Begun(k) = Cardinality(Names)
<1>1. Names \cap 1 .. k = Names
  BY NamesAre
<1> QED
  BY <1>1 DEF Begun

(* The next name begins one more.                                          *)
LEMMA NextBegun ==
  ASSUME IsFile, NEW k \in Nat, NEW n \in Names, k < n, \A m \in Names : m <= k \/ n <= m
  PROVE  Begun(n) = Begun(k) + 1
<1>1. n \in Nat /\ Names \subseteq Nat \ {0}
  BY NamesAre
<1>2. Names \cap 1 .. n = (Names \cap 1 .. k) \cup {n}
  BY <1>1
<1>3. n \notin Names \cap 1 .. k
  BY <1>1
<1>4. IsFiniteSet(Names \cap 1 .. k)
  BY NamesAre, FS_Subset
<1> QED
  BY <1>2, <1>3, <1>4, FS_AddElement DEF Begun

(* Without a name between two lines no process begins.                     *)
LEMMA BegunStays ==
  ASSUME IsFile, NEW k \in Nat, NEW n \in Names, n <= k, \A m \in Names : m <= n \/ k < m
  PROVE  Begun(k) = Begun(n)
<1>1. n \in Nat /\ Names \subseteq Nat \ {0}
  BY NamesAre
<1>2. Names \cap 1 .. n = Names \cap 1 .. k
  BY <1>1
<1> QED
  BY <1>2 DEF Begun

(* The next name behind a line, if there is one.                           *)
IsNext(n, k) == n \in Names /\ k < n /\ \A m \in Names : m <= k \/ n <= m

(* A name behind a line has a first one.                                   *)
LEMMA NextName ==
  ASSUME IsFile, NEW k \in Nat, \E m \in Names : k < m
  PROVE  \E n : IsNext(n, k)
<1> DEFINE T == {m \in Names : k < m}
<1>1. T \in SUBSET Nat /\ T # {}
  BY NamesAre
<1>2. PICK n \in T : \A y \in T : n <= y
  BY <1>1, LeastNumber
<1>3. \A m \in Names : m <= k \/ m \in T
  BY NamesAre
<1> QED
  BY <1>2, <1>3 DEF IsNext

(* The lines of a process: as many as there are keys.                      *)
Lines(n) == {i \in Block(n) : file[i].key \in ProcessKeys}

(* They are as many as the keys, and each key has one.                     *)
LEMMA LinesAre ==
  ASSUME IsFile, WellFormed, NEW n \in Names
  PROVE  /\ IsFiniteSet(Lines(n)) /\ Cardinality(Lines(n)) = Cardinality(ProcessKeys)
         /\ \A key \in ProcessKeys : \E x \in Lines(n) : {i \in Block(n) : file[i].key = key} = {x}
<1>1. Block(n) \subseteq n .. Len(file) /\ n \in Nat
  BY NamesAre DEF Block
<1>2. IsFiniteSet(Block(n))
  <2>1. IsFiniteSet(n .. Len(file))
    BY <1>1, FS_Interval DEF IsFile
  <2> QED
    BY <1>1, <2>1, FS_Subset
<1>3. IsFiniteSet(Lines(n))
  BY <1>2, FS_Subset DEF Lines
<1>4. ASSUME NEW key \in ProcessKeys
      PROVE  \E x \in Lines(n) : {i \in Block(n) : file[i].key = key} = {x}
  <2>1. Cardinality({i \in Block(n) : file[i].key = key}) = 1
    BY DEF WellFormed
  <2>2. IsFiniteSet({i \in Block(n) : file[i].key = key})
    BY <1>2, FS_Subset
  <2>3. PICK x : {i \in Block(n) : file[i].key = key} = {x}
    BY <2>1, <2>2, FS_Singleton
  <2>4. x \in Block(n) /\ file[x].key = key
    BY <2>3
  <2> QED
    BY <2>3, <2>4 DEF Lines
<1>5. PICK f : f = [i \in Lines(n) |-> file[i].key]
  OBVIOUS
<1>6. f \in Bijection(Lines(n), ProcessKeys)
  <2>1. f \in [Lines(n) -> ProcessKeys]
    BY <1>5 DEF Lines
  <2>2. \A a, b \in Lines(n) : f[a] = f[b] => a = b
    <3> SUFFICES ASSUME NEW a \in Lines(n), NEW b \in Lines(n), f[a] = f[b]
                 PROVE  a = b
      OBVIOUS
    <3>1. PICK key \in ProcessKeys : file[a].key = key /\ file[b].key = key
      BY <1>5 DEF Lines
    <3>2. a \in Block(n) /\ b \in Block(n)
      BY DEF Lines
    <3> QED
      BY <1>4, <3>1, <3>2
  <2>3. \A key \in ProcessKeys : \E x \in Lines(n) : f[x] = key
    <3> SUFFICES ASSUME NEW key \in ProcessKeys
                 PROVE  \E x \in Lines(n) : f[x] = key
      OBVIOUS
    <3>1. PICK x \in Lines(n) : {i \in Block(n) : file[i].key = key} = {x}
      BY <1>4
    <3>2. file[x].key = key
      BY <3>1
    <3> QED
      BY <1>5, <3>2
  <2>4. f \in Injection(Lines(n), ProcessKeys)
    BY <2>1, <2>2 DEF Injection, IsInjective
  <2>5. f \in Surjection(Lines(n), ProcessKeys)
    BY <2>1, <2>3 DEF Surjection
  <2> QED
    BY <2>4, <2>5 DEF Bijection
<1>7. Cardinality(ProcessKeys) = Cardinality(Lines(n))
  BY <1>3, <1>6, FS_Bijection DEF ExistsBijection
<1> QED
  BY <1>3, <1>4, <1>7

(* What becomes of a process depends on its own keys only.                 *)
Agree(a, b) == \A key \in ProcessKeys : a[key] = b[key]

(* The keys of a process, and how many.                                    *)
LEMMA KeysAre ==
  /\ {"PROCESS_NAME", "PROCESS_STATE", "PREMIUM_FEATURE", "IZAT_FEATURE_MASK"} \subseteq ProcessKeys
  /\ Lists \subseteq ProcessKeys /\ Required \subseteq ProcessKeys
  /\ "PROCESS_NAME" \notin Lists /\ "PROCESS_NAME" \notin FeatureKeys
BY DEF ProcessKeys, Lists, Required, FeatureKeys

(* Where a process may run is decided by its keys.                         *)
LEMMA SamePlace ==
  ASSUME NEW a, NEW b, Agree(a, b)
  PROVE  OnTarget(a) /\ OnBaseband(a) /\ OnHardware(a) <=> OnTarget(b) /\ OnBaseband(b) /\ OnHardware(b)
<1>1. /\ a["PLATFORMS"] = b["PLATFORMS"] /\ a["BASEBAND"] = b["BASEBAND"]
      /\ a["HARDWARE_TYPE"] = b["HARDWARE_TYPE"]
  BY KeysAre DEF Agree, Lists
<1>2. OnTarget(a) <=> OnTarget(b)
  BY <1>1 DEF OnTarget
<1>3. OnBaseband(a) <=> OnBaseband(b)
  BY <1>1 DEF OnBaseband
<1>4. OnHardware(a) <=> OnHardware(b)
  BY <1>1 DEF OnHardware
<1> QED
  BY <1>2, <1>3, <1>4

(* What is launched is decided by its keys.                                *)
LEMMA SameProcess ==
  ASSUME NEW a, NEW b, NEW on, Agree(a, b)
  PROVE  ProcessOf(a, on) = ProcessOf(b, on)
<1>1. /\ a["PROCESS_NAME"] = b["PROCESS_NAME"] /\ a["PROCESS_GROUPS"] = b["PROCESS_GROUPS"]
      /\ a["PREMIUM_FEATURE"] = b["PREMIUM_FEATURE"]
      /\ a["IZAT_FEATURE_MASK"] = b["IZAT_FEATURE_MASK"]
      /\ a["PROCESS_STATE"] = b["PROCESS_STATE"]
      /\ a["PROCESS_ARGUMENT"] = b["PROCESS_ARGUMENT"]
  BY KeysAre DEF Agree, Lists
<1>2. (\E key \in Required : a[key] = Blank(key)) <=> (\E key \in Required : b[key] = Blank(key))
  BY KeysAre DEF Agree
<1>3. OnTarget(a) /\ OnBaseband(a) /\ OnHardware(a) <=> OnTarget(b) /\ OnBaseband(b) /\ OnHardware(b)
  BY SamePlace
<1> QED
  BY <1>1, <1>2, <1>3 DEF ProcessOf

-----------------------------------------------------------------------------
(* Between the last line read and the next name there is no process's line, *)
(* and the processes read are those begun so far.                          *)
Followed ==
  /\ Begun(line) = Len(procs)
  /\ \A i \in line + 1 .. Len(file) : file[i].key \in ProcessKeys => \E n \in Names : line < n /\ n <= i

(* What is launched for some name, and of whom each is.                    *)
Launched == {ProcessOf(Own(n), serviceMask) : n \in Names}
LaunchedRight ==
  \A i \in DOMAIN procs : \E n \in Names : Begun(n) = i /\ procs[i] = ProcessOf(Own(n), serviceMask)

(* What the reader holds: names counted, then their processes.             *)
ReadInv ==
  /\ DOMAIN settings = FeatureKeys \cup ProcessKeys
  /\ line \in 0 .. Len(file)
  /\ reading \in {"features", "count", "processes", "failed"}
  /\ reading = "features" => line = 0 /\ procCount = 0
  /\ reading = "count" => procCount = Begun(line)
  /\ reading # "processes" => procs = << >>
  /\ reading = "processes" => procCount = Cardinality(Names) /\ Followed
  /\ procs \in Seq(Launched) /\ LaunchedRight

(* In a file whose processes have all their lines.                         *)
ConfigInv == IsFile /\ (WellFormed => ReadInv)

(* What a process's own lines say, of any lines and any block.             *)
OwnOf(lines, block) == [key \in ProcessKeys |->
  LET i == CHOOSE i \in block : lines[i].key = key IN Trimmed(key, lines[i].value)]

(* The file stays as it is.                                                *)
LEMMA FileStays ==
  ASSUME IsFile, UNCHANGED file
  PROVE  /\ IsFile' /\ (WellFormed' <=> WellFormed) /\ Names' = Names
         /\ \A k : Begun(k)' = Begun(k)
         /\ \A n : Own(n)' = Own(n)
<1>1. Names' = Names
  BY DEF Names
<1>2. \A n : Block(n)' = Block(n)
  BY <1>1 DEF Block
<1>3. \A k : Begun(k)' = Begun(k)
  BY <1>1 DEF Begun
<1>4. \A n : Own(n)' = Own(n)
  <2> SUFFICES ASSUME NEW n
               PROVE  Own(n)' = Own(n)
    OBVIOUS
  <2>1. Own(n) = OwnOf(file, Block(n))
    BY DEF Own, OwnOf
  <2>2. Own(n)' = OwnOf(file', Block(n)')
    BY DEF Own, OwnOf
  <2>3. file' = file /\ Block(n)' = Block(n)
    BY <1>2
  <2> QED
    BY <2>1, <2>2, <2>3
<1>5. IsFile'
  BY DEF IsFile
<1>6. WellFormed' <=> WellFormed
  BY <1>1, <1>2, ZenonT(60) DEF WellFormed
<1> QED
  BY <1>1, <1>3, <1>4, <1>5, <1>6

(* What is launched stays the same while its lines do.                     *)
LEMMA ProcessStays ==
  ASSUME IsFile, UNCHANGED <<file, sglteTarget, serviceMask>>, NEW n
  PROVE  ProcessOf(Own(n), serviceMask)' = ProcessOf(Own(n), serviceMask)
<1>1. Own(n)' = Own(n)
  BY FileStays
<1>2. OnBaseband(Own(n))' <=> OnBaseband(Own(n))
  BY <1>1 DEF OnBaseband
<1> QED
  BY <1>1, <1>2 DEF ProcessOf

(* Processes that are launched right stay so.                              *)
LEMMA RightStays ==
  ASSUME IsFile, UNCHANGED <<file, sglteTarget, serviceMask>>
  PROVE  /\ Launched' = Launched
         /\ procs' = procs => (LaunchedRight' <=> LaunchedRight)
<1>1. Names' = Names /\ \A k : Begun(k)' = Begun(k)
  BY FileStays
<1>2. \A n : ProcessOf(Own(n), serviceMask)' = ProcessOf(Own(n), serviceMask)
  BY ProcessStays
<1>3. Launched' = Launched
  BY <1>1, <1>2 DEF Launched
<1>4. procs' = procs => (LaunchedRight' <=> LaunchedRight)
  BY <1>1, <1>2 DEF LaunchedRight
<1> QED
  BY <1>3, <1>4

(* The next name is read, and nothing else.                                *)
LEMMA CountsNext ==
  ASSUME IsFile, NEW n, IsNext(n, line), line \in 0 .. Len(file)
  PROVE  /\ LastRead(line + 1, {"PROCESS_NAME"}) = n /\ n \in 1 .. Len(file)
         /\ {i \in line + 1 .. n : file[i].key = "PROCESS_NAME"} = {n}
<1>1. line \in Nat /\ line + 1 \in Nat \ {0} /\ n \in 1 .. Len(file) /\ n \in Nat /\ Len(file) \in Nat
  BY NamesAre DEF IsFile, IsNext
<1>2. \A i \in line + 1 .. Len(file) : file[i].key = "PROCESS_NAME" => i \in Names
  BY <1>1 DEF Names, IsFile
<1>3. \A i \in Names : file[i].key = "PROCESS_NAME"
  BY DEF Names
<1>4. PICK F : F = {j \in line + 1 .. Len(file) : Fills(j, {"PROCESS_NAME"})}
  OBVIOUS
<1>5. n \in F /\ {j \in F : j <= n} = {n}
  BY <1>1, <1>2, <1>3, <1>4 DEF Fills, IsNext
<1>6. Cardinality({n}) = Cardinality({"PROCESS_NAME"})
  BY FS_Singleton
<1>7. LastRead(line + 1, {"PROCESS_NAME"}) = n
  BY <1>1, <1>4, <1>5, <1>6, StopsAt
<1>8. {i \in line + 1 .. n : file[i].key = "PROCESS_NAME"} = {n}
  BY <1>1, <1>2, <1>3 DEF IsNext
<1> QED
  BY <1>1, <1>7, <1>8

(* Behind the last name no name is read.                                   *)
LEMMA CountsNoMore ==
  ASSUME IsFile, line \in 0 .. Len(file), ~(\E n \in Names : line < n)
  PROVE  \A to \in 0 .. Len(file) : {i \in line + 1 .. to : file[i].key = "PROCESS_NAME"} = {}
<1>1. line \in Nat /\ Len(file) \in Nat
  BY DEF IsFile
<1>2. \A i \in line + 1 .. Len(file) : i \in DOMAIN file /\ line < i
  BY <1>1 DEF IsFile
<1>3. \A i \in line + 1 .. Len(file) : file[i].key # "PROCESS_NAME"
  BY <1>2 DEF Names
<1> QED
  BY <1>1, <1>3

(* The reader stops at the last line of the next process.                  *)
LEMMA ReadsNext ==
  ASSUME IsFile, WellFormed, line \in 0 .. Len(file), Followed, NEW n, IsNext(n, line)
  PROVE  \E to \in 1 .. Len(file) :
           /\ LastRead(line + 1, ProcessKeys) = to /\ n <= to /\ to \in Block(n)
           /\ \A key \in ProcessKeys : \E x \in Block(n) : /\ {i \in line + 1 .. to : file[i].key = key} = {x}
                                                           /\ {i \in Block(n) : file[i].key = key} = {x}
           /\ \A i \in to + 1 .. Len(file) : file[i].key \in ProcessKeys => \E m \in Names : to < m /\ m <= i
<1>1. /\ line \in Nat /\ line + 1 \in Nat \ {0} /\ n \in 1 .. Len(file) /\ n \in Nat /\ Len(file) \in Nat
      /\ n \in Names /\ line < n /\ Names \subseteq 1 .. Len(file) /\ Names \subseteq Nat
  BY NamesAre DEF IsFile, IsNext
<1>2. IsFiniteSet(Lines(n)) /\ Cardinality(Lines(n)) = Cardinality(ProcessKeys)
  BY <1>1, LinesAre
<1>3. \A i \in Lines(n) : i \in n .. Len(file) /\ file[i].key \in ProcessKeys /\ i \in Block(n)
  BY DEF Lines, Block
<1>4. n \in Lines(n)
  <2>1. file[n].key = "PROCESS_NAME" /\ "PROCESS_NAME" \in ProcessKeys
    BY <1>1, KeysAre DEF Names
  <2>2. n \in Block(n)
    BY <1>1 DEF Block
  <2> QED
    BY <2>1, <2>2 DEF Lines
<1>5. PICK to \in Lines(n) : \A i \in Lines(n) : i <= to
  <2>1. Lines(n) \in SUBSET (0 .. Len(file)) /\ Lines(n) # {}
    BY <1>1, <1>3, <1>4
  <2> QED
    BY <1>1, <2>1, GreatestNumber
<1>6. to \in n .. Len(file) /\ to \in Block(n) /\ to \in Nat
  BY <1>1, <1>3, <1>5
<1>7. PICK F : F = {j \in line + 1 .. Len(file) : Fills(j, ProcessKeys)}
  OBVIOUS
<1>8. \A j \in F : j \in Nat /\ n <= j /\ j <= Len(file) /\ file[j].key \in ProcessKeys
  <2> SUFFICES ASSUME NEW j \in F
               PROVE  n <= j
    BY <1>1, <1>7 DEF Fills
  <2>1. j \in line + 1 .. Len(file) /\ file[j].key \in ProcessKeys
    BY <1>7 DEF Fills
  <2>2. PICK m \in Names : line < m /\ m <= j
    BY <2>1 DEF Followed
  <2>3. n <= m
    BY <1>1, <2>2 DEF IsNext
  <2> QED
    BY <1>1, <2>1, <2>2, <2>3
<1>9. \A j \in n .. to : j \in Block(n)
  BY <1>1, <1>6 DEF Block
<1>10. {j \in F : j <= to} = Lines(n)
  <2>1. \A j \in F : j <= to => j \in Lines(n)
    BY <1>1, <1>6, <1>8, <1>9 DEF Lines
  <2>2. \A j \in Lines(n) : j \in F /\ j <= to
    BY <1>1, <1>3, <1>5, <1>7 DEF Fills
  <2> QED
    BY <2>1, <2>2
<1>11. LastRead(line + 1, ProcessKeys) = to
  <2>1. to \in F
    BY <1>1, <1>3, <1>5, <1>7 DEF Fills
  <2> QED
    BY <1>1, <1>2, <1>7, <1>10, <2>1, StopsAt
<1>12. ASSUME NEW key \in ProcessKeys
       PROVE  \E x \in Block(n) : /\ {i \in line + 1 .. to : file[i].key = key} = {x}
                                  /\ {i \in Block(n) : file[i].key = key} = {x}
  <2>1. PICK x \in Lines(n) : {i \in Block(n) : file[i].key = key} = {x}
    BY <1>1, LinesAre
  <2>2. x \in Block(n) /\ file[x].key = key /\ x \in line + 1 .. to
    BY <1>1, <1>3, <1>5, <1>6, <2>1
  <2>3. ASSUME NEW i \in line + 1 .. to, file[i].key = key
        PROVE  i = x
    <3>1. i \in F
      BY <1>1, <1>6, <1>7, <2>3 DEF Fills
    <3>2. i \in Block(n)
      BY <1>1, <1>6, <1>8, <1>9, <2>3, <3>1
    <3> QED
      BY <2>1, <2>3, <3>2
  <2>4. {i \in line + 1 .. to : file[i].key = key} = {x}
    BY <2>2, <2>3
  <2> QED
    BY <2>1, <2>2, <2>4
<1>13. ASSUME NEW i \in to + 1 .. Len(file), file[i].key \in ProcessKeys
       PROVE  \E m \in Names : to < m /\ m <= i
  <2>1. i \notin Lines(n) /\ i \in n .. Len(file)
    BY <1>1, <1>5, <1>6, <1>13
  <2>2. i \notin Block(n)
    BY <1>13, <2>1 DEF Lines
  <2>3. PICK m \in Names : ~(m <= n) /\ ~(i < m)
    BY <2>1, <2>2 DEF Block
  <2>4. m <= n \/ to < m
    BY <1>6 DEF Block
  <2> QED
    BY <1>1, <2>1, <2>3, <2>4
<1>14. to \in 1 .. Len(file) /\ n <= to
  BY <1>1, <1>6
<1> QED
  BY <1>6, <1>11, <1>12, <1>13, <1>14

(* Reading the features reads no process.                                  *)
LEMMA FeaturesKeep ==
  ASSUME IsFile, WellFormed, ReadInv, ReadFeatures
  PROVE  ReadInv'
<1>1. /\ reading = "features" /\ reading' \in {"count", "failed"} /\ UNCHANGED <<file, line, procs, procCount>>
      /\ settings' = Filled(settings, 1, LastRead(1, FeatureKeys), FeatureKeys)
  BY DEF ReadFeatures
<1>2. DOMAIN settings' = FeatureKeys \cup ProcessKeys
  BY <1>1, FilledDomain DEF ReadInv
<1>3. procs' = << >> /\ line' = 0 /\ procCount' = 0 /\ Len(file) \in Nat
  BY <1>1 DEF ReadInv, IsFile
<1>4. Begun(line)' = 0
  BY <1>3, <1>1, NoneBegun, FileStays
<1>5. procs' \in Seq(Launched') /\ LaunchedRight'
  BY <1>3 DEF LaunchedRight
<1> QED
  BY <1>1, <1>2, <1>3, <1>4, <1>5 DEF ReadInv

(* Counting counts the names, and goes back to the first line.             *)
LEMMA CountKeeps ==
  ASSUME IsFile, WellFormed, ReadInv, CountProcess
  PROVE  ReadInv'
<1>1. PICK to, held, counted, more :
        /\ to = LastRead(line + 1, {"PROCESS_NAME"})
        /\ held = [settings EXCEPT !["PROCESS_NAME"] = ""]
        /\ counted = Filled(held, line + 1, to, {"PROCESS_NAME"})
        /\ more = (counted["PROCESS_NAME"] # "")
        /\ reading = "count" /\ settings' = counted
        /\ procCount' = (IF more THEN (procCount + 1) % 256 ELSE procCount)
        /\ line' = (IF more THEN to ELSE 0)
        /\ reading' = (IF more THEN "count" ELSE "processes")
        /\ UNCHANGED <<file, sglteTarget, serviceMask, procs>>
  BY DEF CountProcess
<1>2. /\ DOMAIN settings = FeatureKeys \cup ProcessKeys /\ line \in 0 .. Len(file) /\ line \in Nat
      /\ Len(file) \in Nat /\ procCount = Begun(line) /\ procs = << >>
  <2>1. reading = "count"
    BY <1>1
  <2> QED
    BY <2>1 DEF ReadInv, IsFile
<1>3. /\ DOMAIN held = DOMAIN settings /\ "PROCESS_NAME" \in DOMAIN held /\ held["PROCESS_NAME"] = ""
  <2>1. held = [settings EXCEPT !["PROCESS_NAME"] = ""] /\ "PROCESS_NAME" \in DOMAIN settings
    BY <1>1, <1>2, KeysAre
  <2> QED
    BY <2>1
<1>4. DOMAIN settings' = FeatureKeys \cup ProcessKeys
  <2>1. settings' = counted /\ counted = Filled(held, line + 1, to, {"PROCESS_NAME"})
    BY <1>1
  <2>2. DOMAIN counted = DOMAIN held
    BY <2>1, FilledDomain
  <2> QED
    BY <1>2, <1>3, <2>1, <2>2
<1>5. procs' = << >> /\ procs' \in Seq(Launched') /\ LaunchedRight'
  <2>1. procs' = << >>
    BY <1>1, <1>2
  <2> QED
    BY <2>1 DEF LaunchedRight
<1>6. /\ Names' = Names /\ \A k : Begun(k)' = Begun(k)
      /\ Begun(line) \in Nat /\ Cardinality(Names) \in Nat /\ Cardinality(Names) < 256
  BY <1>1, <1>2, FileStays, BegunIs DEF WellFormed
<1>7. CASE \E n \in Names : line < n
  <2>1. PICK n : IsNext(n, line)
    BY <1>2, <1>7, NextName
  <2>2. to = n /\ n \in 1 .. Len(file) /\ n \in Nat /\ {i \in line + 1 .. to : file[i].key = "PROCESS_NAME"} = {n}
    <3>1. to = LastRead(line + 1, {"PROCESS_NAME"})
      BY <1>1
    <3>2. /\ LastRead(line + 1, {"PROCESS_NAME"}) = n /\ n \in 1 .. Len(file)
          /\ {i \in line + 1 .. n : file[i].key = "PROCESS_NAME"} = {n}
      BY <1>2, <2>1, CountsNext
    <3>3. n \in Nat
      BY <1>2, <3>2
    <3> QED
      BY <3>1, <3>2, <3>3
  <2>3. counted["PROCESS_NAME"] = Trimmed("PROCESS_NAME", file[n].value)
    <3>1. counted = Filled(held, line + 1, to, {"PROCESS_NAME"})
      BY <1>1
    <3>2. line + 1 \in Nat \ {0} /\ to \in Nat /\ "PROCESS_NAME" \in {"PROCESS_NAME"}
      BY <1>2, <2>2
    <3>3. PICK from, keys, key : from = line + 1 /\ keys = {"PROCESS_NAME"} /\ key = "PROCESS_NAME"
      OBVIOUS
    <3>4. /\ from \in Nat \ {0} /\ key \in keys /\ key \in DOMAIN held
          /\ {i \in from .. to : file[i].key = key} = {n}
      BY <1>3, <2>2, <3>2, <3>3
    <3>5. Filled(held, from, to, keys)[key] = Trimmed(key, file[n].value)
      BY <3>2, <3>4, ReadOne
    <3> QED
      BY <3>1, <3>3, <3>5
  <2>4. more = TRUE
    BY <1>1, <2>1, <2>3, KeysAre DEF Trimmed, WellFormed, IsNext
  <2>5. Begun(n) = Begun(line) + 1 /\ Begun(n) <= Cardinality(Names)
    BY <1>2, <2>1, <2>2, NextBegun, BegunIs DEF IsNext
  <2>6. line' = n /\ reading' = "count" /\ procCount' = (Begun(line) + 1) % 256
    BY <1>1, <1>2, <2>2, <2>4
  <2>7. procCount' = Begun(n)
    BY <1>6, <2>5, <2>6
  <2>8. Begun(line)' = Begun(n) /\ line' \in 0 .. Len(file')
    <3>1. Names' = Names /\ line' = n /\ file' = file
      BY <1>1, <1>6, <2>6
    <3>2. Begun(line)' = Begun(n)
      BY <3>1 DEF Begun
    <3>3. n \in 0 .. Len(file)
      BY <1>2, <2>2
    <3> QED
      BY <3>1, <3>2, <3>3
  <2> QED
    BY <1>4, <1>5, <2>6, <2>7, <2>8 DEF ReadInv
<1>8. CASE ~(\E n \in Names : line < n)
  <2>1. {i \in line + 1 .. to : file[i].key = "PROCESS_NAME"} = {}
    <3>1. to = Len(file)
      <4>1. {i \in line + 1 .. Len(file) : Fills(i, {"PROCESS_NAME"})} = {}
        BY <1>2, <1>8, CountsNoMore DEF Fills
      <4>2. PICK enough : enough = {i \in {j \in line + 1 .. Len(file) : Fills(j, {"PROCESS_NAME"})} :
                Cardinality({j \in {k \in line + 1 .. Len(file) : Fills(k, {"PROCESS_NAME"})} : j <= i})
                  = Cardinality({"PROCESS_NAME"})}
        OBVIOUS
      <4>3. enough = {}
        BY <4>1, <4>2
      <4> QED
        BY <1>1, <4>2, <4>3 DEF LastRead
    <3> QED
      BY <1>2, <1>8, <3>1, CountsNoMore
  <2>2. counted["PROCESS_NAME"] = ""
    <3>1. counted = Filled(held, line + 1, to, {"PROCESS_NAME"})
      BY <1>1
    <3>2. PICK from, keys, key : from = line + 1 /\ keys = {"PROCESS_NAME"} /\ key = "PROCESS_NAME"
      OBVIOUS
    <3>3. key \in DOMAIN held /\ {i \in from .. to : file[i].key = key} = {}
      BY <1>3, <2>1, <3>2
    <3>4. Filled(held, from, to, keys)[key] = held[key]
      BY <3>3, ReadNone
    <3> QED
      BY <1>3, <3>1, <3>2, <3>4
  <2>3. more = FALSE
    BY <1>1, <2>2
  <2>4. line' = 0 /\ reading' = "processes" /\ procCount' = Begun(line)
    BY <1>1, <1>2, <2>3
  <2>5. Begun(line) = Cardinality(Names)
    <3>1. \A n \in Names : n <= line
      BY <1>2, <1>8, NamesAre
    <3> QED
      BY <1>2, <3>1, AllBegun
  <2>6. Begun(line)' = 0
    BY <1>6, <2>4, NoneBegun
  <2>7. \A i \in 1 .. Len(file) : file[i].key \in ProcessKeys => \E n \in Names : 0 < n /\ n <= i
    <3>1. \A n \in Names : n \in Nat /\ 0 < n
      BY NamesAre
    <3>2. \A i \in DOMAIN file : file[i].key \in ProcessKeys => \E n \in Names : n <= i
      BY DEF WellFormed
    <3>3. DOMAIN file = 1 .. Len(file)
      BY DEF IsFile
    <3> QED
      BY <3>1, <3>2, <3>3
  <2>8. Followed'
    <3>1. Len(procs') = 0 /\ line' + 1 = 1
      BY <1>5, <2>4
    <3> QED
      BY <1>1, <1>6, <2>4, <2>6, <2>7, <3>1 DEF Followed
  <2>9. line' \in 0 .. Len(file')
    <3>1. file' = file
      BY <1>1
    <3>2. 0 \in 0 .. Len(file)
      BY <1>2
    <3> QED
      BY <2>4, <3>1, <3>2
  <2>10. procCount' = Cardinality(Names')
    BY <1>6, <2>4, <2>5
  <2> QED
    BY <1>4, <1>5, <2>4, <2>8, <2>9, <2>10 DEF ReadInv
<1> QED
  BY <1>7, <1>8

(* Reading a process reads the lines of the next name.                     *)
LEMMA ReadKeeps ==
  ASSUME IsFile, WellFormed, ReadInv, ReadProcess
  PROVE  ReadInv'
<1>1. PICK to, held, process :
        /\ to = LastRead(line + 1, ProcessKeys)
        /\ held = Filled(settings, line + 1, to, ProcessKeys)
        /\ process = ProcessOf(held, serviceMask)
        /\ reading = "processes" /\ Len(procs) < procCount
        /\ settings' = AfterSplitting(held) /\ line' = to /\ procs' = Append(procs, process)
        /\ UNCHANGED <<file, sglteTarget, serviceMask, procCount, reading>>
  BY DEF ReadProcess
<1>2. /\ DOMAIN settings = FeatureKeys \cup ProcessKeys /\ line \in 0 .. Len(file) /\ line \in Nat
      /\ Len(file) \in Nat /\ procCount = Cardinality(Names) /\ Followed
      /\ procs \in Seq(Launched) /\ LaunchedRight
  BY <1>1 DEF ReadInv, IsFile
<1>3. Begun(line) = Len(procs) /\ Begun(line) < Cardinality(Names)
  BY <1>1, <1>2 DEF Followed
<1>4. \E n \in Names : line < n
  <2> SUFFICES ASSUME \A n \in Names : ~(line < n)
               PROVE  FALSE
    OBVIOUS
  <2>1. \A n \in Names : n <= line
    BY <1>2, NamesAre
  <2>2. Begun(line) = Cardinality(Names)
    BY <1>2, <2>1, AllBegun
  <2> QED
    BY <1>2, <1>3, <2>2, BegunIs
<1>5. PICK n : IsNext(n, line)
  BY <1>2, <1>4, NextName
<1>6. /\ to \in 1 .. Len(file) /\ n <= to /\ to \in Block(n)
      /\ \A key \in ProcessKeys : \E x \in Block(n) : /\ {i \in line + 1 .. to : file[i].key = key} = {x}
                                                      /\ {i \in Block(n) : file[i].key = key} = {x}
      /\ \A i \in to + 1 .. Len(file) : file[i].key \in ProcessKeys => \E m \in Names : to < m /\ m <= i
  <2>1. \E z \in 1 .. Len(file) :
           /\ LastRead(line + 1, ProcessKeys) = z /\ n <= z /\ z \in Block(n)
           /\ \A key \in ProcessKeys : \E x \in Block(n) : /\ {i \in line + 1 .. z : file[i].key = key} = {x}
                                                           /\ {i \in Block(n) : file[i].key = key} = {x}
           /\ \A i \in z + 1 .. Len(file) : file[i].key \in ProcessKeys => \E m \in Names : z < m /\ m <= i
    BY <1>2, <1>5, ReadsNext
  <2> QED
    BY <1>1, <2>1
<1>7. n \in Names /\ n \in Nat /\ to \in Nat /\ line + 1 \in Nat \ {0}
  BY <1>2, <1>5, <1>6, NamesAre DEF IsNext
<1>8. Agree(held, Own(n))
  <2> SUFFICES ASSUME NEW key \in ProcessKeys
               PROVE  held[key] = Own(n)[key]
    BY DEF Agree
  <2>1. PICK x \in Block(n) : /\ {i \in line + 1 .. to : file[i].key = key} = {x}
                              /\ {i \in Block(n) : file[i].key = key} = {x}
    BY <1>6
  <2>2. held[key] = Trimmed(key, file[x].value)
    BY <1>1, <1>2, <1>7, <2>1, ReadOne, SMTT(30)
  <2>3. (CHOOSE i \in Block(n) : file[i].key = key) = x
    <3>1. \A i \in Block(n) : file[i].key = key <=> i = x
      BY <2>1
    <3> QED
      BY <3>1
  <2>4. Own(n)[key] = Trimmed(key, file[x].value)
    BY <2>3 DEF Own
  <2> QED
    BY <2>2, <2>4
<1>9. process = ProcessOf(Own(n), serviceMask) /\ process \in Launched
  BY <1>1, <1>7, <1>8, SameProcess DEF Launched
<1>10. /\ Names' = Names /\ \A k : Begun(k)' = Begun(k) /\ Own(k)' = Own(k)
  BY <1>1, FileStays
<1>11. Launched' = Launched /\ \A m : ProcessOf(Own(m), serviceMask)' = ProcessOf(Own(m), serviceMask)
  <2>1. UNCHANGED <<file, sglteTarget, serviceMask>>
    BY <1>1
  <2> QED
    BY <2>1, RightStays, ProcessStays
<1>12. Begun(to) = Len(procs) + 1 /\ Begun(n) = Len(procs) + 1
  <2>1. Begun(n) = Begun(line) + 1
    BY <1>2, <1>5, NextBegun DEF IsNext
  <2>2. Begun(to) = Begun(n)
    <3>1. \A m \in Names : m <= n \/ to < m
      BY <1>6 DEF Block
    <3> QED
      BY <1>6, <1>7, <3>1, BegunStays
  <2> QED
    BY <1>3, <2>1, <2>2
<1>13. /\ procs' \in Seq(Launched) /\ Len(procs') = Len(procs) + 1 /\ DOMAIN procs' = 1 .. Len(procs) + 1
       /\ Len(procs) \in Nat /\ DOMAIN procs = 1 .. Len(procs)
       /\ \A i \in 1 .. Len(procs) : procs'[i] = procs[i]
       /\ procs'[Len(procs) + 1] = process
  BY <1>1, <1>2, <1>9, AppendProperties, LenProperties
<1>14. LaunchedRight'
  <2> SUFFICES ASSUME NEW i \in DOMAIN procs'
               PROVE  \E m \in Names : Begun(m) = i /\ procs'[i] = ProcessOf(Own(m), serviceMask)
    BY <1>10, <1>11 DEF LaunchedRight
  <2>1. CASE i \in DOMAIN procs
    BY <1>2, <1>13, <2>1 DEF LaunchedRight
  <2>2. CASE i = Len(procs) + 1
    BY <1>7, <1>9, <1>12, <1>13, <2>2
  <2> QED
    BY <1>13, <2>1, <2>2
<1>15. Followed'
  <2>1. Begun(line)' = Len(procs')
    BY <1>1, <1>10, <1>12, <1>13
  <2> QED
    BY <1>1, <1>6, <1>10, <2>1 DEF Followed
<1>16. DOMAIN settings' = FeatureKeys \cup ProcessKeys
  <2>1. DOMAIN held = FeatureKeys \cup ProcessKeys
    BY <1>1, <1>2, FilledDomain
  <2> QED
    BY <1>1, <2>1 DEF AfterSplitting
<1>17. line' \in 0 .. Len(file') /\ reading' = "processes" /\ procCount' = Cardinality(Names')
  BY <1>1, <1>2, <1>6, <1>10
<1>18. procs' \in Seq(Launched')
  BY <1>11, <1>13
<1> QED
  BY <1>14, <1>15, <1>16, <1>17, <1>18 DEF ReadInv

(* The list of processes is made in the order of the file, one for each    *)
(* name, from the lines between that name and the next.                    *)
THEOREM ConfigHolds == ConfigSpec => []ConfigInv
<1>1. ConfigInit => ConfigInv
  <2> SUFFICES ASSUME ConfigInit
               PROVE  ConfigInv
    OBVIOUS
  <2>1. /\ IsFile /\ line = 0 /\ procs = << >> /\ procCount = 0 /\ reading = "features"
        /\ DOMAIN settings = FeatureKeys \cup ProcessKeys /\ Len(file) \in Nat
    BY DEF ConfigInit, IsFile
  <2>2. procs \in Seq(Launched) /\ LaunchedRight
    BY <2>1 DEF LaunchedRight
  <2> QED
    BY <2>1, <2>2 DEF ConfigInv, ReadInv
<1>2. ConfigInv /\ [ConfigNext]_confVars => ConfigInv'
  <2> SUFFICES ASSUME ConfigInv, [ConfigNext]_confVars
               PROVE  ConfigInv'
    OBVIOUS
  <2>1. UNCHANGED file
    BY DEF ConfigNext, ReadFeatures, CountProcess, ReadProcess, confVars
  <2>2. IsFile /\ IsFile' /\ (WellFormed' <=> WellFormed)
    BY <2>1, FileStays DEF ConfigInv
  <2>3. CASE ConfigNext
    BY <2>2, <2>3, FeaturesKeep, CountKeeps, ReadKeeps DEF ConfigNext, ConfigInv
  <2>4. CASE UNCHANGED confVars
    <3>1. /\ Names' = Names /\ \A k : Begun(k)' = Begun(k) /\ Own(k)' = Own(k)
      BY <2>1, <2>2, FileStays
    <3>2. UNCHANGED <<file, line, settings, serviceMask, procs, procCount, reading>>
      BY <2>4 DEF confVars
    <3>3. Launched' = Launched /\ (LaunchedRight' <=> LaunchedRight)
      BY <2>2, <2>4, RightStays DEF confVars
    <3>5. Followed' <=> Followed
      BY <3>1, <3>2 DEF Followed, Begun
    <3>4. ReadInv => ReadInv'
      BY <3>1, <3>2, <3>3, <3>5 DEF ReadInv, Begun
    <3> QED
      BY <2>2, <3>4 DEF ConfigInv
  <2> QED
    BY <2>3, <2>4
<1> QED
  BY <1>1, <1>2, PTL DEF ConfigSpec

(* In a file whose processes have all their lines, each is launched with   *)
(* what its own lines say, in their order, and none is forgotten.          *)
THEOREM LaunchedByTheirLines == ConfigSpec => []LaunchedAsConfigured
<1>1. ConfigInv => LaunchedAsConfigured
  BY DEF ConfigInv, ReadInv, LaunchedRight, LaunchedAsConfigured
<1> QED
  BY <1>1, ConfigHolds, PTL

-----------------------------------------------------------------------------
(* NMEA sentences.  The lesser of two numbers.                             *)
LEMMA LesserIs ==
  ASSUME NEW a \in Nat, NEW b \in Nat
  PROVE  Min({a, b}) = IF a <= b THEN a ELSE b
<1>1. {a, b} \in SUBSET Nat
  OBVIOUS
<1>2. CASE a <= b
  <2>1. \A y \in {a, b} : a <= y
    BY <1>2
  <2> QED
    BY <1>1, <1>2, <2>1, MinIs
<1>3. CASE ~(a <= b)
  <2>1. \A y \in {a, b} : b <= y
    BY <1>3
  <2> QED
    BY <1>1, <1>3, <2>1, MinIs
<1> QED
  BY <1>2, <1>3

(* The place of a number in a set of numbers grows with it.                *)
LEMMA PlacesGrow ==
  ASSUME NEW n \in Nat, NEW S \in SUBSET (1 .. n), NEW x \in S
  PROVE  /\ IsFiniteSet(S) /\ Cardinality(S) \in Nat /\ Cardinality(S) <= n
         /\ Cardinality(S \cap 1 .. x) \in 1 .. Cardinality(S)
         /\ \A y \in S : x < y => Cardinality(S \cap 1 .. x) < Cardinality(S \cap 1 .. y)
<1>1. IsFiniteSet(1 .. n) /\ Cardinality(1 .. n) = n
  BY FS_Interval
<1>2. IsFiniteSet(S) /\ Cardinality(S) \in Nat /\ Cardinality(S) <= n
  BY <1>1, FS_Subset, FS_CardinalityType
<1>3. \A k : /\ IsFiniteSet(S \cap 1 .. k)
             /\ Cardinality(S \cap 1 .. k) \in Nat /\ Cardinality(S \cap 1 .. k) <= Cardinality(S)
  BY <1>2, FS_Subset, FS_CardinalityType
<1>4. x \in S \cap 1 .. x
  OBVIOUS
<1>5. Cardinality(S \cap 1 .. x) # 0
  BY <1>3, <1>4, FS_EmptySet
<1>6. ASSUME NEW y \in S, x < y
      PROVE  Cardinality(S \cap 1 .. x) < Cardinality(S \cap 1 .. y)
  <2>1. S \cap 1 .. x \in SUBSET (S \cap 1 .. y) /\ y \in S \cap 1 .. y /\ y \notin S \cap 1 .. x
    BY <1>6
  <2>2. /\ Cardinality(S \cap 1 .. x) <= Cardinality(S \cap 1 .. y)
        /\ Cardinality(S \cap 1 .. x) # Cardinality(S \cap 1 .. y)
    BY <1>3, <2>1, FS_Subset
  <2> QED
    BY <1>3, <2>2
<1> QED
  BY <1>2, <1>3, <1>5, <1>6

(* The first, the second, and so on of a set of numbers.                   *)
LEMMA NthIs ==
  ASSUME NEW n \in Nat, NEW S \in SUBSET (1 .. n)
  PROVE  /\ \A j \in 1 .. Cardinality(S) :
              NthOf(j, S) \in S /\ Cardinality(S \cap 1 .. NthOf(j, S)) = j
         /\ \A x \in S : NthOf(Cardinality(S \cap 1 .. x), S) = x
<1>1. ASSUME NEW j \in 1 .. Cardinality(S)
      PROVE  NthOf(j, S) \in S /\ Cardinality(S \cap 1 .. NthOf(j, S)) = j
  <2>1. \E x \in S : Cardinality(S \cap 1 .. x) = j
    BY NthOfNumbers
  <2> QED
    BY <2>1 DEF NthOf
<1>2. ASSUME NEW x \in S
      PROVE  NthOf(Cardinality(S \cap 1 .. x), S) = x
  <2>1. PICK j : j = Cardinality(S \cap 1 .. x)
    OBVIOUS
  <2>2. j \in 1 .. Cardinality(S)
    BY <2>1, PlacesGrow
  <2>3. PICK y : y = NthOf(j, S)
    OBVIOUS
  <2>4. y \in S /\ Cardinality(S \cap 1 .. y) = j
    BY <1>1, <2>2, <2>3
  <2>5. j \in Nat /\ ~(j < j)
    BY <2>2
  <2>6. ~(x < y) /\ ~(y < x)
    BY <2>1, <2>4, <2>5, PlacesGrow
  <2>7. x \in Nat /\ y \in Nat
    BY <2>4
  <2> QED
    BY <2>1, <2>3, <2>6, <2>7
<1> QED
  BY <1>1, <1>2

(* The lowest of a set of numbers, as many as fit, and each moved by off.   *)
LowestAre(S, room, off) ==
  LET shown == Min({room, Cardinality(S)})
      ids == {NthOf(i, S) + off : i \in 1 .. shown}
      used == {x + off : x \in S}
  IN  /\ ids \subseteq used
      /\ Cardinality(ids) = Min({room, Cardinality(used)})
      /\ \A id \in ids, other \in used \ ids : id < other

(* These are the first of them that NthOf finds.                           *)
LEMMA LowestFirst ==
  ASSUME NEW n \in Nat, NEW S \in SUBSET (1 .. n), NEW room \in Nat, NEW off \in Nat
  PROVE  LowestAre(S, room, off)
<1> SUFFICES ASSUME NEW shown, shown = Min({room, Cardinality(S)}),
                    NEW ids, ids = {NthOf(i, S) + off : i \in 1 .. shown},
                    NEW used, used = {x + off : x \in S}
             PROVE  /\ ids \subseteq used
                    /\ Cardinality(ids) = Min({room, Cardinality(used)})
                    /\ \A id \in ids, other \in used \ ids : id < other
  BY DEF LowestAre
<1>1. IsFiniteSet(S) /\ Cardinality(S) \in Nat
  <2>1. IsFiniteSet(1 .. n)
    BY FS_Interval
  <2> QED
    BY <2>1, FS_Subset, FS_CardinalityType
<1>2. shown \in Nat /\ shown <= Cardinality(S)
  BY <1>1, LesserIs
<1>3. ASSUME NEW i \in 1 .. shown
      PROVE  \E y \in S : NthOf(i, S) = y /\ Cardinality(S \cap 1 .. y) = i /\ y \in Nat
  <2>1. i \in 1 .. Cardinality(S)
    BY <1>1, <1>2
  <2>2. PICK y : y = NthOf(i, S)
    OBVIOUS
  <2>3. y \in S /\ Cardinality(S \cap 1 .. y) = i
    BY <2>1, <2>2, NthIs
  <2>4. y \in Nat
    BY <2>3
  <2> QED
    BY <2>2, <2>3, <2>4
<1>4. ids \subseteq used
  BY <1>3
<1>5. IsFiniteSet(used) /\ Cardinality(used) = Cardinality(S)
  <2> DEFINE shift == [x \in S |-> x + off]
  <2>1. \A x \in S : x \in Nat
    OBVIOUS
  <2>2. shift \in [S -> used] /\ \A x, y \in S : shift[x] = shift[y] => x = y
    BY <2>1
  <2>3. \A u \in used : \E x \in S : shift[x] = u
    OBVIOUS
  <2> HIDE DEF shift
  <2>4. shift \in Bijection(S, used)
    BY <2>2, <2>3 DEF Bijection, Injection, Surjection, IsInjective
  <2> QED
    BY <1>1, <2>4, FS_Bijection DEF ExistsBijection
<1>6. Cardinality(ids) = shown
  <2> DEFINE name == [i \in 1 .. shown |-> NthOf(i, S) + off]
  <2>1. name \in [1 .. shown -> ids] /\ \A u \in ids : \E i \in 1 .. shown : name[i] = u
    OBVIOUS
  <2>2. ASSUME NEW i \in 1 .. shown, NEW j \in 1 .. shown, name[i] = name[j]
        PROVE  i = j
    <3>1. PICK y \in S : NthOf(i, S) = y /\ Cardinality(S \cap 1 .. y) = i /\ y \in Nat
      BY <1>3
    <3>2. PICK z \in S : NthOf(j, S) = z /\ Cardinality(S \cap 1 .. z) = j /\ z \in Nat
      BY <1>3
    <3>3. y = z
      BY <2>2, <3>1, <3>2
    <3> QED
      BY <3>1, <3>2, <3>3
  <2> HIDE DEF name
  <2>3. name \in Bijection(1 .. shown, ids)
    BY <2>1, <2>2 DEF Bijection, Injection, Surjection, IsInjective
  <2>4. IsFiniteSet(1 .. shown) /\ Cardinality(1 .. shown) = shown
    BY <1>2, FS_Interval
  <2> QED
    BY <2>3, <2>4, FS_Bijection DEF ExistsBijection
<1>7. ASSUME NEW id \in ids, NEW other \in used \ ids
      PROVE  id < other
  <2>1. PICK i \in 1 .. shown : id = NthOf(i, S) + off
    OBVIOUS
  <2>2. PICK x \in S : other = x + off
    OBVIOUS
  <2>3. PICK j : j = Cardinality(S \cap 1 .. x)
    OBVIOUS
  <2>4. j \in 1 .. Cardinality(S) /\ NthOf(j, S) = x
    BY <2>3, NthIs, PlacesGrow
  <2>5. j \notin 1 .. shown
    BY <1>7, <2>2, <2>4
  <2>6. i < j
    BY <1>1, <1>2, <2>4, <2>5
  <2>7. PICK y \in S : NthOf(i, S) = y /\ Cardinality(S \cap 1 .. y) = i /\ y \in Nat
    BY <1>3
  <2>8. x \in Nat
    OBVIOUS
  <2>9. ~(x < y) /\ x # y
    <3>1. x < y => Cardinality(S \cap 1 .. x) < Cardinality(S \cap 1 .. y)
      BY PlacesGrow
    <3>2. ~(j < i) /\ i # j
      BY <1>1, <1>2, <2>4, <2>6
    <3> QED
      BY <2>3, <2>7, <3>1, <3>2
  <2> QED
    BY <2>1, <2>2, <2>7, <2>8, <2>9
<1> QED
  BY <1>4, <1>5, <1>6, <1>7

(* The sentences of one system stand together, as they were made.          *)
Placed(s, X, p, mid) ==
  /\ {k \in DOMAIN s : s[k] \in X} = p + 1 .. p + Len(mid)
  /\ \A j \in 1 .. Len(mid) : p + j \in DOMAIN s /\ s[p + j] = mid[j]
Lacks(s, X) == \A k \in DOMAIN s : s[k] \notin X

(* What is joined has the entries of both.                                 *)
LEMMA Joined ==
  ASSUME NEW R, NEW s \in Seq(R), NEW t \in Seq(R)
  PROVE  /\ s \o t \in Seq(R) /\ Len(s) \in Nat /\ Len(t) \in Nat
         /\ DOMAIN (s \o t) = 1 .. Len(s) + Len(t)
         /\ \A k \in 1 .. Len(s) : (s \o t)[k] = s[k]
         /\ \A k \in 1 .. Len(t) : (s \o t)[Len(s) + k] = t[k]
         /\ \A k \in Len(s) + 1 .. Len(s) + Len(t) : (s \o t)[k] = t[k - Len(s)]
         /\ DOMAIN s = 1 .. Len(s) /\ DOMAIN t = 1 .. Len(t)
<1>1. PICK u : u = s \o t
  OBVIOUS
<1>2. /\ Len(s) \in Nat /\ Len(t) \in Nat
      /\ DOMAIN s = 1 .. Len(s) /\ DOMAIN t = 1 .. Len(t)
  BY LenProperties
<1>3. /\ u \in Seq(R) /\ Len(u) = Len(s) + Len(t)
      /\ \A i \in 1 .. Len(s) + Len(t) : u[i] = IF i <= Len(s) THEN s[i] ELSE t[i - Len(s)]
  BY <1>1, ConcatProperties
<1>4. DOMAIN u = 1 .. Len(s) + Len(t)
  BY <1>3, LenProperties
<1>5. \A k \in 1 .. Len(s) : u[k] = s[k]
  BY <1>2, <1>3
<1>6. \A k \in 1 .. Len(t) : u[Len(s) + k] = t[k]
  <2> SUFFICES ASSUME NEW k \in 1 .. Len(t)
               PROVE  u[Len(s) + k] = t[k]
    OBVIOUS
  <2>1. PICK i : i = Len(s) + k
    OBVIOUS
  <2>2. i \in 1 .. Len(s) + Len(t) /\ ~(i <= Len(s)) /\ i - Len(s) = k
    BY <1>2, <2>1
  <2> QED
    BY <1>3, <2>1, <2>2
<1>7. \A k \in Len(s) + 1 .. Len(s) + Len(t) : u[k] = t[k - Len(s)]
  <2> SUFFICES ASSUME NEW k \in Len(s) + 1 .. Len(s) + Len(t)
               PROVE  u[k] = t[k - Len(s)]
    OBVIOUS
  <2>1. k \in 1 .. Len(s) + Len(t) /\ ~(k <= Len(s))
    BY <1>2
  <2> QED
    BY <1>3, <2>1
<1> QED
  BY <1>1, <1>2, <1>3, <1>4, <1>5, <1>6, <1>7

(* What neither of two sequences has, both of them do not have.            *)
LEMMA NoneOfBoth ==
  ASSUME NEW R, NEW s \in Seq(R), NEW t \in Seq(R), NEW X, Lacks(s, X), Lacks(t, X)
  PROVE  Lacks(s \o t, X)
<1>1. PICK u : u = s \o t
  OBVIOUS
<1>2. /\ Len(s) \in Nat /\ Len(t) \in Nat /\ DOMAIN u = 1 .. Len(s) + Len(t)
      /\ \A k \in 1 .. Len(s) : u[k] = s[k]
      /\ \A k \in Len(s) + 1 .. Len(s) + Len(t) : u[k] = t[k - Len(s)]
      /\ DOMAIN s = 1 .. Len(s) /\ DOMAIN t = 1 .. Len(t)
  BY <1>1, Joined
<1>3. ASSUME NEW k \in DOMAIN u
      PROVE  u[k] \notin X
  <2>1. CASE k \in 1 .. Len(s)
    BY <1>2, <2>1 DEF Lacks
  <2>2. CASE k \in Len(s) + 1 .. Len(s) + Len(t)
    <3>1. k - Len(s) \in DOMAIN t
      BY <1>2, <2>2
    <3> QED
      BY <1>2, <2>2, <3>1 DEF Lacks
  <2> QED
    BY <1>2, <2>1, <2>2
<1> QED
  BY <1>1, <1>3 DEF Lacks

(* They stay where they are when others follow.                            *)
LEMMA PlacedBefore ==
  ASSUME NEW R, NEW s \in Seq(R), NEW t \in Seq(R), NEW X, NEW p \in Nat, NEW mid \in Seq(R),
         Placed(s, X, p, mid), Lacks(t, X)
  PROVE  Placed(s \o t, X, p, mid)
<1>1. PICK u : u = s \o t
  OBVIOUS
<1>2. /\ Len(s) \in Nat /\ Len(t) \in Nat /\ DOMAIN u = 1 .. Len(s) + Len(t)
      /\ \A k \in 1 .. Len(s) : u[k] = s[k]
      /\ \A k \in Len(s) + 1 .. Len(s) + Len(t) : u[k] = t[k - Len(s)]
      /\ DOMAIN s = 1 .. Len(s) /\ DOMAIN t = 1 .. Len(t)
  BY <1>1, Joined
<1>3. \A k \in DOMAIN u : u[k] \in X <=> k \in DOMAIN s /\ s[k] \in X
  <2> SUFFICES ASSUME NEW k \in DOMAIN u
               PROVE  u[k] \in X <=> k \in DOMAIN s /\ s[k] \in X
    OBVIOUS
  <2>1. CASE k \in 1 .. Len(s)
    BY <1>2, <2>1
  <2>2. CASE k \in Len(s) + 1 .. Len(s) + Len(t)
    <3>1. k - Len(s) \in DOMAIN t /\ k \notin DOMAIN s
      BY <1>2, <2>2
    <3> QED
      BY <1>2, <2>2, <3>1 DEF Lacks
  <2> QED
    BY <1>2, <2>1, <2>2
<1>4. {k \in DOMAIN u : u[k] \in X} = {k \in DOMAIN s : s[k] \in X}
  <2>1. DOMAIN s \subseteq DOMAIN u
    BY <1>2
  <2> QED
    BY <1>3, <2>1
<1>5. \A j \in 1 .. Len(mid) : p + j \in DOMAIN u /\ u[p + j] = mid[j]
  <2> SUFFICES ASSUME NEW j \in 1 .. Len(mid)
               PROVE  p + j \in DOMAIN u /\ u[p + j] = mid[j]
    OBVIOUS
  <2>1. PICK k : k = p + j
    OBVIOUS
  <2>2. k \in DOMAIN s /\ s[k] = mid[j]
    BY <2>1 DEF Placed
  <2> QED
    BY <1>2, <2>1, <2>2
<1> QED
  BY <1>1, <1>4, <1>5 DEF Placed

(* A sequence put behind one without any is placed behind all of that.     *)
LEMMA PlacedBehind ==
  ASSUME NEW R, NEW s \in Seq(R), NEW mid \in Seq(R), NEW X, Lacks(s, X),
         \A j \in DOMAIN mid : mid[j] \in X
  PROVE  Placed(s \o mid, X, Len(s), mid)
<1>1. PICK u : u = s \o mid
  OBVIOUS
<1>2. /\ Len(s) \in Nat /\ Len(mid) \in Nat /\ DOMAIN u = 1 .. Len(s) + Len(mid)
      /\ \A k \in 1 .. Len(s) : u[k] = s[k]
      /\ \A k \in 1 .. Len(mid) : u[Len(s) + k] = mid[k]
      /\ \A k \in Len(s) + 1 .. Len(s) + Len(mid) : u[k] = mid[k - Len(s)]
      /\ DOMAIN s = 1 .. Len(s) /\ DOMAIN mid = 1 .. Len(mid)
  BY <1>1, Joined
<1>3. \A k \in 1 .. Len(s) : u[k] \notin X
  BY <1>2 DEF Lacks
<1>4. \A k \in Len(s) + 1 .. Len(s) + Len(mid) : u[k] \in X
  <2> SUFFICES ASSUME NEW k \in Len(s) + 1 .. Len(s) + Len(mid)
               PROVE  u[k] \in X
    OBVIOUS
  <2>1. k - Len(s) \in DOMAIN mid
    BY <1>2
  <2> QED
    BY <1>2, <2>1
<1>5. {k \in DOMAIN u : u[k] \in X} = Len(s) + 1 .. Len(s) + Len(mid)
  BY <1>2, <1>3, <1>4
<1>6. \A j \in 1 .. Len(mid) : Len(s) + j \in DOMAIN u
  BY <1>2
<1> QED
  BY <1>1, <1>2, <1>5, <1>6 DEF Placed

(* So it is for each of the five systems, whatever comes behind them.      *)
LEMMA FivePlaced ==
  ASSUME NEW R, NEW made \in [Types -> Seq(R)], NEW type \in Types, NEW X, NEW rest \in Seq(R),
         \A j \in DOMAIN made[type] : made[type][j] \in X,
         \A other \in Types \ {type} : Lacks(made[other], X), Lacks(rest, X),
         NEW five, five = made["GPS"] \o made["GLONASS"] \o made["GALILEO"]
                          \o made["QZSS"] \o made["BEIDOU"]
  PROVE  /\ five \in Seq(R)
         /\ \E p \in Nat : Placed(five, X, p, made[type])
         /\ \E p \in Nat : Placed(five \o rest, X, p, made[type])
<1>1. PICK a, b, c, d, e : a = made["GPS"] /\ b = made["GLONASS"] /\ c = made["GALILEO"]
                           /\ d = made["QZSS"] /\ e = made["BEIDOU"]
  OBVIOUS
<1>2. /\ a \in Seq(R) /\ b \in Seq(R) /\ c \in Seq(R) /\ d \in Seq(R) /\ e \in Seq(R)
      /\ made[type] \in Seq(R)
  BY <1>1 DEF Types
<1>3. PICK ab, abc, abcd : ab = a \o b /\ abc = ab \o c /\ abcd = abc \o d
  OBVIOUS
<1>4. five = abcd \o e
  BY <1>1, <1>3
<1>5. ab \in Seq(R)
  BY <1>2, <1>3, Joined
<1>6. abc \in Seq(R)
  BY <1>2, <1>3, <1>5, Joined
<1>7. abcd \in Seq(R)
  BY <1>2, <1>3, <1>6, Joined
<1>8. five \in Seq(R)
  BY <1>2, <1>4, <1>7, Joined
<1>9. Len(a) \in Nat /\ Len(ab) \in Nat /\ Len(abc) \in Nat /\ Len(abcd) \in Nat
  BY <1>2, <1>5, <1>6, <1>7, LenProperties
<1>10. \E p \in Nat : Placed(five, X, p, made[type])
  <2> PICK mid : mid = made[type]
    OBVIOUS
  <2>1. mid \in Seq(R) /\ \A j \in DOMAIN mid : mid[j] \in X
    BY <1>2
  <2>2. CASE type = "GPS"
    <3>1. mid = a /\ Lacks(b, X) /\ Lacks(c, X) /\ Lacks(d, X) /\ Lacks(e, X)
      BY <1>1, <2>2 DEF Types
    <3>2. Lacks(<< >>, X) /\ << >> \in Seq(R)
      BY DEF Lacks
    <3>3. << >> \o a = a
      BY <1>2, ConcatEmptySeq
    <3>4. Len(<< >>) = 0
      OBVIOUS
    <3>5. Placed(a, X, 0, mid)
      BY <2>1, <3>1, <3>2, <3>3, <3>4, PlacedBehind
    <3>6. Placed(ab, X, 0, mid)
      BY <1>2, <1>3, <2>1, <3>1, <3>5, PlacedBefore
    <3>7. Placed(abc, X, 0, mid)
      BY <1>2, <1>3, <1>5, <2>1, <3>1, <3>6, PlacedBefore
    <3>8. Placed(abcd, X, 0, mid)
      BY <1>2, <1>3, <1>6, <2>1, <3>1, <3>7, PlacedBefore
    <3>9. Placed(five, X, 0, mid)
      BY <1>2, <1>4, <1>7, <2>1, <3>1, <3>8, PlacedBefore
    <3> QED
      BY <3>9
  <2>3. CASE type = "GLONASS"
    <3>1. mid = b /\ Lacks(a, X) /\ Lacks(c, X) /\ Lacks(d, X) /\ Lacks(e, X)
      BY <1>1, <2>3 DEF Types
    <3>2. Placed(ab, X, Len(a), mid)
      BY <1>2, <1>3, <2>1, <3>1, PlacedBehind
    <3>3. Placed(abc, X, Len(a), mid)
      BY <1>2, <1>3, <1>5, <1>9, <2>1, <3>1, <3>2, PlacedBefore
    <3>4. Placed(abcd, X, Len(a), mid)
      BY <1>2, <1>3, <1>6, <1>9, <2>1, <3>1, <3>3, PlacedBefore
    <3>5. Placed(five, X, Len(a), mid)
      BY <1>2, <1>4, <1>7, <1>9, <2>1, <3>1, <3>4, PlacedBefore
    <3> QED
      BY <1>9, <3>5
  <2>4. CASE type = "GALILEO"
    <3>1. mid = c /\ Lacks(a, X) /\ Lacks(b, X) /\ Lacks(d, X) /\ Lacks(e, X)
      BY <1>1, <2>4 DEF Types
    <3>2. Lacks(ab, X)
      BY <1>2, <1>3, <3>1, NoneOfBoth
    <3>3. Placed(abc, X, Len(ab), mid)
      BY <1>2, <1>3, <1>5, <2>1, <3>1, <3>2, PlacedBehind
    <3>4. Placed(abcd, X, Len(ab), mid)
      BY <1>2, <1>3, <1>6, <1>9, <2>1, <3>1, <3>3, PlacedBefore
    <3>5. Placed(five, X, Len(ab), mid)
      BY <1>2, <1>4, <1>7, <1>9, <2>1, <3>1, <3>4, PlacedBefore
    <3> QED
      BY <1>9, <3>5
  <2>5. CASE type = "QZSS"
    <3>1. mid = d /\ Lacks(a, X) /\ Lacks(b, X) /\ Lacks(c, X) /\ Lacks(e, X)
      BY <1>1, <2>5 DEF Types
    <3>2. Lacks(ab, X)
      BY <1>2, <1>3, <3>1, NoneOfBoth
    <3>3. Lacks(abc, X)
      BY <1>2, <1>3, <1>5, <3>1, <3>2, NoneOfBoth
    <3>4. Placed(abcd, X, Len(abc), mid)
      BY <1>2, <1>3, <1>6, <2>1, <3>1, <3>3, PlacedBehind
    <3>5. Placed(five, X, Len(abc), mid)
      BY <1>2, <1>4, <1>7, <1>9, <2>1, <3>1, <3>4, PlacedBefore
    <3> QED
      BY <1>9, <3>5
  <2>6. CASE type = "BEIDOU"
    <3>1. mid = e /\ Lacks(a, X) /\ Lacks(b, X) /\ Lacks(c, X) /\ Lacks(d, X)
      BY <1>1, <2>6 DEF Types
    <3>2. Lacks(ab, X)
      BY <1>2, <1>3, <3>1, NoneOfBoth
    <3>3. Lacks(abc, X)
      BY <1>2, <1>3, <1>5, <3>1, <3>2, NoneOfBoth
    <3>4. Lacks(abcd, X)
      BY <1>2, <1>3, <1>6, <3>1, <3>3, NoneOfBoth
    <3>5. Placed(five, X, Len(abcd), mid)
      BY <1>4, <1>7, <2>1, <3>1, <3>4, <1>2, PlacedBehind
    <3> QED
      BY <1>9, <3>5
  <2> QED
    BY <2>2, <2>3, <2>4, <2>5, <2>6 DEF Types
<1>11. \E p \in Nat : Placed(five \o rest, X, p, made[type])
  <2>1. PICK p \in Nat : Placed(five, X, p, made[type])
    BY <1>10
  <2>2. Placed(five \o rest, X, p, made[type])
    BY <1>2, <1>8, <2>1, PlacedBefore
  <2> QED
    BY <2>2
<1> QED
  BY <1>8, <1>10, <1>11

(* As many sentences as it takes, of which only the last is not full.      *)
LEMMA EnoughSentences ==
  ASSUME NEW c \in Nat \ {0}
  PROVE  /\ SentenceCount(c) \in Nat \ {0}
         /\ 4 * (SentenceCount(c) - 1) < c /\ c <= 4 * SentenceCount(c)
<1>1. PICK q, r : q = c \div 4 /\ r = c % 4
  OBVIOUS
<1>2. q \in Nat /\ r \in 0 .. 3 /\ c = 4 * q + r
  BY <1>1
<1>3. SentenceCount(c) = q + (IF r # 0 THEN 1 ELSE 0)
  BY <1>1 DEF SentenceCount
<1> QED
  BY <1>2, <1>3

(* What the k-th of them names, and how many.                              *)
IdsOf(svs, type, c, k) ==
  [i \in 1 .. Min({4, c - 4 * (k - 1)}) |->
     svs[NthOf(4 * (k - 1) + i, OfType(svs, type))].id + SvIdOffset(type)]
Shown(c, k) == IF c - 4 * (k - 1) <= 4 THEN c - 4 * (k - 1) ELSE 4
SentenceOf(svs, type, c, last, sentence, k) ==
  /\ sentence.type = type /\ sentence.number = k /\ sentence.of = last /\ sentence.count = c
  /\ sentence.ids = IdsOf(svs, type, c, k)
SentencesOf(svs, type, c, last, g) ==
  /\ 4 * (last - 1) <= c /\ (c # 0 => 4 * (last - 1) < c) /\ c <= 4 * last
  /\ DOMAIN g = 1 .. last /\ Len(g) = last /\ g \in Seq({g[k] : k \in DOMAIN g})
  /\ \A k \in 1 .. last : SentenceOf(svs, type, c, last, g[k], k)

(* The sentences of one system.                                            *)
LEMMA GsvIs ==
  ASSUME NEW svs, NEW type \in Types, NEW c \in Nat, c = Cardinality(OfType(svs, type)),
         NEW g, g = GSV(type, svs)
  PROVE  \E last \in Nat \ {0} : SentencesOf(svs, type, c, last, g)
<1> DEFINE S(k, of) ==
      [kind |-> "GSV", talker |-> OwnTalker[type], type |-> type,
       number |-> k, of |-> of, count |-> c, ids |-> IdsOf(svs, type, c, k)]
<1>1. g = IF c = 0 THEN << S(1, 1) >> ELSE [k \in 1 .. SentenceCount(c) |-> S(k, SentenceCount(c))]
  BY DEF GSV, IdsOf
<1>2. \A k, of : SentenceOf(svs, type, c, of, S(k, of), k)
  BY DEF SentenceOf
<1> HIDE DEF S
<1>3. CASE c = 0
  <2>1. g = << S(1, 1) >>
    BY <1>1, <1>3
  <2>2. DOMAIN g = 1 .. 1 /\ Len(g) = 1 /\ g[1] = S(1, 1) /\ g \in Seq({g[k] : k \in DOMAIN g})
    BY <2>1
  <2>3. \A k \in 1 .. 1 : SentenceOf(svs, type, c, 1, g[k], k)
    BY <1>2, <2>2
  <2> QED
    BY <1>3, <2>2, <2>3 DEF SentencesOf
<1>4. CASE c # 0
  <2>1. PICK last : last = SentenceCount(c)
    OBVIOUS
  <2>2. last \in Nat \ {0} /\ 4 * (last - 1) < c /\ c <= 4 * last
    BY <1>4, <2>1, EnoughSentences
  <2>3. g = [k \in 1 .. last |-> S(k, last)]
    BY <1>1, <1>4, <2>1
  <2>4. DOMAIN g = 1 .. last /\ g \in [1 .. last -> {g[k] : k \in DOMAIN g}]
    BY <2>3
  <2>5. g \in Seq({g[k] : k \in DOMAIN g}) /\ Len(g) = last
    BY <2>2, <2>4
  <2>6. 4 * (last - 1) <= c
    BY <2>2
  <2>7. \A k \in 1 .. last : SentenceOf(svs, type, c, last, g[k], k)
    BY <1>2, <2>3
  <2> QED
    BY <2>2, <2>4, <2>5, <2>6, <2>7 DEF SentencesOf
<1> QED
  BY <1>3, <1>4

(* A sentence has room for four; it names those that are next.             *)
NamesThem(svs, type, g) ==
  /\ g \in Seq({g[k] : k \in DOMAIN g}) /\ Len(g) \in Nat \ {0} /\ DOMAIN g = 1 .. Len(g)
  /\ \A k \in 1 .. Len(g) :
       /\ g[k].type = type /\ g[k].number = k /\ g[k].of = Len(g)
       /\ g[k].count = Cardinality(OfType(svs, type))
       /\ Len(g[k].ids) <= 4 /\ (g[k].ids = << >> => OfType(svs, type) = {})
       /\ \A m \in DOMAIN g[k].ids : \E i \in OfType(svs, type) : NamesSv(g[k], m, svs, i)
  /\ \A i \in OfType(svs, type) : \E k \in 1 .. Len(g) : \E m \in DOMAIN g[k].ids :
       NamesSv(g[k], m, svs, i)

(* The sentences of a system name its satellites and no other.             *)
LEMMA GsvNames ==
  ASSUME NEW n \in Nat, NEW svs, DOMAIN svs = 1 .. n, NEW type \in Types,
         NEW g, g = GSV(type, svs)
  PROVE  NamesThem(svs, type, g)
<1>1. PICK own, c : own = OfType(svs, type) /\ c = Cardinality(own)
  OBVIOUS
<1>2. own \in SUBSET (1 .. n)
  BY <1>1 DEF OfType
<1>3. IsFiniteSet(own) /\ c \in Nat
  <2>1. IsFiniteSet(1 .. n)
    BY FS_Interval
  <2> QED
    BY <1>1, <1>2, <2>1, FS_Subset, FS_CardinalityType
<1>4. PICK last \in Nat \ {0} : SentencesOf(svs, type, c, last, g)
  BY <1>1, <1>3, GsvIs
<1>5. /\ 4 * (last - 1) <= c /\ (c # 0 => 4 * (last - 1) < c) /\ c <= 4 * last
      /\ DOMAIN g = 1 .. last /\ Len(g) = last /\ g \in Seq({g[k] : k \in DOMAIN g})
      /\ \A k \in 1 .. last : SentenceOf(svs, type, c, last, g[k], k)
  BY <1>4 DEF SentencesOf
<1>6. ASSUME NEW k \in 1 .. last
      PROVE  /\ DOMAIN g[k].ids = 1 .. Shown(c, k) /\ Len(g[k].ids) = Shown(c, k)
             /\ Shown(c, k) \in Nat /\ Shown(c, k) <= 4 /\ (c # 0 => Shown(c, k) # 0)
             /\ 4 * (k - 1) \in Nat /\ 4 * (k - 1) + Shown(c, k) <= c
             /\ \A m \in 1 .. Shown(c, k) :
                  g[k].ids[m] = svs[NthOf(4 * (k - 1) + m, own)].id + SvIdOffset(type)
  <2>1. PICK before, room : before = 4 * (k - 1) /\ room = c - 4 * (k - 1)
    OBVIOUS
  <2>2. k \in Nat /\ last \in Nat /\ k >= 1 /\ k <= last /\ (k < last => k <= last - 1)
    BY <1>5
  <2>3. before \in Nat /\ before <= 4 * (last - 1) /\ (c # 0 => before < c)
    BY <1>3, <1>5, <2>1, <2>2
  <2>4. room \in Nat /\ (c # 0 => room # 0) /\ before + room = c
    BY <1>3, <1>5, <2>1, <2>3
  <2>5. Min({4, room}) = Shown(c, k)
    BY <2>1, <2>4, LesserIs DEF Shown
  <2>6. /\ Shown(c, k) \in Nat /\ Shown(c, k) <= 4 /\ (c # 0 => Shown(c, k) # 0)
        /\ before + Shown(c, k) <= c
    BY <1>3, <2>1, <2>3, <2>4 DEF Shown
  <2>7. g[k].ids = [i \in 1 .. Shown(c, k) |->
                      svs[NthOf(before + i, own)].id + SvIdOffset(type)]
    <3>1. g[k].ids = IdsOf(svs, type, c, k)
      BY <1>5 DEF SentenceOf
    <3>2. \A i : 4 * (k - 1) + i = before + i
      BY <2>1
    <3>3. Min({4, c - 4 * (k - 1)}) = Shown(c, k)
      BY <2>1, <2>5
    <3> HIDE DEF Shown
    <3>4. IdsOf(svs, type, c, k) = [i \in 1 .. Shown(c, k) |->
                                      svs[NthOf(before + i, own)].id + SvIdOffset(type)]
      BY <1>1, <3>2, <3>3 DEF IdsOf
    <3> QED
      BY <3>1, <3>4
  <2>8. Len(g[k].ids) = Shown(c, k)
    BY <2>6, <2>7
  <2> QED
    BY <2>1, <2>3, <2>6, <2>7, <2>8
<1>7. ASSUME NEW k \in 1 .. last, NEW m \in DOMAIN g[k].ids
      PROVE  \E i \in own : NamesSv(g[k], m, svs, i)
  <2>1. PICK j : j = 4 * (k - 1) + m
    OBVIOUS
  <2>2. m \in 1 .. Shown(c, k) /\ 4 * (k - 1) \in Nat /\ 4 * (k - 1) + Shown(c, k) <= c
        /\ Shown(c, k) \in Nat
    BY <1>6
  <2>3. j \in 1 .. c
    BY <1>3, <2>1, <2>2
  <2>4. PICK i : i = NthOf(j, own)
    OBVIOUS
  <2>5. i \in own /\ Cardinality(own \cap 1 .. i) = j
    BY <1>1, <1>2, <2>3, <2>4, NthIs
  <2>6. g[k].ids[m] = svs[i].id + SvIdOffset(type)
    BY <1>6, <2>1, <2>2, <2>4
  <2>7. g[k].type = type /\ g[k].number = k
    BY <1>5 DEF SentenceOf
  <2>8. NamesSv(g[k], m, svs, i)
    BY <1>1, <2>1, <2>5, <2>6, <2>7 DEF NamesSv
  <2> QED
    BY <2>5, <2>8
<1>8. ASSUME NEW i \in own
      PROVE  \E k \in 1 .. last : \E m \in DOMAIN g[k].ids : NamesSv(g[k], m, svs, i)
  <2>1. PICK j : j = Cardinality(own \cap 1 .. i)
    OBVIOUS
  <2>2. j \in 1 .. c /\ NthOf(j, own) = i
    BY <1>1, <1>2, <2>1, NthIs, PlacesGrow
  <2>3. PICK q : q = (j - 1) \div 4
    OBVIOUS
  <2>4. q \in Nat /\ 4 * q <= j - 1 /\ j - 1 < 4 * q + 4
    BY <1>3, <2>2, <2>3
  <2>5. q + 1 \in 1 .. last
    BY <1>3, <1>5, <2>2, <2>4
  <2>6. PICK k, m : k = q + 1 /\ m = j - 4 * q
    OBVIOUS
  <2>7. k \in 1 .. last /\ 4 * (k - 1) + m = j /\ m \in Nat /\ m >= 1 /\ m <= 4
    BY <1>3, <2>2, <2>4, <2>5, <2>6
  <2>8. m \in 1 .. Shown(c, k)
    <3>1. k \in Nat /\ j <= c
      BY <1>3, <1>5, <2>2, <2>7
    <3>2. m <= c - 4 * (k - 1)
      BY <1>3, <2>2, <2>7, <3>1
    <3>3. Shown(c, k) \in Nat
      BY <1>6, <2>7
    <3> QED
      BY <1>3, <2>7, <3>2, <3>3 DEF Shown
  <2>9. m \in DOMAIN g[k].ids /\ g[k].ids[m] = svs[i].id + SvIdOffset(type)
    BY <1>6, <2>2, <2>7, <2>8
  <2>10. g[k].type = type /\ g[k].number = k
    BY <1>5, <2>7 DEF SentenceOf
  <2>11. NamesSv(g[k], m, svs, i)
    BY <1>1, <2>1, <2>7, <2>9, <2>10 DEF NamesSv
  <2> QED
    BY <2>7, <2>9, <2>11
<1>9. ASSUME NEW k \in 1 .. last
      PROVE  Len(g[k].ids) <= 4 /\ (g[k].ids = << >> => own = {})
  <2>1. Len(g[k].ids) = Shown(c, k) /\ Shown(c, k) <= 4 /\ (c # 0 => Shown(c, k) # 0)
    BY <1>6
  <2>2. g[k].ids = << >> => c = 0
    BY <2>1
  <2>3. c = 0 => own = {}
    BY <1>1, <1>3, FS_EmptySet
  <2> QED
    BY <2>1, <2>2, <2>3
<1>10. \A k \in 1 .. last :
        g[k].type = type /\ g[k].number = k /\ g[k].of = last /\ g[k].count = Cardinality(own)
  BY <1>1, <1>5 DEF SentenceOf
<1> QED
  BY <1>1, <1>5, <1>7, <1>8, <1>9, <1>10 DEF NamesThem

(* Places that follow each other are counted from the first.               *)
LEMMA PlacesInARow ==
  ASSUME NEW p \in Nat, NEW n \in Nat
  PROVE  /\ Cardinality(p + 1 .. p + n) = n
         /\ \A j \in 1 .. n : Cardinality((p + 1 .. p + n) \cap (1 .. p + j)) = j
<1>1. Cardinality(p + 1 .. p + n) = n
  BY FS_Interval
<1>2. ASSUME NEW j \in 1 .. n
      PROVE  Cardinality((p + 1 .. p + n) \cap (1 .. p + j)) = j
  <2>1. (p + 1 .. p + n) \cap (1 .. p + j) = p + 1 .. p + j
    OBVIOUS
  <2>2. Cardinality(p + 1 .. p + j) = j
    BY FS_Interval
  <2> QED
    BY <2>1, <2>2
<1> QED
  BY <1>1, <1>2

(* What is made of a satellite report names its satellites.                *)
LEMMA SvsNamed ==
  ASSUME NEW n \in Nat, DOMAIN told.svs = 1 .. n, told.nmea = NmeaOfSvs(told.svs)
  PROVE  SvsAreNamedOnce
<1> SUFFICES ASSUME NEW type \in Types
             PROVE  LET own == OfType(told.svs, type)
                        sentences == {k \in DOMAIN told.nmea : told.nmea[k].type = type}
                    IN  /\ sentences # {}
                        /\ \A k \in sentences :
                             LET sentence == told.nmea[k]
                             IN  /\ sentence.number = Cardinality(sentences \cap 1 .. k)
                                 /\ sentence.of = Cardinality(sentences)
                                 /\ sentence.count = Cardinality(own)
                                 /\ Len(sentence.ids) <= 4
                                 /\ sentence.ids = <<>> => own = {}
                                 /\ \A m \in DOMAIN sentence.ids :
                                      \E i \in own : NamesSv(sentence, m, told.svs, i)
                        /\ \A i \in own : \E k \in sentences : \E m \in DOMAIN told.nmea[k].ids :
                             NamesSv(told.nmea[k], m, told.svs, i)
  BY DEF SvsAreNamedOnce
<1>1. PICK svs, nmea : svs = told.svs /\ nmea = told.nmea /\ nmea = NmeaOfSvs(svs) /\ DOMAIN svs = 1 .. n
  OBVIOUS
<1> DEFINE own == OfType(svs, type)
           sentences == {k \in DOMAIN nmea : nmea[k].type = type}
           made == [t \in Types |-> GSV(t, svs)]
           R == UNION {{made[t][k] : k \in DOMAIN made[t]} : t \in Types}
           X == {r \in R : r.type = type}
<1>2. \A t \in Types : /\ made[t] \in Seq({made[t][k] : k \in DOMAIN made[t]})
                       /\ DOMAIN made[t] = 1 .. Len(made[t])
                       /\ \A k \in DOMAIN made[t] : made[t][k].type = t
  <2> SUFFICES ASSUME NEW t \in Types
               PROVE  /\ made[t] \in Seq({made[t][k] : k \in DOMAIN made[t]})
                      /\ DOMAIN made[t] = 1 .. Len(made[t])
                      /\ \A k \in DOMAIN made[t] : made[t][k].type = t
    OBVIOUS
  <2>1. PICK g : g = made[t] /\ g = GSV(t, svs)
    OBVIOUS
  <2>2. NamesThem(svs, t, g)
    BY <1>1, <2>1, GsvNames
  <2>3. /\ g \in Seq({g[k] : k \in DOMAIN g}) /\ DOMAIN g = 1 .. Len(g)
        /\ \A k \in DOMAIN g : g[k].type = t
    BY <2>2 DEF NamesThem
  <2> QED
    BY <2>1, <2>3
<1>3. PICK mid : mid = made[type] /\ mid = GSV(type, svs)
  OBVIOUS
<1>4. NmeaOfSvs(svs) = made["GPS"] \o made["GLONASS"] \o made["GALILEO"]
                       \o made["QZSS"] \o made["BEIDOU"]
  BY DEF NmeaOfSvs, Types
<1>5. DOMAIN made = Types /\ made = [t \in Types |-> made[t]]
  OBVIOUS
<1> HIDE DEF made
<1>6. \A t \in Types : made[t] \in Seq(R)
  <2> SUFFICES ASSUME NEW t \in Types
               PROVE  made[t] \in Seq(R)
    OBVIOUS
  <2>1. PICK T : T = {made[t][k] : k \in DOMAIN made[t]}
    OBVIOUS
  <2>2. made[t] \in Seq(T)
    BY <1>2, <2>1
  <2>3. T \subseteq R
    BY <2>1
  <2> HIDE DEF R
  <2> QED
    BY <2>2, <2>3, SeqMonotonic
<1>7. \A t \in Types : \A k \in DOMAIN made[t] : made[t][k] \in R
  OBVIOUS
<1> HIDE DEF R
<1>8. made \in [Types -> Seq(R)]
  BY <1>5, <1>6
<1>9. \A j \in DOMAIN made[type] : made[type][j] \in X
  BY <1>2, <1>7
<1>10. \A other \in Types \ {type} : Lacks(made[other], X)
  BY <1>2 DEF Lacks
<1>11. Lacks(<< >>, X) /\ << >> \in Seq(R)
  BY DEF Lacks
<1> HIDE DEF X
<1>12. nmea \in Seq(R) /\ \E p \in Nat : Placed(nmea, X, p, mid)
  <2>1. PICK all : all = made["GPS"] \o made["GLONASS"] \o made["GALILEO"] \o made["QZSS"] \o made["BEIDOU"]
    OBVIOUS
  <2>2. PICK rest : rest = << >> /\ Lacks(rest, X) /\ rest \in Seq(R)
    BY <1>11
  <2>3. all \in Seq(R) /\ \E p \in Nat : Placed(all \o rest, X, p, mid)
    BY <1>3, <1>8, <1>9, <1>10, <2>1, <2>2, FivePlaced
  <2>4. nmea = all
    BY <1>1, <1>4, <2>1
  <2>5. all \o rest = all
    BY <2>2, <2>3
  <2> QED
    BY <2>3, <2>4, <2>5
<1>13. PICK p \in Nat : Placed(nmea, X, p, mid)
  BY <1>12
<1>14. /\ Len(mid) \in Nat \ {0} /\ DOMAIN mid = 1 .. Len(mid)
       /\ \A k \in 1 .. Len(mid) :
            /\ mid[k].type = type /\ mid[k].number = k /\ mid[k].of = Len(mid)
            /\ mid[k].count = Cardinality(own)
            /\ Len(mid[k].ids) <= 4 /\ (mid[k].ids = << >> => own = {})
            /\ \A m \in DOMAIN mid[k].ids : \E i \in own : NamesSv(mid[k], m, svs, i)
       /\ \A i \in own : \E k \in 1 .. Len(mid) : \E m \in DOMAIN mid[k].ids :
            NamesSv(mid[k], m, svs, i)
  <2>1. NamesThem(svs, type, mid)
    BY <1>1, <1>3, GsvNames
  <2> QED
    BY <2>1 DEF NamesThem
<1>15. sentences = p + 1 .. p + Len(mid)
  <2>1. DOMAIN nmea = 1 .. Len(nmea) /\ \A k \in DOMAIN nmea : nmea[k] \in R
    BY <1>12, LenProperties, ElementOfSeq
  <2>2. sentences = {k \in DOMAIN nmea : nmea[k] \in X}
    BY <2>1 DEF X
  <2> QED
    BY <1>13, <2>2 DEF Placed
<1>16. \A j \in 1 .. Len(mid) : nmea[p + j] = mid[j]
  BY <1>13 DEF Placed
<1> HIDE DEF own, sentences
<1>17. /\ Cardinality(sentences) = Len(mid) /\ sentences # {}
       /\ \A j \in 1 .. Len(mid) : Cardinality(sentences \cap (1 .. p + j)) = j
  <2>1. PICK len : len = Len(mid)
    OBVIOUS
  <2>2. len \in Nat /\ len # 0 /\ sentences = p + 1 .. p + len
    BY <1>14, <1>15, <2>1
  <2>3. /\ Cardinality(p + 1 .. p + len) = len
        /\ \A j \in 1 .. len : Cardinality((p + 1 .. p + len) \cap (1 .. p + j)) = j
    BY <2>2, PlacesInARow
  <2>4. /\ Cardinality(sentences) = len
        /\ \A j \in 1 .. len : Cardinality(sentences \cap (1 .. p + j)) = j
    BY <2>2, <2>3, Zenon
  <2>5. sentences # {}
    BY <2>2
  <2> QED
    BY <2>1, <2>4, <2>5
<1>18. ASSUME NEW k \in sentences
       PROVE  /\ nmea[k].number = Cardinality(sentences \cap 1 .. k)
              /\ nmea[k].of = Cardinality(sentences)
              /\ nmea[k].count = Cardinality(own)
              /\ Len(nmea[k].ids) <= 4
              /\ nmea[k].ids = <<>> => own = {}
              /\ \A m \in DOMAIN nmea[k].ids : \E i \in own : NamesSv(nmea[k], m, svs, i)
  <2>1. PICK j : j = k - p
    OBVIOUS
  <2>2. j \in 1 .. Len(mid) /\ k = p + j
    <3>1. Len(mid) \in Nat
      BY <1>14
    <3> QED
      BY <1>15, <2>1, <3>1
  <2>3. nmea[k] = mid[j]
    BY <1>16, <2>2
  <2>4. Cardinality(sentences \cap 1 .. k) = j
    BY <1>17, <2>2
  <2> QED
    BY <1>14, <1>17, <2>2, <2>3, <2>4
<1>19. ASSUME NEW i \in own
       PROVE  \E k \in sentences : \E m \in DOMAIN nmea[k].ids : NamesSv(nmea[k], m, svs, i)
  <2>1. PICK j \in 1 .. Len(mid) : \E m \in DOMAIN mid[j].ids : NamesSv(mid[j], m, svs, i)
    BY <1>14
  <2>2. PICK k : k = p + j
    OBVIOUS
  <2>3. k \in sentences /\ nmea[k] = mid[j]
    BY <1>14, <1>15, <1>16, <2>2
  <2> QED
    BY <2>1, <2>3
<1> QED
  BY <1>1, <1>17, <1>18, <1>19 DEF own, sentences

(* The masks of two systems are taken from each other.                     *)
Swapped(type) == CASE type = "QZSS" -> "BEIDOU" [] type = "BEIDOU" -> "QZSS" [] OTHER -> type
Seen(fix) == [type \in Types |-> fix.used[type] \cap 1 .. Width]

(* The systems are taken from each other, so that each is taken once.      *)
LEMMA SwappedTwice ==
  \A t \in Types : Swapped(t) \in Types /\ Swapped(Swapped(t)) = t
BY DEF Types, Swapped

(* The masks of a position, by the system whose satellites they hold.      *)
LEMMA MasksAre ==
  ASSUME NEW fix, fix.used \in [Types -> SUBSET Nat], fix.hasUsed = TRUE \/ fix.used = NoSvs
  PROVE  /\ Seen(fix) \in [Types -> SUBSET (1 .. Width)]
         /\ UsedMasks(fix) \in [Types -> SUBSET (1 .. Width)]
         /\ \A t \in Types : UsedMasks(fix)[t] = Seen(fix)[Swapped(t)]
<1>1. PICK masks : masks = UsedMasks(fix)
  OBVIOUS
<1>2. masks = [type \in Types |-> IF fix.hasUsed THEN fix.used[Swapped(type)] \cap 1 .. Width ELSE {}]
  BY <1>1 DEF UsedMasks, Swapped
<1>3. \A t \in Types : Seen(fix)[Swapped(t)] = fix.used[Swapped(t)] \cap 1 .. Width
  BY SwappedTwice DEF Seen
<1>4. \A t \in Types : masks[t] = Seen(fix)[Swapped(t)]
  <2>1. CASE fix.hasUsed = TRUE
    BY <1>2, <1>3, <2>1
  <2>2. CASE fix.used = NoSvs
    <3>1. \A t \in Types : fix.used[Swapped(t)] = {}
      BY <2>2, SwappedTwice DEF NoSvs
    <3> QED
      BY <1>2, <1>3, <3>1
  <2> QED
    BY <2>1, <2>2
<1>5. Seen(fix) \in [Types -> SUBSET (1 .. Width)]
  BY DEF Seen
<1>6. masks \in [Types -> SUBSET (1 .. Width)]
  <2>1. \A t \in Types : masks[t] \in SUBSET (1 .. Width)
    BY <1>4, <1>5, SwappedTwice
  <2> QED
    BY <1>2, <2>1
<1> QED
  BY <1>1, <1>4, <1>5, <1>6

(* It is one system or several with either.                                *)
LEMMA SwappedCombine ==
  ASSUME NEW a \in [Types -> SUBSET (1 .. Width)], NEW b \in [Types -> SUBSET (1 .. Width)],
         \A t \in Types : a[t] = b[Swapped(t)]
  PROVE  Cardinality({t \in Types : a[t] # {}}) = Cardinality({t \in Types : b[t] # {}})
<1> DEFINE A == {t \in Types : a[t] # {}}
           B == {t \in Types : b[t] # {}}
           swap == [t \in A |-> Swapped(t)]
<1>1. swap \in [A -> B] /\ \A s, t \in A : swap[s] = swap[t] => s = t
  BY SwappedTwice
<1>2. \A u \in B : \E t \in A : swap[t] = u
  <2> SUFFICES ASSUME NEW u \in B
               PROVE  \E t \in A : swap[t] = u
    OBVIOUS
  <2>1. Swapped(u) \in Types /\ Swapped(Swapped(u)) = u
    BY SwappedTwice
  <2>2. Swapped(u) \in A
    BY <2>1
  <2> QED
    BY <2>1, <2>2
<1>3. swap \in Bijection(A, B)
  <2> HIDE DEF swap, A, B
  <2> QED
    BY <1>1, <1>2 DEF Bijection, Injection, Surjection, IsInjective
<1>4. IsFiniteSet(A)
  <2>1. IsFiniteSet(Types)
    <3>1. IsFiniteSet({}) /\ IsFiniteSet({"GPS"})
      BY FS_EmptySet, FS_Singleton
    <3>2. IsFiniteSet({"GPS"} \cup {"GLONASS"})
      BY <3>1, FS_AddElement
    <3>3. IsFiniteSet({"GPS"} \cup {"GLONASS"} \cup {"GALILEO"})
      BY <3>2, FS_AddElement
    <3>4. IsFiniteSet({"GPS"} \cup {"GLONASS"} \cup {"GALILEO"} \cup {"QZSS"})
      BY <3>3, FS_AddElement
    <3>5. IsFiniteSet({"GPS"} \cup {"GLONASS"} \cup {"GALILEO"} \cup {"QZSS"} \cup {"BEIDOU"})
      BY <3>4, FS_AddElement
    <3>6. Types = {"GPS"} \cup {"GLONASS"} \cup {"GALILEO"} \cup {"QZSS"} \cup {"BEIDOU"}
      BY DEF Types
    <3> QED
      BY <3>5, <3>6
  <2> QED
    BY <2>1, FS_Subset
<1> HIDE DEF A, B, swap
<1>5. Cardinality(A) = Cardinality(B)
  BY <1>3, <1>4, FS_Bijection DEF ExistsBijection
<1> QED
  BY <1>5 DEF A, B

(* The satellites of all systems are as many as those of each together.    *)
PairsOf(masks, type) == {<<type, id>> : id \in masks[type]}

(* There are as many pairs of one system as it has satellites.             *)
LEMMA PairsOfOne ==
  ASSUME NEW masks \in [Types -> SUBSET (1 .. Width)], NEW type \in Types
  PROVE  /\ IsFiniteSet(PairsOf(masks, type)) /\ Cardinality(masks[type]) \in Nat
         /\ Cardinality(PairsOf(masks, type)) = Cardinality(masks[type])
<1> PICK mask : mask = masks[type]
  OBVIOUS
<1>1. IsFiniteSet(mask) /\ Cardinality(mask) \in Nat
  <2>1. mask \in SUBSET (1 .. Width)
    OBVIOUS
  <2>2. IsFiniteSet(1 .. Width)
    BY NmeaAssumption, FS_Interval
  <2> QED
    BY <2>1, <2>2, FS_Subset, FS_CardinalityType
<1> DEFINE pair == [id \in mask |-> <<type, id>>]
<1>2. /\ pair \in [mask -> PairsOf(masks, type)] /\ \A x, y \in mask : pair[x] = pair[y] => x = y
      /\ \A p \in PairsOf(masks, type) : \E x \in mask : pair[x] = p
  BY DEF PairsOf
<1> HIDE DEF pair
<1>3. pair \in Bijection(mask, PairsOf(masks, type))
  BY <1>2 DEF Bijection, Injection, Surjection, IsInjective
<1> QED
  BY <1>1, <1>3, FS_Bijection DEF ExistsBijection

(* Sets that share nothing add up.                                         *)
LEMMA ApartAdd ==
  ASSUME NEW S, IsFiniteSet(S), NEW T, IsFiniteSet(T), S \cap T = {}
  PROVE  IsFiniteSet(S \cup T) /\ Cardinality(S \cup T) = Cardinality(S) + Cardinality(T)
<1>1. /\ IsFiniteSet(S \cup T)
      /\ Cardinality(S \cup T) = Cardinality(S) + Cardinality(T) - Cardinality(S \cap T)
  BY FS_Union
<1>2. Cardinality(S \cap T) = 0
  BY FS_EmptySet
<1>3. Cardinality(S) \in Nat /\ Cardinality(T) \in Nat
  BY FS_CardinalityType
<1> QED
  BY <1>1, <1>2, <1>3

(* The satellites of all systems are those of each.                        *)
LEMMA PairsCounted ==
  ASSUME NEW masks \in [Types -> SUBSET (1 .. Width)]
  PROVE  Cardinality(UNION {{<<type, id>> : id \in masks[type]} : type \in Types})
         = Cardinality(masks["GPS"]) + Cardinality(masks["GLONASS"]) + Cardinality(masks["GALILEO"])
           + Cardinality(masks["QZSS"]) + Cardinality(masks["BEIDOU"])
<1>1. PICK a, b, c, d, e : /\ a = PairsOf(masks, "GPS") /\ b = PairsOf(masks, "GLONASS")
                           /\ c = PairsOf(masks, "GALILEO") /\ d = PairsOf(masks, "QZSS")
                           /\ e = PairsOf(masks, "BEIDOU")
  OBVIOUS
<1>2. UNION {{<<type, id>> : id \in masks[type]} : type \in Types} = a \cup b \cup c \cup d \cup e
  <2>1. \A type \in Types : {<<type, id>> : id \in masks[type]} = PairsOf(masks, type)
    BY DEF PairsOf
  <2>2. UNION {PairsOf(masks, type) : type \in Types} = a \cup b \cup c \cup d \cup e
    BY <1>1 DEF Types
  <2>3. {{<<type, id>> : id \in masks[type]} : type \in Types} = {PairsOf(masks, type) : type \in Types}
    BY <2>1
  <2> QED
    BY <2>2, <2>3
<1>3. /\ a \cap b = {} /\ (a \cup b) \cap c = {} /\ (a \cup b \cup c) \cap d = {}
      /\ (a \cup b \cup c \cup d) \cap e = {}
  BY <1>1 DEF PairsOf
<1>4. /\ IsFiniteSet(a) /\ IsFiniteSet(b) /\ IsFiniteSet(c) /\ IsFiniteSet(d) /\ IsFiniteSet(e)
      /\ Cardinality(a) = Cardinality(masks["GPS"]) /\ Cardinality(b) = Cardinality(masks["GLONASS"])
      /\ Cardinality(c) = Cardinality(masks["GALILEO"]) /\ Cardinality(d) = Cardinality(masks["QZSS"])
      /\ Cardinality(e) = Cardinality(masks["BEIDOU"])
      /\ Cardinality(a) \in Nat /\ Cardinality(b) \in Nat /\ Cardinality(c) \in Nat
      /\ Cardinality(d) \in Nat /\ Cardinality(e) \in Nat
  BY <1>1, PairsOfOne DEF Types
<1>5. PICK ab, abc, abcd : ab = a \cup b /\ abc = ab \cup c /\ abcd = abc \cup d
  OBVIOUS
<1>6. IsFiniteSet(ab) /\ Cardinality(ab) = Cardinality(a) + Cardinality(b)
  BY <1>3, <1>4, <1>5, ApartAdd
<1>7. IsFiniteSet(abc) /\ Cardinality(abc) = Cardinality(ab) + Cardinality(c)
  BY <1>3, <1>4, <1>5, <1>6, ApartAdd
<1>8. IsFiniteSet(abcd) /\ Cardinality(abcd) = Cardinality(abc) + Cardinality(d)
  BY <1>3, <1>4, <1>5, <1>7, ApartAdd
<1>9. Cardinality(abcd \cup e) = Cardinality(abcd) + Cardinality(e)
  BY <1>3, <1>4, <1>5, <1>8, ApartAdd
<1> QED
  BY <1>2, <1>4, <1>5, <1>6, <1>7, <1>8, <1>9

(* What is counted is what the position used.                              *)
UsedIsCounted(fix) ==
  /\ Count(UsedMasks(fix))
     = Min({MaxInGsa, Cardinality(UNION {{<<type, id>> : id \in Seen(fix)[type]} : type \in Types})})
  /\ Combined(UsedMasks(fix)) <=> Cardinality({t \in Types : Seen(fix)[t] # {}}) > 1

(* This is so, as the systems that are exchanged are both counted.         *)
LEMMA CountIs ==
  ASSUME NEW fix, fix.used \in [Types -> SUBSET Nat], fix.hasUsed = TRUE \/ fix.used = NoSvs
  PROVE  UsedIsCounted(fix)
<1>1. PICK masks, seen : masks = UsedMasks(fix) /\ seen = Seen(fix)
  OBVIOUS
<1>2. /\ masks \in [Types -> SUBSET (1 .. Width)] /\ seen \in [Types -> SUBSET (1 .. Width)]
      /\ \A t \in Types : masks[t] = seen[Swapped(t)]
  BY <1>1, MasksAre
<1>3. /\ masks["GPS"] = seen["GPS"] /\ masks["GLONASS"] = seen["GLONASS"]
      /\ masks["GALILEO"] = seen["GALILEO"] /\ masks["QZSS"] = seen["BEIDOU"]
      /\ masks["BEIDOU"] = seen["QZSS"]
  BY <1>2 DEF Types, Swapped
<1>4. Cardinality(UNION {{<<type, id>> : id \in seen[type]} : type \in Types})
      = Cardinality(seen["GPS"]) + Cardinality(seen["GLONASS"]) + Cardinality(seen["GALILEO"])
        + Cardinality(seen["QZSS"]) + Cardinality(seen["BEIDOU"])
  BY <1>2, PairsCounted
<1>5. Cardinality(seen["QZSS"]) \in Nat /\ Cardinality(seen["BEIDOU"]) \in Nat /\ Cardinality(seen["GPS"]) \in Nat
      /\ Cardinality(seen["GLONASS"]) \in Nat /\ Cardinality(seen["GALILEO"]) \in Nat
  BY <1>2, PairsOfOne DEF Types
<1>6. Cardinality(masks["GPS"]) + Cardinality(masks["GLONASS"]) + Cardinality(masks["GALILEO"])
      + Cardinality(masks["QZSS"]) + Cardinality(masks["BEIDOU"])
      = Cardinality(UNION {{<<type, id>> : id \in seen[type]} : type \in Types})
  BY <1>3, <1>4, <1>5
<1>7. Count(masks) = Min({MaxInGsa, Cardinality(UNION {{<<type, id>> : id \in seen[type]} : type \in Types})})
  BY <1>6 DEF Count
<1>8. Cardinality({t \in Types : masks[t] # {}}) = Cardinality({t \in Types : seen[t] # {}})
  BY <1>2, SwappedCombine
<1> QED
  BY <1>1, <1>7, <1>8 DEF Combined, UsedIsCounted

(* The one sentence of a system, or none.                                  *)
GsaOf(masks, type, g) ==
  /\ g \in Seq({g[k] : k \in DOMAIN g}) /\ DOMAIN g = 1 .. Len(g)
  /\ Len(g) = (IF masks[type] # {} \/ type = "GPS" THEN 1 ELSE 0)
  /\ \A k \in DOMAIN g :
       /\ g[k].kind = "GSA" /\ g[k].system = SystemId[type] /\ g[k].talker = Talker(type, masks)
       /\ Range(g[k].ids) = {NthOf(i, masks[type]) + SvIdOffset(type) :
                               i \in 1 .. Min({MaxInGsa, Cardinality(masks[type])})}

(* GSA makes just that.                                                    *)
LEMMA GsaIs ==
  ASSUME NEW masks \in [Types -> SUBSET (1 .. Width)], NEW type \in Types, NEW g, g = GSA(type, masks)
  PROVE  GsaOf(masks, type, g)
<1>1. PICK mask, count : mask = masks[type] /\ count = Cardinality(mask)
  OBVIOUS
<1>2. IsFiniteSet(mask) /\ (count = 0 <=> mask = {})
  <2>1. mask \in SUBSET (1 .. Width) /\ IsFiniteSet(1 .. Width)
    BY <1>1, NmeaAssumption, FS_Interval
  <2>2. IsFiniteSet(mask)
    BY <2>1, FS_Subset
  <2> QED
    BY <1>1, <2>2, FS_EmptySet
<1> DEFINE ids == [i \in 1 .. Min({MaxInGsa, count}) |-> NthOf(i, mask) + SvIdOffset(type)]
           S == [kind |-> "GSA", talker |-> Talker(type, masks), system |-> SystemId[type],
                 fixType |-> FixType(count), ids |-> ids]
<1>3. g = IF count = 0 /\ type # "GPS" THEN << >> ELSE << S >>
  BY <1>1 DEF GSA
<1>4. Range(ids) = {NthOf(i, mask) + SvIdOffset(type) : i \in 1 .. Min({MaxInGsa, count})}
  BY DEF Range
<1>5. /\ S.kind = "GSA" /\ S.system = SystemId[type] /\ S.talker = Talker(type, masks)
      /\ Range(S.ids) = {NthOf(i, mask) + SvIdOffset(type) : i \in 1 .. Min({MaxInGsa, count})}
  <2> HIDE DEF ids
  <2>1. S.ids = ids
    OBVIOUS
  <2> QED
    BY <1>4, <2>1
<1> HIDE DEF S, ids
<1>6. CASE count = 0 /\ type # "GPS"
  <2>1. g = << >> /\ DOMAIN g = {} /\ Len(g) = 0 /\ g \in Seq({g[k] : k \in DOMAIN g})
    BY <1>3, <1>6
  <2>2. DOMAIN g = 1 .. Len(g)
    BY <2>1
  <2> QED
    BY <1>1, <1>2, <1>6, <2>1, <2>2 DEF GsaOf
<1>7. CASE ~(count = 0 /\ type # "GPS")
  <2>1. g = << S >>
    BY <1>3, <1>7
  <2>2. DOMAIN g = 1 .. 1 /\ Len(g) = 1 /\ g[1] = S /\ g \in Seq({g[k] : k \in DOMAIN g})
    BY <2>1
  <2>3. \A k \in DOMAIN g : g[k] = S
    BY <2>2
  <2> QED
    BY <1>1, <1>2, <1>5, <1>7, <2>2, <2>3 DEF GsaOf
<1> QED
  BY <1>6, <1>7

(* No two systems have the same number in a sentence.                      *)
LEMMA SystemsApart ==
  \A s, t \in Types : SystemId[s] = SystemId[t] => s = t
BY DEF Types, SystemId

(* What is made of a position names what it used.                          *)
LEMMA FixNamed ==
  ASSUME TellsFix, told.fix.used \in [Types -> SUBSET Nat],
         told.fix.hasUsed = TRUE \/ told.fix.used = NoSvs,
         told.nmea = NmeaOfFix(told.fix, told.location /\ ~told.fix.blank)
  PROVE  GsaNamesUsed
<1>1. PICK fix, nmea, masks : fix = told.fix /\ nmea = told.nmea /\ masks = UsedMasks(fix)
  OBVIOUS
<1>2. /\ Seen(fix) \in [Types -> SUBSET (1 .. Width)] /\ masks \in [Types -> SUBSET (1 .. Width)]
      /\ \A t \in Types : masks[t] = Seen(fix)[Swapped(t)]
  BY <1>1, MasksAre
<1>3. \A t \in Types : UsedOf(t) = Seen(fix)[t]
  BY <1>1 DEF UsedOf, Seen
<1>4. PICK v, r, c : /\ v = [kind |-> "VTG", talker |-> FixTalker(masks)]
                     /\ r = [kind |-> "RMC", talker |-> FixTalker(masks)]
                     /\ c = [kind |-> "GGA", talker |-> FixTalker(masks), count |-> Count(masks)]
  OBVIOUS
<1> DEFINE made == [t \in Types |-> GSA(t, masks)]
           R == (UNION {{made[t][k] : k \in DOMAIN made[t]} : t \in Types}) \cup {v, r, c}
           rest == << v, r, c >>
           five == made["GPS"] \o made["GLONASS"] \o made["GALILEO"] \o made["QZSS"] \o made["BEIDOU"]
<1>5. nmea = five \o rest
  <2>1. told.location /\ ~told.fix.blank
    BY DEF TellsFix
  <2> QED
    BY <1>1, <1>4, <2>1 DEF NmeaOfFix, Types
<1>6. \A t \in Types : GsaOf(masks, t, made[t])
  <2> SUFFICES ASSUME NEW t \in Types
               PROVE  GsaOf(masks, t, made[t])
    OBVIOUS
  <2>1. PICK g : g = made[t] /\ g = GSA(t, masks)
    OBVIOUS
  <2>2. GsaOf(masks, t, g)
    BY <1>2, <2>1, GsaIs
  <2> QED
    BY <2>1, <2>2
<1>7. DOMAIN made = Types /\ made = [t \in Types |-> made[t]]
  OBVIOUS
<1> HIDE DEF made
<1>8. \A t \in Types : made[t] \in Seq(R)
  <2> SUFFICES ASSUME NEW t \in Types
               PROVE  made[t] \in Seq(R)
    OBVIOUS
  <2>1. PICK T : T = {made[t][k] : k \in DOMAIN made[t]}
    OBVIOUS
  <2>2. made[t] \in Seq(T)
    BY <1>6, <2>1 DEF GsaOf
  <2>3. T \subseteq R
    BY <2>1
  <2> HIDE DEF R
  <2> QED
    BY <2>2, <2>3, SeqMonotonic
<1>9. \A t \in Types : \A k \in DOMAIN made[t] : made[t][k] \in R
  OBVIOUS
<1>10. rest \in Seq(R) /\ Len(rest) = 3 /\ rest[3] = c /\ rest[1] = v /\ rest[2] = r /\ DOMAIN rest = 1 .. 3
  <2>1. v \in R /\ r \in R /\ c \in R
    OBVIOUS
  <2> HIDE DEF R
  <2> QED
    BY <2>1
<1> HIDE DEF R
<1>11. made \in [Types -> Seq(R)]
  BY <1>7, <1>8
<1>12. \A k \in DOMAIN rest : rest[k].kind # "GSA"
  BY <1>4, <1>10
<1>13. PICK all : all = five
  OBVIOUS
<1> HIDE DEF rest, five
<1>14. ASSUME NEW type \in Types
       PROVE  /\ all \in Seq(R) /\ nmea \in Seq(R)
              /\ Cardinality(Gsa(type)) = Len(made[type])
              /\ \A k \in Gsa(type) : \E j \in DOMAIN made[type] : nmea[k] = made[type][j]
  <2> DEFINE X == {e \in R : e.kind = "GSA" /\ e.system = SystemId[type]}
  <2>1. \A j \in DOMAIN made[type] : made[type][j] \in X
    BY <1>6, <1>9 DEF GsaOf
  <2>2. \A other \in Types \ {type} : Lacks(made[other], X)
    <3> SUFFICES ASSUME NEW other \in Types \ {type}, NEW k \in DOMAIN made[other]
                 PROVE  made[other][k] \notin X
      BY DEF Lacks
    <3>1. made[other][k].system = SystemId[other]
      BY <1>6 DEF GsaOf
    <3>2. SystemId[other] # SystemId[type]
      BY SystemsApart
    <3> QED
      BY <3>1, <3>2
  <2>3. Lacks(rest, X)
    BY <1>12 DEF Lacks
  <2> HIDE DEF X
  <2>4. PICK mid : mid = made[type]
    OBVIOUS
  <2>5. all = made["GPS"] \o made["GLONASS"] \o made["GALILEO"] \o made["QZSS"] \o made["BEIDOU"]
    BY <1>13 DEF five
  <2>6. /\ all \in Seq(R) /\ \E p \in Nat : Placed(all \o rest, X, p, mid)
    BY <1>10, <1>11, <2>1, <2>2, <2>3, <2>4, <2>5, FivePlaced
  <2>7. nmea = all \o rest
    BY <1>5, <1>13
  <2>8. nmea \in Seq(R)
    BY <1>10, <2>6, <2>7, Joined
  <2>9. PICK p \in Nat : Placed(nmea, X, p, mid)
    BY <2>6, <2>7
  <2>10. Gsa(type) = p + 1 .. p + Len(mid)
    <3>1. DOMAIN nmea = 1 .. Len(nmea) /\ \A k \in DOMAIN nmea : nmea[k] \in R
      BY <2>8, LenProperties, ElementOfSeq
    <3>2. Gsa(type) = {k \in DOMAIN nmea : nmea[k] \in X}
      BY <1>1, <3>1 DEF Gsa, X
    <3> QED
      BY <2>9, <3>2 DEF Placed
  <2>11. Len(mid) \in Nat /\ DOMAIN mid = 1 .. Len(mid)
    <3>1. mid \in Seq(R)
      BY <1>8, <2>4
    <3> QED
      BY <3>1, LenProperties
  <2>12. Cardinality(Gsa(type)) = Len(mid)
    <3>1. PICK len : len = Len(mid)
      OBVIOUS
    <3>2. len \in Nat /\ Gsa(type) = p + 1 .. p + len
      BY <2>10, <2>11, <3>1
    <3>3. Cardinality(p + 1 .. p + len) = len
      BY <3>2, PlacesInARow
    <3> QED
      BY <3>1, <3>2, <3>3, Zenon
  <2>13. ASSUME NEW k \in Gsa(type)
         PROVE  \E j \in DOMAIN mid : nmea[k] = mid[j]
    <3>1. PICK j : j = k - p
      OBVIOUS
    <3>2. j \in 1 .. Len(mid) /\ k = p + j
      BY <2>10, <2>11, <3>1
    <3>3. nmea[k] = mid[j]
      BY <2>9, <3>2 DEF Placed
    <3> QED
      BY <2>11, <3>2, <3>3
  <2> QED
    BY <2>4, <2>6, <2>8, <2>12, <2>13
<1>15. ASSUME NEW type \in {"GPS", "GLONASS", "GALILEO"}
       PROVE  /\ Cardinality(Gsa(type)) = (IF UsedOf(type) # {} \/ type = "GPS" THEN 1 ELSE 0)
              /\ \A k \in Gsa(type) :
                   LET ids == Range(nmea[k].ids)
                       used == {id + SvIdOffset(type) : id \in UsedOf(type)}
                   IN  /\ ids \subseteq used
                       /\ Cardinality(ids) = Min({MaxInGsa, Cardinality(used)})
                       /\ \A id \in ids, other \in used \ ids : id < other
                       /\ nmea[k].talker = "GN" <=>
                             Cardinality({t \in Types : UsedOf(t) # {}}) > 1
  <2>1. type \in Types /\ Swapped(type) = type
    BY DEF Types, Swapped
  <2>2. PICK mask : mask = masks[type] /\ mask = UsedOf(type)
    BY <1>2, <1>3, <2>1
  <2>3. mask \in SUBSET (1 .. Width)
    BY <1>2, <2>1, <2>2
  <2>4. GsaOf(masks, type, made[type])
    BY <1>6, <2>1
  <2>5. Cardinality(Gsa(type)) = (IF UsedOf(type) # {} \/ type = "GPS" THEN 1 ELSE 0)
    BY <1>14, <2>1, <2>2, <2>4 DEF GsaOf
  <2>6. ASSUME NEW k \in Gsa(type)
        PROVE  LET ids == Range(nmea[k].ids)
                   used == {id + SvIdOffset(type) : id \in UsedOf(type)}
               IN  /\ ids \subseteq used
                   /\ Cardinality(ids) = Min({MaxInGsa, Cardinality(used)})
                   /\ \A id \in ids, other \in used \ ids : id < other
                   /\ nmea[k].talker = "GN" <=>
                         Cardinality({t \in Types : UsedOf(t) # {}}) > 1
    <3>1. PICK ids, used, off, shown :
             /\ ids = Range(nmea[k].ids) /\ used = {id + off : id \in UsedOf(type)}
             /\ off = SvIdOffset(type) /\ shown = Min({MaxInGsa, Cardinality(mask)})
      OBVIOUS
    <3>2. PICK j \in DOMAIN made[type] : nmea[k] = made[type][j]
      BY <1>14, <2>1
    <3>3. /\ nmea[k].talker = Talker(type, masks)
          /\ Range(nmea[k].ids) = {NthOf(i, masks[type]) + SvIdOffset(type) :
                                     i \in 1 .. Min({MaxInGsa, Cardinality(masks[type])})}
      BY <2>4, <3>2 DEF GsaOf
    <3>4. ids = {NthOf(i, mask) + off : i \in 1 .. shown}
      BY <2>2, <3>1, <3>3
    <3>5. off \in Nat /\ Width \in Nat /\ MaxInGsa \in Nat
      BY <3>1, NmeaAssumption DEF SvIdOffset
    <3>6. used = {x + off : x \in mask}
      BY <2>2, <3>1
    <3>7. /\ ids \subseteq used /\ Cardinality(ids) = Min({MaxInGsa, Cardinality(used)})
          /\ \A id \in ids, other \in used \ ids : id < other
      <4>1. LowestAre(mask, MaxInGsa, off)
        BY <2>3, <3>5, LowestFirst
      <4> QED
        BY <3>1, <3>4, <3>6, <4>1 DEF LowestAre
    <3>8. Combined(masks) <=> Cardinality({t \in Types : UsedOf(t) # {}}) > 1
      <4>1. {t \in Types : UsedOf(t) # {}} = {t \in Types : Seen(fix)[t] # {}}
        BY <1>3
      <4>2. Combined(masks) <=> Cardinality({t \in Types : Seen(fix)[t] # {}}) > 1
        BY <1>1, CountIs DEF UsedIsCounted
      <4> QED
        BY <4>1, <4>2
    <3>9. Talker(type, masks) = "GN" <=> Combined(masks)
      BY DEF Talker, OwnTalker
    <3> QED
      BY <3>1, <3>3, <3>7, <3>8, <3>9
  <2> QED
    BY <2>5, <2>6
<1>16. Last(nmea).count = Min({MaxInGsa, Cardinality(UNION {{<<type, id>> : id \in UsedOf(type)} : type \in Types})})
  <2>1. all \in Seq(R)
    BY <1>14 DEF Types
  <2>2. nmea = all \o rest
    BY <1>5, <1>13
  <2>3. nmea \in Seq(R) /\ Len(nmea) = Len(all) + 3 /\ Len(all) \in Nat
    <3>1. Len(all) \in Nat
      BY <2>1, LenProperties
    <3>2. nmea \in Seq(R) /\ Len(nmea) = Len(all) + Len(rest)
      BY <1>10, <2>1, <2>2, ConcatProperties
    <3> QED
      BY <1>10, <3>1, <3>2
  <2>4. nmea[Len(all) + 3] = rest[3]
    BY <1>10, <2>1, <2>2, Joined
  <2>5. Last(nmea).count = Count(masks)
    BY <1>4, <1>10, <2>3, <2>4 DEF Last
  <2>6. \A t \in Types : {<<t, id>> : id \in UsedOf(t)} = {<<t, id>> : id \in Seen(fix)[t]}
    BY <1>3
  <2>7. {{<<type, id>> : id \in UsedOf(type)} : type \in Types}
        = {{<<type, id>> : id \in Seen(fix)[type]} : type \in Types}
    BY <2>6
  <2>8. Count(masks)
        = Min({MaxInGsa, Cardinality(UNION {{<<type, id>> : id \in Seen(fix)[type]} : type \in Types})})
    <3>1. fix.used \in [Types -> SUBSET Nat] /\ (fix.hasUsed = TRUE \/ fix.used = NoSvs)
      BY <1>1
    <3>2. Count(UsedMasks(fix))
          = Min({MaxInGsa, Cardinality(UNION {{<<type, id>> : id \in Seen(fix)[type]} : type \in Types})})
      <4>1. UsedIsCounted(fix)
        BY <3>1, CountIs
      <4> QED
        BY <4>1 DEF UsedIsCounted
    <3> QED
      BY <1>1, <3>2, Zenon
  <2> QED
    BY <2>5, <2>7, <2>8
<1> QED
  BY <1>1, <1>15, <1>16 DEF GsaNamesUsed

-----------------------------------------------------------------------------
(* The strengthening: the sentences that are told are those made of the    *)
(* report that is told, or none.                                           *)
SvsAreMade ==
  told.kind = "sv" =>
    /\ \E n \in Nat : DOMAIN told.svs = 1 .. n
    /\ told.nmea = <<>> \/ told.nmea = NmeaOfSvs(told.svs)

FixIsMade ==
  told.kind = "position" =>
    /\ told.fix.used \in [Types -> SUBSET Nat]
    /\ told.fix.hasUsed = TRUE \/ told.fix.used = NoSvs
    /\ told.nmea = <<>> \/ told.nmea = NmeaOfFix(told.fix, told.location /\ ~told.fix.blank)

ToldIsMade == SvsAreMade /\ FixIsMade

(* The satellites of a report are numbered from one.                       *)
LEMMA SvsInARow ==
  ASSUME NEW svs \in SvReports
  PROVE  \E n \in Nat : DOMAIN svs = 1 .. n
<1>1. PICK types \in (UNION {[1 .. n -> SvTypes] : n \in 0 .. MaxSvs})
                 \cup {<<"GPS", "SBAS", "GPS">>} :
             \E marked \in SUBSET MarkedAt : svs = Numbered(types, marked)
  BY DEF SvReports
<1>2. DOMAIN svs = DOMAIN types
  BY <1>1 DEF Numbered
<1>3. CASE types = <<"GPS", "SBAS", "GPS">>
  <2>1. DOMAIN types = 1 .. 3
    BY <1>3
  <2> QED
    BY <1>2, <2>1
<1>4. CASE types \in UNION {[1 .. n -> SvTypes] : n \in 0 .. MaxSvs}
  <2>1. PICK n \in 0 .. MaxSvs : types \in [1 .. n -> SvTypes]
    BY <1>4
  <2>2. n \in Nat /\ DOMAIN types = 1 .. n
    BY <2>1
  <2> QED
    BY <1>2, <2>2
<1> QED
  BY <1>1, <1>3, <1>4

(* Each report is told with the sentences made of it, and what was told is *)
(* heard before the next.                                                  *)
THEOREM SentencesAreMade == ReportsSpec => []ToldIsMade
<1>1. ReportsInit => ToldIsMade
  BY DEF ReportsInit, ToldIsMade, SvsAreMade, FixIsMade, NoNews
<1>2. ToldIsMade /\ [ReportsNext]_reportVars => ToldIsMade'
  <2> SUFFICES ASSUME ToldIsMade, [ReportsNext]_reportVars
               PROVE  ToldIsMade'
    OBVIOUS
  <2>1. CASE Heard
    BY <2>1 DEF Heard, ToldIsMade, SvsAreMade, FixIsMade, NoNews
  <2>2. ASSUME NEW fix \in Positions, ReportPosition(fix)
        PROVE  ToldIsMade'
    <3>1. PICK location, nmea :
             /\ location = NeedReport(fix)
             /\ nmea = IF MakesNmea THEN NmeaOfFix(fix, location /\ ~fix.blank) ELSE <<>>
      OBVIOUS
    <3>2. told' = [kind |-> "position", fix |-> fix, location |-> location, nmea |-> nmea]
      BY <2>2, <3>1 DEF ReportPosition
    <3>3. told'.kind = "position" /\ told'.fix = fix /\ told'.location = location /\ told'.nmea = nmea
      BY <3>2
    <3>4. fix.used \in [Types -> SUBSET Nat] /\ (fix.hasUsed = TRUE \/ fix.used = NoSvs)
      BY PositionTypes DEF Positions
    <3>5. nmea = <<>> \/ nmea = NmeaOfFix(fix, location /\ ~fix.blank)
      BY <3>1
    <3>6. FixIsMade'
      BY <3>3, <3>4, <3>5 DEF FixIsMade
    <3> QED
      BY <3>3, <3>6 DEF ToldIsMade, SvsAreMade
  <2>3. ASSUME NEW svs \in SvReports, ReportSv(svs)
        PROVE  ToldIsMade'
    <3>1. PICK beyond \in BOOLEAN : TellSvs(svs, Marked(svs, beyond))
      BY <2>3 DEF ReportSv
    <3>2. PICK marked, nmea : /\ marked = Marked(svs, beyond)
                              /\ nmea = IF MakesNmea THEN NmeaOfSvs(marked) ELSE <<>>
      OBVIOUS
    <3>3. told'.kind = "sv" /\ told'.svs = marked /\ told'.nmea = nmea
      BY <3>1, <3>2 DEF TellSvs
    <3>4. \E n \in Nat : DOMAIN marked = 1 .. n
      <4>1. DOMAIN marked = DOMAIN svs
        BY <3>2 DEF Marked
      <4> QED
        BY <4>1, SvsInARow
    <3>5. nmea = <<>> \/ nmea = NmeaOfSvs(marked)
      BY <3>2
    <3>6. SvsAreMade'
      BY <3>3, <3>4, <3>5 DEF SvsAreMade
    <3> QED
      BY <3>3, <3>6 DEF ToldIsMade, FixIsMade
  <2>4. CASE UNCHANGED told
    BY <2>4 DEF ToldIsMade, SvsAreMade, FixIsMade
  <2> QED
    BY <2>1, <2>2, <2>3, <2>4 DEF ReportsNext, SessionsChange, reportVars
<1> QED
  BY <1>1, <1>2, PTL DEF ReportsSpec

(* The sentences of a satellite report number, count and name each         *)
(* system's satellites once, and those of a position name the lowest it    *)
(* used, whatever the reports and in whatever order (loc_nmea_generate_sv, *)
(* loc_nmea_generate_pos).                                                 *)
THEOREM SentencesNameThem == ReportsSpec => []SentencesNameTheirSvs
<1>1. ToldIsMade => SentencesNameTheirSvs
  <2> SUFFICES ASSUME ToldIsMade
               PROVE  SentencesNameTheirSvs
    OBVIOUS
  <2>1. SvsAreNamedOnce
    <3>1. CASE told.kind = "sv" /\ told.nmea # <<>>
      <4>1. PICK n \in Nat : DOMAIN told.svs = 1 .. n
        BY <3>1 DEF ToldIsMade, SvsAreMade
      <4>2. told.nmea = NmeaOfSvs(told.svs)
        BY <3>1 DEF ToldIsMade, SvsAreMade
      <4> QED
        BY <4>1, <4>2, SvsNamed
    <3>2. CASE ~(told.kind = "sv" /\ told.nmea # <<>>)
      BY <3>2 DEF SvsAreNamedOnce
    <3> QED
      BY <3>1, <3>2
  <2>2. GsaNamesUsed
    <3>1. CASE TellsFix
      <4>1. /\ told.fix.used \in [Types -> SUBSET Nat]
            /\ told.fix.hasUsed = TRUE \/ told.fix.used = NoSvs
            /\ told.nmea = NmeaOfFix(told.fix, told.location /\ ~told.fix.blank)
        BY <3>1 DEF ToldIsMade, FixIsMade, TellsFix
      <4> QED
        BY <3>1, <4>1, FixNamed
    <3>2. CASE ~TellsFix
      BY <3>2 DEF GsaNamesUsed
    <3> QED
      BY <3>1, <3>2
  <2> QED
    BY <2>1, <2>2 DEF SentencesNameTheirSvs
<1> QED
  BY <1>1, SentencesAreMade, PTL
=============================================================================
