---------------------------- MODULE GnssNiProofs ----------------------------
(***************************************************************************)
(* Theorems about the network initiated requests, for any number of        *)
(* requests of either kind, any answers and any bound on the queue.        *)
(***************************************************************************)
EXTENDS GnssNi, SequenceTheorems, TLAPS

-----------------------------------------------------------------------------
(* Types, and who takes which request.  A session holds only requests of   *)
(* its kind; whatever a thread has in hand is to be answered, not ignored. *)

InPlace ==
  \A s \in Slot : slot[s].rawRequest # None => s = SlotOf(slot[s].rawRequest)

SentIsAnswer ==
  \A r \in Request :
    /\ thread[r].raw # None => thread[r].resp \in Answer
    /\ thread[r].at = "send" => thread[r].raw # None

Inv == TypeOK /\ InPlace /\ EachTakesItsOwn /\ SentIsAnswer

LEMMA SlotOfIsSlot == \A r : SlotOf(r) \in Slot
  BY DEF SlotOf, Slot

LEMMA HeadIsMessage ==
  ASSUME TypeOK, queue # << >>
  PROVE  /\ Head(queue) \in Message /\ Tail(queue) \in Seq(Message)
         /\ Head(queue).kind = "notify" => Head(queue).req \in Request
         /\ Head(queue).kind = "respond" =>
              Head(queue).id \in Nat /\ Head(queue).answer \in UserAnswer
         /\ Head(queue).kind = "inform" =>
              Head(queue).req \in Request /\ Head(queue).answer \in Answer
<1>1. Head(queue) \in Message /\ Tail(queue) \in Seq(Message)
  BY DEF TypeOK
<1> QED
  BY <1>1 DEF Message

(* The types of the two structures the threads share, on their own.        *)
NiSession == [rawRequest : Request \cup {None}, reqID : Nat, resp : Response,
              respRecvd : BOOLEAN]
NiThreadState == [at : {"none", "ready", "waiting", "forget", "send", "over"},
                  raw : Request \cup {None}, resp : Response]

LEMMA SharedTypes ==
  TypeOK => slot \in [Slot -> NiSession] /\ thread \in [Request -> NiThreadState]
  BY DEF TypeOK, NiSession, NiThreadState

LEMMA TypesBack ==
  ASSUME slot' \in [Slot -> NiSession], thread' \in [Request -> NiThreadState]
  PROVE  /\ slot' \in [Slot -> [rawRequest : Request \cup {None}, reqID : Nat,
                               resp : Response, respRecvd : BOOLEAN]]
         /\ thread' \in [Request -> [at : {"none", "ready", "waiting", "forget", "send", "over"},
                                    raw : Request \cup {None}, resp : Response]]
  BY DEF NiSession, NiThreadState

LEMMA SessionTaken ==
  ASSUME NEW v \in NiSession, NEW r \in Request, NEW n \in Nat
  PROVE  [[v EXCEPT !.rawRequest = r] EXCEPT !.reqID = n] \in NiSession
<1> DEFINE w == [v EXCEPT !.rawRequest = r]
<1>1. w \in NiSession
  BY DEF NiSession
<1> HIDE DEF w
<1>2. [w EXCEPT !.reqID = n] \in NiSession
  BY <1>1 DEF NiSession
<1> QED
  BY <1>2 DEF w

LEMMA InitInv == Init => Inv
<1> SUFFICES ASSUME Init PROVE Inv
  OBVIOUS
<1>1. TypeOK
  BY DEF Init, TypeOK, Idle, Slot, Response, Answer
<1>2. InPlace /\ EachTakesItsOwn /\ SentIsAnswer
  BY SlotOfIsSlot DEF Init, InPlace, EachTakesItsOwn, SentIsAnswer, Awaits
<1> QED
  BY <1>1, <1>2 DEF Inv

(* Actions that change neither a session nor a thread.                     *)
LEMMA SameHolders ==
  ASSUME Inv, TypeOK', UNCHANGED <<slot, thread>>
  PROVE  Inv'
  BY DEF Inv, InPlace, EachTakesItsOwn, SentIsAnswer, Awaits

LEMMA OutsideInv ==
  ASSUME Inv, Outside
  PROVE  Inv'
<1>0. TypeOK
  BY DEF Inv
<1>1. ASSUME NEW r \in Request, RequestNiNotifyEvent(r)
      PROVE  Inv'
  <2>1. [kind |-> "notify", req |-> r] \in Message
    BY DEF Message
  <2>2. queue' \in Seq(Message)
    BY <1>0, <1>1, <2>1 DEF TypeOK, RequestNiNotifyEvent
  <2>3. TypeOK'
    BY <1>0, <1>1, <2>2 DEF TypeOK, RequestNiNotifyEvent, user
  <2> QED
    BY <1>1, <2>3, SameHolders DEF RequestNiNotifyEvent
<1>2. ASSUME NEW r \in Request, NEW a \in UserAnswer, UserAnswers(r, a)
      PROVE  Inv'
  <2>1. told[r] \in Nat
    BY <1>0, <1>2 DEF TypeOK, UserAnswers
  <2>2. [kind |-> "respond", id |-> told[r], answer |-> a] \in Message
    BY <2>1 DEF Message
  <2>3. queue' \in Seq(Message)
    BY <1>0, <1>2, <2>2 DEF TypeOK, UserAnswers
  <2>4. TypeOK'
    BY <1>0, <1>2, <2>3 DEF TypeOK, UserAnswers
  <2> QED
    BY <1>2, <2>4, SameHolders DEF UserAnswers
<1>3. ASSUME ClientsChange
      PROVE  Inv'
  <2>1. TypeOK'
    BY <1>0, <1>3 DEF TypeOK, ClientsChange, user
  <2> QED
    BY <1>3, <2>1, SameHolders DEF ClientsChange
<1> QED
  BY <1>1, <1>2, <1>3 DEF Outside

LEMMA MsgTaskInv ==
  ASSUME Inv, MsgTask
  PROVE  Inv'
<1>0. TypeOK
  BY DEF Inv
<1>1. ASSUME Handle("notify"), NEW r, r = Head(queue).req, Discard(r),
             UNCHANGED <<listening, thread, user>>
      PROVE  Inv'
  <2>1. TypeOK'
    BY <1>0, <1>1, HeadIsMessage DEF TypeOK, Handle, Discard, user
  <2> QED
    BY <1>1, <2>1, SameHolders DEF Discard
<1>2. ASSUME Handle("notify"), NEW r, r = Head(queue).req, Accept(r),
             UNCHANGED <<listening, thread, user>>
      PROVE  Inv'
  <2>1. r \in Request /\ SlotOf(r) \in Slot /\ queue' \in Seq(Message)
    BY <1>0, <1>2, HeadIsMessage, SlotOfIsSlot DEF Handle
  <2>2. slot' = [slot EXCEPT ![SlotOf(r)].rawRequest = r,
                             ![SlotOf(r)].reqID = reqIDCounter + 1]
    BY <1>2 DEF Accept, Save
  <2>3. slot[SlotOf(r)].rawRequest = None
    BY <1>2, <2>1 DEF Accept, Occupied, Busy, SlotOf
  <2>4. TypeOK'
    <3> DEFINE old == slot[SlotOf(r)]
               id == reqIDCounter + 1
               new == [[old EXCEPT !.rawRequest = r] EXCEPT !.reqID = id]
    <3>1. slot[SlotOf(r)] \in NiSession /\ reqIDCounter \in Nat
      BY <1>0, <2>1, SharedTypes DEF TypeOK
    <3>2. new \in NiSession
      <4>1. r \in Request /\ old \in NiSession /\ id \in Nat
        BY <2>1, <3>1
      <4> HIDE DEF old, id
      <4> QED
        BY <4>1, SessionTaken
    <3>3. slot' = [slot EXCEPT ![SlotOf(r)] = new]
      BY <1>0, <2>1, <2>2 DEF TypeOK
    <3> HIDE DEF new
    <3>4. slot' \in [Slot -> NiSession]
      BY <1>0, <3>2, <3>3, SharedTypes
    <3>5. thread' \in [Request -> NiThreadState]
      BY <1>0, <1>2, SharedTypes
    <3>6. task' \in [at : {"idle", "tell", "ignore", "answer"}, slot : Slot, answer : Response]
      BY <1>2, <2>1 DEF Accept, Idle, Response, Answer
    <3> QED
      BY <1>0, <1>2, <2>1, <3>4, <3>5, <3>6, TypesBack DEF TypeOK, Accept, user
  <2>5. \A s \in Slot : slot'[s].rawRequest = IF s = SlotOf(r) THEN r ELSE slot[s].rawRequest
    BY <1>0, <2>1, <2>2 DEF TypeOK
  <2>6. InPlace'
    BY <2>1, <2>5 DEF Inv, InPlace
  <2>7. ASSUME NEW q \in Request
        PROVE  Awaits(q) => SlotOf(q) # SlotOf(r)
    BY <2>1, <2>3, EmergencyAssumption DEF Inv, EachTakesItsOwn
  <2>8. EachTakesItsOwn'
    BY <1>2, <2>5, <2>7, SlotOfIsSlot DEF Inv, EachTakesItsOwn, Awaits
  <2> QED
    BY <1>2, <2>4, <2>6, <2>8 DEF Inv, SentIsAnswer
<1>3. ASSUME Tell
      PROVE  Inv'
  <2> DEFINE r == slot[task.slot].rawRequest
  <2>1. task.slot \in Slot /\ r \in Request \cup {None} /\ slot[task.slot].reqID \in Nat
    BY <1>0 DEF TypeOK
  <2>2. /\ told' = [told EXCEPT ![r] = slot[task.slot].reqID]
        /\ thread' = [thread EXCEPT ![r].at = "ready"] \/ thread' = thread
        /\ task' = Idle
        /\ UNCHANGED <<queue, slot, reqIDCounter, listening, answers, outcome>>
    BY <1>3 DEF Tell
  <2>3. r # None => task.slot = SlotOf(r)
    BY <2>1 DEF Inv, InPlace
  <2> HIDE DEF r
  <2>4. TypeOK'
    <3>1. thread' \in [Request -> NiThreadState]
      BY <1>0, <2>1, <2>2, SharedTypes DEF NiThreadState
    <3>2. slot' \in [Slot -> NiSession]
      BY <1>0, <2>2, SharedTypes
    <3>3. task' \in [at : {"idle", "tell", "ignore", "answer"}, slot : Slot, answer : Response]
      BY <2>2 DEF Idle, Slot, Response, Answer
    <3>4. told' \in [Request -> Nat \cup {NotTold}]
      BY <1>0, <2>1, <2>2 DEF TypeOK
    <3> QED
      BY <1>0, <2>2, <3>1, <3>2, <3>3, <3>4, TypesBack DEF TypeOK
  <2>5. \A q \in Request :
          /\ thread'[q].raw = thread[q].raw /\ thread'[q].resp = thread[q].resp
          /\ thread'[q].at = "send" => thread[q].at = "send"
          /\ Awaits(q)' => Awaits(q) \/ q = r
    BY <1>0, <2>1, <2>2 DEF TypeOK, Awaits
  <2>6. EachTakesItsOwn'
    BY <2>2, <2>3, <2>5, EmergencyAssumption DEF r, Inv, EachTakesItsOwn
  <2> QED
    BY <2>2, <2>4, <2>5, <2>6 DEF Inv, InPlace, SentIsAnswer
<1>4. ASSUME GnssNiResponse
      PROVE  Inv'
  <2>1. /\ queue' \in Seq(Message) /\ Head(queue).answer \in UserAnswer
        /\ UNCHANGED <<slot, reqIDCounter, listening, thread, user, outcome>>
    BY <1>0, <1>4, HeadIsMessage DEF GnssNiResponse, Handle
  <2>2. ActiveSession(Head(queue).id) \subseteq Slot
    BY DEF ActiveSession, Slot
  <2>3. task' = task \/ \E s \in Slot, at \in {"ignore", "answer"} :
          task' = [at |-> at, slot |-> s, answer |-> Head(queue).answer]
    BY <1>4, <2>2 DEF GnssNiResponse
  <2>4. TypeOK'
    BY <1>0, <2>1, <2>3 DEF TypeOK, user, Response, Answer
  <2> QED
    BY <2>1, <2>4, SameHolders
<1>5. ASSUME NEW s \in Slot, NEW a \in Response, Respond(s, a),
             task' \in [at : {"idle", "answer"}, slot : Slot, answer : Response],
             UNCHANGED <<queue, reqIDCounter, listening, thread, user, outcome>>
      PROVE  Inv'
  <2>1. slot' = [slot EXCEPT ![s].resp = a, ![s].respRecvd = TRUE]
    BY <1>5 DEF Respond
  <2>2. TypeOK'
    <3> DEFINE new == [slot[s] EXCEPT !.resp = a, !.respRecvd = TRUE]
    <3>1. slot[s] \in NiSession
      BY <1>0, <1>5, SharedTypes
    <3>2. new \in NiSession
      BY <1>5, <3>1 DEF NiSession
    <3>3. slot' = [slot EXCEPT ![s] = new]
      BY <1>0, <1>5, <2>1 DEF TypeOK
    <3> HIDE DEF new
    <3>4. slot' \in [Slot -> NiSession]
      BY <1>0, <3>2, <3>3, SharedTypes
    <3>5. thread' \in [Request -> NiThreadState]
      BY <1>0, <1>5, SharedTypes
    <3> QED
      BY <1>0, <1>5, <3>4, <3>5, TypesBack DEF TypeOK, user
  <2>3. \A t \in Slot : slot'[t].rawRequest = slot[t].rawRequest
    BY <1>0, <2>1 DEF TypeOK
  <2> QED
    BY <1>5, <2>2, <2>3, SlotOfIsSlot
       DEF Inv, InPlace, EachTakesItsOwn, SentIsAnswer, Awaits
<1>6. ASSUME IgnorePlain
      PROVE  Inv'
  <2>1. task' \in [at : {"idle", "answer"}, slot : Slot, answer : Response]
    BY <1>0, <1>6 DEF IgnorePlain, TypeOK
  <2>2. "session" \in Slot /\ "IGNORE" \in Response
    BY DEF Slot, Response
  <2> QED
    BY <1>5, <1>6, <2>1, <2>2 DEF IgnorePlain
<1>7. ASSUME AnswerSession
      PROVE  Inv'
  <2>1. task' \in [at : {"idle", "answer"}, slot : Slot, answer : Response]
    BY <1>7 DEF AnswerSession, Idle, Slot, Response, Answer
  <2>2. task.slot \in Slot /\ task.answer \in Response
    BY <1>0 DEF TypeOK
  <2> QED
    BY <1>5, <1>7, <2>1, <2>2 DEF AnswerSession
<1>8. ASSUME InformNiResponse
      PROVE  Inv'
  <2>1. TypeOK'
    BY <1>0, <1>8, HeadIsMessage DEF TypeOK, InformNiResponse, Handle, user, Response
  <2> QED
    BY <1>8, <2>1, SameHolders DEF InformNiResponse
<1> QED
  BY <1>1, <1>2, <1>3, <1>4, <1>6, <1>7, <1>8 DEF MsgTask, RequestNiNotify

LEMMA DecideInv ==
  ASSUME Inv, NEW r \in Request, Awaits(r), NEW resp \in Response, Decide(r, resp),
         UNCHANGED <<queue, task, reqIDCounter, listening, user>>
  PROVE  Inv'
<1> DEFINE s == SlotOf(r)
           hand == IF resp = "IGNORE" THEN None ELSE r
<1>0. TypeOK /\ s \in Slot /\ r # None
  BY SlotOfIsSlot, EmergencyAssumption DEF Inv
<1>1. slot[s].rawRequest = r
  BY DEF Inv, EachTakesItsOwn
<1>2. slot' = [slot EXCEPT ![s].rawRequest = None, ![s].resp = resp, ![s].respRecvd = FALSE]
  BY DEF Decide
<1>3. thread' = [thread EXCEPT ![r] = [at |-> "forget", raw |-> hand, resp |-> resp]]
  BY <1>0, <1>1 DEF Decide
<1>4. outcome' = [q \in Request |-> IF q = r /\ hand = None THEN "IGNORE" ELSE outcome[q]]
  BY <1>0, <1>1 DEF Decide
<1>5. slot' \in [Slot -> NiSession]
  <2> DEFINE one == [slot[s] EXCEPT !.rawRequest = None]
             two == [one EXCEPT !.resp = resp]
             new == [two EXCEPT !.respRecvd = FALSE]
  <2>1. slot[s] \in NiSession
    BY <1>0, SharedTypes
  <2>2. one \in NiSession
    BY <2>1 DEF NiSession
  <2>3. two \in NiSession
    BY <2>2 DEF NiSession
  <2>4. new \in NiSession
    BY <2>3 DEF NiSession
  <2>5. slot' = [slot EXCEPT ![s] = new]
    BY <1>0, <1>2 DEF TypeOK
  <2> HIDE DEF new
  <2> QED
    BY <1>0, <2>4, <2>5, SharedTypes
<1>6. thread' \in [Request -> NiThreadState]
  BY <1>0, <1>3, SharedTypes DEF NiThreadState
<1>7. TypeOK'
  BY <1>0, <1>4, <1>5, <1>6, TypesBack DEF TypeOK, user, Response
<1>8. \A t \in Slot : slot'[t].rawRequest = IF t = s THEN None ELSE slot[t].rawRequest
  BY <1>0, <1>2 DEF TypeOK
<1>9. InPlace'
  BY <1>0, <1>8 DEF Inv, InPlace
<1>10. \A q \in Request \ {r} : SlotOf(q) = s => ~Awaits(q)
  BY <1>1 DEF Inv, EachTakesItsOwn
<1>11. EachTakesItsOwn'
  <2>1. ASSUME NEW q \in Request, q # r
        PROVE  /\ Awaits(q)' => slot'[SlotOf(q)].rawRequest = q
               /\ thread'[q].raw \in {q, None}
    <3>1. thread'[q] = thread[q]
      BY <1>0, <1>3, <2>1 DEF TypeOK
    <3> QED
      BY <1>8, <1>10, <2>1, <3>1, SlotOfIsSlot DEF Inv, EachTakesItsOwn, Awaits
  <2>2. ~Awaits(r)' /\ thread'[r].raw \in {r, None}
    BY <1>0, <1>3 DEF TypeOK, Awaits
  <2> QED
    BY <2>1, <2>2 DEF EachTakesItsOwn
<1>12. SentIsAnswer'
  BY <1>0, <1>3 DEF TypeOK, Inv, SentIsAnswer, Response
<1> QED
  BY <1>7, <1>9, <1>11, <1>12 DEF Inv

(* When a thread decides with an answer it has read, it was one.           *)
LEMMA NiThreadInv ==
  ASSUME Inv, NEW r \in Request, NiThread(r)
  PROVE  Inv'
<1>0. TypeOK /\ SlotOf(r) \in Slot
  BY SlotOfIsSlot DEF Inv
<1>1. slot[SlotOf(r)].resp \in Response
  BY <1>0 DEF TypeOK
<1>2. CASE Begin(r)
  <2>1. CASE slot[SlotOf(r)].respRecvd
    BY <1>1, <1>2, <2>1, DecideInv DEF Begin, Awaits
  <2>2. CASE ~slot[SlotOf(r)].respRecvd
    <3>1. /\ thread[r].at = "ready"
          /\ thread' = [thread EXCEPT ![r].at = "waiting"]
          /\ UNCHANGED <<slot, outcome, queue, task, reqIDCounter, listening, user>>
      BY <1>2, <2>2 DEF Begin
    <3>2. thread' \in [Request -> NiThreadState]
      BY <1>0, <3>1, SharedTypes DEF NiThreadState
    <3>3. slot' \in [Slot -> NiSession]
      BY <1>0, <3>1, SharedTypes
    <3>4. TypeOK'
      BY <1>0, <3>1, <3>2, <3>3, TypesBack DEF TypeOK, user
    <3>5. \A q \in Request :
            /\ thread'[q].raw = thread[q].raw /\ thread'[q].resp = thread[q].resp
            /\ thread'[q].at = "send" => thread[q].at = "send"
            /\ Awaits(q)' <=> Awaits(q)
      BY <1>0, <3>1 DEF TypeOK, Awaits
    <3> QED
      BY <3>1, <3>4, <3>5 DEF Inv, InPlace, EachTakesItsOwn, SentIsAnswer
  <2> QED
    BY <2>1, <2>2
<1>3. CASE Wake(r)
  BY <1>1, <1>3, DecideInv DEF Wake, Awaits
<1>4. CASE TimeOut(r)
  BY <1>4, DecideInv DEF TimeOut, Awaits, Response, Answer
<1>5. CASE Forget(r)
  <2>1. /\ slot' = [slot EXCEPT ![SlotOf(r)].reqID = 0]
        /\ thread' = [thread EXCEPT ![r].at = IF thread[r].raw = None THEN "over" ELSE "send"]
        /\ UNCHANGED <<queue, task, reqIDCounter, listening, user, outcome>>
    BY <1>5 DEF Forget
  <2>2. slot' \in [Slot -> NiSession]
    BY <1>0, <2>1, SharedTypes DEF NiSession
  <2>3. thread' \in [Request -> NiThreadState]
    BY <1>0, <2>1, SharedTypes DEF NiThreadState
  <2>4. TypeOK'
    BY <1>0, <2>1, <2>2, <2>3, TypesBack DEF TypeOK, user
  <2>5. \A s \in Slot : slot'[s].rawRequest = slot[s].rawRequest
    BY <1>0, <2>1 DEF TypeOK
  <2>6. \A q \in Request :
          /\ thread'[q].raw = thread[q].raw /\ thread'[q].resp = thread[q].resp
          /\ thread'[q].at = "send" => thread[q].at = "send" \/ thread[q].raw # None
          /\ Awaits(q)' => Awaits(q)
    BY <1>0, <2>1 DEF TypeOK, Awaits
  <2> QED
    BY <2>4, <2>5, <2>6, SlotOfIsSlot DEF Inv, InPlace, EachTakesItsOwn, SentIsAnswer
<1>6. CASE Send(r)
  <2>1. /\ thread[r].at = "send"
        /\ queue' = Append(queue, [kind |-> "inform", req |-> thread[r].raw,
                                   answer |-> thread[r].resp])
        /\ thread' = [thread EXCEPT ![r].at = "over"]
        /\ UNCHANGED <<task, slot, reqIDCounter, listening, user, outcome>>
    BY <1>6 DEF Send
  <2>2. thread[r].raw \in Request /\ thread[r].resp \in Answer
    BY <1>0, <2>1 DEF Inv, SentIsAnswer, TypeOK
  <2>3. [kind |-> "inform", req |-> thread[r].raw, answer |-> thread[r].resp] \in Message
    BY <2>2 DEF Message
  <2>4. queue' \in Seq(Message)
    BY <1>0, <2>1, <2>3 DEF TypeOK
  <2>5. thread' \in [Request -> NiThreadState] /\ slot' \in [Slot -> NiSession]
    BY <1>0, <2>1, SharedTypes DEF NiThreadState
  <2>6. TypeOK'
    BY <1>0, <2>1, <2>4, <2>5, TypesBack DEF TypeOK, user
  <2>7. \A q \in Request :
          /\ thread'[q].raw = thread[q].raw /\ thread'[q].resp = thread[q].resp
          /\ thread'[q].at = "send" => thread[q].at = "send"
          /\ Awaits(q)' => Awaits(q)
    BY <1>0, <2>1 DEF TypeOK, Awaits
  <2> QED
    BY <2>1, <2>6, <2>7 DEF Inv, InPlace, EachTakesItsOwn, SentIsAnswer
<1> QED
  BY <1>2, <1>3, <1>4, <1>5, <1>6 DEF NiThread

LEMMA AlwaysInv == Spec => []Inv
<1>1. ASSUME Inv, [Next]_vars
      PROVE  Inv'
  <2>1. CASE UNCHANGED vars
    <3>1. TypeOK'
      BY <1>1, <2>1 DEF vars, user, Inv, TypeOK
    <3> QED
      BY <1>1, <2>1, <3>1, SameHolders DEF vars
  <2> QED
    BY <1>1, <2>1, OutsideInv, MsgTaskInv, NiThreadInv DEF Next
<1> QED
  BY <1>1, InitInv, PTL DEF Spec

(* Every variable of the adapter's request handling stays well typed; in   *)
(* particular the modem is never informed of a request that is to be       *)
(* ignored.                                                                *)
THEOREM TypeCorrect == Spec => []TypeOK
<1>1. Inv => TypeOK
  BY DEF Inv
<1> QED
  BY <1>1, AlwaysInv, PTL

(* However threads of successive requests overlap, a thread finds exactly  *)
(* the request it was created for in its session, and no other thread      *)
(* waits on that session.                                                  *)
THEOREM TakesItsOwn == Spec => []EachTakesItsOwn
<1>1. Inv => EachTakesItsOwn
  BY DEF Inv
<1> QED
  BY <1>1, AlwaysInv, PTL

-----------------------------------------------------------------------------
(* Who holds a request: one message, its session, or its thread.           *)

About(m, r) == m.kind # "respond" /\ m.req = r
Queued(r) == \E i \in DOMAIN queue : About(queue[i], r)
Single(r) == \A i, j \in DOMAIN queue : About(queue[i], r) /\ About(queue[j], r) => i = j
InSlot(r) == slot[SlotOf(r)].rawRequest = r
InThread(r) == thread[r].at \in {"forget", "send"} /\ thread[r].raw = r

OwnOf(r) ==
  /\ outcome[r] = "open" <=> InSlot(r) \/ InThread(r) \/ Queued(r)
  /\ ~(InSlot(r) /\ InThread(r)) /\ ~(InSlot(r) /\ Queued(r)) /\ ~(InThread(r) /\ Queued(r))
  /\ Single(r)

Own == \A r \in Request : OwnOf(r)

LEMMA Pushed ==
  ASSUME TypeOK, NEW m, queue' = Append(queue, m), NEW r
  PROVE  /\ Queued(r)' <=> Queued(r) \/ About(m, r)
         /\ Single(r) /\ ~(Queued(r) /\ About(m, r)) => Single(r)'
<1>1. /\ Len(queue) \in Nat /\ DOMAIN queue = 1..Len(queue)
      /\ DOMAIN queue' = 1..(Len(queue) + 1)
      /\ \A i \in 1..Len(queue) : queue'[i] = queue[i]
      /\ queue'[Len(queue) + 1] = m
  BY DEF TypeOK
<1>2. Queued(r)' <=> Queued(r) \/ About(m, r)
  <2>1. Queued(r) => Queued(r)'
    BY <1>1 DEF Queued
  <2>2. About(m, r) => Queued(r)'
    BY <1>1 DEF Queued
  <2>3. Queued(r)' => Queued(r) \/ About(m, r)
    <3>1. \A i \in DOMAIN queue' : i \in DOMAIN queue \/ i = Len(queue) + 1
      BY <1>1
    <3> QED
      BY <1>1, <3>1 DEF Queued
  <2> QED
    BY <2>1, <2>2, <2>3
<1>3. ASSUME Single(r), ~(Queued(r) /\ About(m, r)),
             NEW i \in DOMAIN queue', NEW j \in DOMAIN queue',
             About(queue'[i], r), About(queue'[j], r)
      PROVE  i = j
  <2>1. \A k \in DOMAIN queue' : k \in DOMAIN queue \/ k = Len(queue) + 1
    BY <1>1
  <2>2. CASE About(m, r)
    BY <1>1, <1>3, <2>1, <2>2 DEF Queued
  <2>3. CASE ~About(m, r)
    BY <1>1, <1>3, <2>1, <2>3 DEF Single
  <2> QED
    BY <2>2, <2>3
<1> QED
  BY <1>2, <1>3 DEF Single

LEMMA Popped ==
  ASSUME TypeOK, queue # << >>, queue' = Tail(queue), NEW r
  PROVE  /\ Queued(r) <=> Queued(r)' \/ About(Head(queue), r)
         /\ Single(r) => Single(r)' /\ ~(Queued(r)' /\ About(Head(queue), r))
<1>1. /\ Len(queue) \in Nat \ {0} /\ DOMAIN queue = 1..Len(queue)
      /\ DOMAIN queue' = 1..(Len(queue) - 1)
      /\ \A i \in 1..(Len(queue) - 1) : queue'[i] = queue[i + 1]
      /\ Head(queue) = queue[1]
  BY DEF TypeOK
<1>2. \A i \in DOMAIN queue' : i + 1 \in DOMAIN queue /\ i + 1 # 1 /\ queue'[i] = queue[i + 1]
  BY <1>1
<1>3. \A i \in DOMAIN queue : i = 1 \/ (i - 1 \in DOMAIN queue' /\ queue'[i - 1] = queue[i])
  BY <1>1
<1>4. 1 \in DOMAIN queue
  BY <1>1
<1>5. Queued(r)' \/ About(Head(queue), r) => Queued(r)
  BY <1>1, <1>2, <1>4 DEF Queued
<1>6. Queued(r) => Queued(r)' \/ About(Head(queue), r)
  BY <1>1, <1>3 DEF Queued
<1>7. ASSUME Single(r)
      PROVE  Single(r)' /\ ~(Queued(r)' /\ About(Head(queue), r))
  <2>1. ASSUME NEW i \in DOMAIN queue', NEW j \in DOMAIN queue',
               About(queue'[i], r), About(queue'[j], r)
        PROVE  i = j
    <3>1. i + 1 = j + 1
      BY <1>2, <1>7, <2>1 DEF Single
    <3>2. i \in Int /\ j \in Int
      BY <1>1
    <3> QED
      BY <3>1, <3>2
  <2>2. ASSUME NEW i \in DOMAIN queue', About(queue'[i], r), About(Head(queue), r)
        PROVE  FALSE
    BY <1>1, <1>2, <1>4, <1>7, <2>2 DEF Single
  <2> QED
    BY <2>1, <2>2 DEF Single, Queued
<1> QED
  BY <1>5, <1>6, <1>7

LEMMA SameQueue ==
  ASSUME queue' = queue, NEW r
  PROVE  (Queued(r)' <=> Queued(r)) /\ (Single(r)' <=> Single(r))
  BY DEF Queued, Single

LEMMA OwnIsOneOwner == Inv /\ Own => OneOwner
<1> SUFFICES ASSUME Inv, Own, NEW r \in Request
             PROVE  IF outcome[r] = "open"
                    THEN \E h \in Holders(r) : Holders(r) = {h}
                    ELSE Holders(r) = {}
  BY DEF OneOwner
<1>0. TypeOK /\ r # None /\ OwnOf(r)
  BY EmergencyAssumption DEF Inv, Own
<1>1. \A h : h \in Holders(r) <=>
        \/ \E i \in DOMAIN queue : About(queue[i], r) /\ h = <<"message", i>>
        \/ \E s \in Slot : slot[s].rawRequest = r /\ h = <<"session", s>>
        \/ \E q \in Request : /\ thread[q].at \in {"forget", "send"} /\ thread[q].raw = r
                             /\ h = <<"thread", q>>
  BY DEF Holders, About
<1>2. \A s \in Slot : slot[s].rawRequest = r <=> s = SlotOf(r) /\ InSlot(r)
  BY <1>0 DEF Inv, InPlace, InSlot
<1>3. \A q \in Request :
        thread[q].at \in {"forget", "send"} /\ thread[q].raw = r <=> q = r /\ InThread(r)
  BY <1>0 DEF Inv, EachTakesItsOwn, InThread
<1>4. \A h : h \in Holders(r) <=>
        \/ \E i \in DOMAIN queue : About(queue[i], r) /\ h = <<"message", i>>
        \/ InSlot(r) /\ h = <<"session", SlotOf(r)>>
        \/ InThread(r) /\ h = <<"thread", r>>
  BY <1>1, <1>2, <1>3, SlotOfIsSlot
<1>5. CASE Queued(r)
  <2>1. PICK i \in DOMAIN queue : About(queue[i], r)
    BY <1>5 DEF Queued
  <2>2. \A h : h \in Holders(r) <=> h = <<"message", i>>
    BY <1>0, <1>4, <1>5, <2>1 DEF OwnOf, Single
  <2>3. Holders(r) = {<<"message", i>>} /\ <<"message", i>> \in Holders(r)
    BY <2>2
  <2> QED
    BY <1>0, <1>5, <2>3 DEF OwnOf
<1>6. CASE InSlot(r)
  <2>1. \A h : h \in Holders(r) <=> h = <<"session", SlotOf(r)>>
    BY <1>0, <1>4, <1>6 DEF OwnOf, Queued
  <2>2. Holders(r) = {<<"session", SlotOf(r)>>} /\ <<"session", SlotOf(r)>> \in Holders(r)
    BY <2>1
  <2> QED
    BY <1>0, <1>6, <2>2 DEF OwnOf
<1>7. CASE InThread(r)
  <2>1. \A h : h \in Holders(r) <=> h = <<"thread", r>>
    BY <1>0, <1>4, <1>7 DEF OwnOf, Queued
  <2>2. Holders(r) = {<<"thread", r>>} /\ <<"thread", r>> \in Holders(r)
    BY <2>1
  <2> QED
    BY <1>0, <1>7, <2>2 DEF OwnOf
<1>8. CASE ~Queued(r) /\ ~InSlot(r) /\ ~InThread(r)
  <2>1. Holders(r) = {}
    BY <1>4, <1>8 DEF Queued
  <2> QED
    BY <1>0, <1>8, <2>1 DEF OwnOf
<1> QED
  BY <1>5, <1>6, <1>7, <1>8

(* What changes for a request that is handed on.                           *)
LEMMA DecideOwn ==
  ASSUME Inv, Own, NEW r \in Request, Awaits(r), NEW resp \in Response, Decide(r, resp),
         queue' = queue
  PROVE  Own'
<1> DEFINE s == SlotOf(r)
<1>0. TypeOK /\ s \in Slot /\ r # None /\ InSlot(r)
  BY SlotOfIsSlot, EmergencyAssumption DEF Inv, EachTakesItsOwn, InSlot
<1>1. slot' = [slot EXCEPT ![s].rawRequest = None, ![s].resp = resp, ![s].respRecvd = FALSE]
  BY DEF Decide
<1>2. thread' = [thread EXCEPT ![r] =
                   [at |-> "forget", raw |-> IF resp = "IGNORE" THEN None ELSE r, resp |-> resp]]
  BY <1>0 DEF Decide, InSlot
<1>3. outcome' = [q \in Request |-> IF q = r /\ resp = "IGNORE" THEN "IGNORE" ELSE outcome[q]]
  BY <1>0 DEF Decide, InSlot
<1>4. ASSUME NEW q \in Request, q # r
      PROVE  OwnOf(q)'
  <2>1. thread'[q] = thread[q] /\ outcome'[q] = outcome[q]
    BY <1>0, <1>2, <1>3, <1>4 DEF TypeOK
  <2>2. \A t \in Slot : slot'[t].rawRequest = IF t = s THEN None ELSE slot[t].rawRequest
    BY <1>0, <1>1 DEF TypeOK
  <2>3. InSlot(q)' <=> InSlot(q)
    BY <1>0, <1>4, <2>2, SlotOfIsSlot, EmergencyAssumption DEF InSlot
  <2>4. InThread(q)' <=> InThread(q)
    BY <2>1 DEF InThread
  <2>5. OwnOf(q)
    BY DEF Own
  <2> QED
    BY <2>1, <2>3, <2>4, <2>5, SameQueue DEF OwnOf
<1>5. OwnOf(r)'
  <2>1. OwnOf(r) /\ outcome[r] = "open"
    BY <1>0 DEF Own, OwnOf
  <2>2. ~InSlot(r)'
    BY <1>0, <1>1 DEF TypeOK, InSlot
  <2>3. InThread(r)' <=> resp # "IGNORE"
    BY <1>0, <1>2 DEF TypeOK, InThread
  <2>4. outcome'[r] = "open" <=> resp # "IGNORE"
    BY <1>3, <2>1
  <2> QED
    BY <1>0, <2>1, <2>2, <2>3, <2>4, SameQueue DEF OwnOf
<1> QED
  BY <1>4, <1>5 DEF Own

(* Steps that hand no request on.                                          *)
LEMMA KeepsOwn ==
  ASSUME Own, outcome' = outcome,
         \A r \in Request :
           /\ (InSlot(r)' <=> InSlot(r)) /\ (InThread(r)' <=> InThread(r))
           /\ (Queued(r)' <=> Queued(r)) /\ (Single(r) => Single(r)')
  PROVE  Own'
  BY DEF Own, OwnOf

LEMMA NiThreadOwn ==
  ASSUME Inv, Own, NEW r \in Request, NiThread(r)
  PROVE  Own'
<1>0. TypeOK /\ SlotOf(r) \in Slot
  BY SlotOfIsSlot DEF Inv
<1>1. slot[SlotOf(r)].resp \in Response
  BY <1>0 DEF TypeOK
<1>2. CASE Begin(r)
  <2>1. CASE slot[SlotOf(r)].respRecvd
    BY <1>1, <1>2, <2>1, DecideOwn DEF Begin, Awaits
  <2>2. CASE ~slot[SlotOf(r)].respRecvd
    <3>1. /\ thread[r].at = "ready"
          /\ thread' = [thread EXCEPT ![r].at = "waiting"]
          /\ UNCHANGED <<slot, outcome, queue>>
      BY <1>2, <2>2 DEF Begin
    <3>2. \A q \in Request : InThread(q)' <=> InThread(q)
      BY <1>0, <3>1 DEF TypeOK, InThread
    <3> QED
      BY <3>1, <3>2, SameQueue, KeepsOwn DEF InSlot
  <2> QED
    BY <2>1, <2>2
<1>3. CASE Wake(r)
  BY <1>1, <1>3, DecideOwn DEF Wake, Awaits
<1>4. CASE TimeOut(r)
  BY <1>4, DecideOwn DEF TimeOut, Awaits, Response, Answer
<1>5. CASE Forget(r)
  <2>1. /\ thread[r].at = "forget"
        /\ slot' = [slot EXCEPT ![SlotOf(r)].reqID = 0]
        /\ thread' = [thread EXCEPT ![r].at = IF thread[r].raw = None THEN "over" ELSE "send"]
        /\ UNCHANGED <<queue, outcome>>
    BY <1>5 DEF Forget
  <2>2. \A q \in Request : InThread(q)' <=> InThread(q)
    BY <1>0, <2>1, EmergencyAssumption DEF TypeOK, InThread
  <2>3. \A q \in Request : InSlot(q)' <=> InSlot(q)
    BY <1>0, <2>1, SlotOfIsSlot DEF TypeOK, InSlot
  <2> QED
    BY <2>1, <2>2, <2>3, SameQueue, KeepsOwn
<1>6. CASE Send(r)
  <2> DEFINE m == [kind |-> "inform", req |-> thread[r].raw, answer |-> thread[r].resp]
  <2>1. /\ thread[r].at = "send" /\ queue' = Append(queue, m)
        /\ thread' = [thread EXCEPT ![r].at = "over"]
        /\ UNCHANGED <<slot, outcome>>
    BY <1>6 DEF Send
  <2>2. thread[r].raw = r
    BY <2>1 DEF Inv, SentIsAnswer, EachTakesItsOwn
  <2>3. \A q : About(m, q) <=> q = r
    BY <2>2 DEF About
  <2>4. InThread(r)
    BY <2>1, <2>2 DEF InThread
  <2>5. \A q \in Request : (InThread(q)' <=> InThread(q) /\ q # r) /\ (InSlot(q)' <=> InSlot(q))
    BY <1>0, <2>1 DEF TypeOK, InThread, InSlot
  <2> HIDE DEF m
  <2>6. \A q : /\ Queued(q)' <=> Queued(q) \/ q = r
               /\ Single(q) /\ ~(Queued(q) /\ q = r) => Single(q)'
    BY <1>0, <2>1, <2>3, Pushed
  <2> QED
    BY <2>1, <2>4, <2>5, <2>6 DEF Own, OwnOf
<1> QED
  BY <1>2, <1>3, <1>4, <1>5, <1>6 DEF NiThread

LEMMA OutsideOwn ==
  ASSUME Inv, Own, Outside
  PROVE  Own'
<1>0. TypeOK
  BY DEF Inv
<1>1. ASSUME NEW r \in Request, RequestNiNotifyEvent(r)
      PROVE  Own'
  <2> DEFINE m == [kind |-> "notify", req |-> r]
  <2>1. /\ outcome[r] = "unsent" /\ queue' = Append(queue, m)
        /\ outcome' = [outcome EXCEPT ![r] = "open"]
        /\ UNCHANGED <<slot, thread>>
    BY <1>1 DEF RequestNiNotifyEvent
  <2>2. \A q : About(m, q) <=> q = r
    BY DEF About
  <2> HIDE DEF m
  <2>3. \A q : /\ Queued(q)' <=> Queued(q) \/ q = r
               /\ Single(q) /\ ~(Queued(q) /\ q = r) => Single(q)'
    BY <1>0, <2>1, <2>2, Pushed
  <2>4. \A q \in Request : (InSlot(q)' <=> InSlot(q)) /\ (InThread(q)' <=> InThread(q))
    BY <2>1 DEF InSlot, InThread
  <2>5. \A q \in Request : outcome'[q] = IF q = r THEN "open" ELSE outcome[q]
    BY <1>0, <2>1 DEF TypeOK
  <2> QED
    BY <2>1, <2>3, <2>4, <2>5 DEF Own, OwnOf
<1>2. ASSUME NEW r \in Request, NEW a \in UserAnswer, UserAnswers(r, a)
      PROVE  Own'
  <2> DEFINE m == [kind |-> "respond", id |-> told[r], answer |-> a]
  <2>1. queue' = Append(queue, m) /\ UNCHANGED <<slot, thread, outcome>>
    BY <1>2 DEF UserAnswers
  <2>2. \A q : ~About(m, q)
    BY DEF About
  <2> HIDE DEF m
  <2>3. \A q : (Queued(q)' <=> Queued(q)) /\ (Single(q) => Single(q)')
    BY <1>0, <2>1, <2>2, Pushed
  <2> QED
    BY <2>1, <2>3, KeepsOwn DEF InSlot, InThread
<1>3. ASSUME ClientsChange
      PROVE  Own'
  BY <1>3, SameQueue, KeepsOwn DEF ClientsChange, InSlot, InThread
<1> QED
  BY <1>1, <1>2, <1>3 DEF Outside

LEMMA MsgTaskOwn ==
  ASSUME Inv, Own, MsgTask
  PROVE  Own'
<1>0. TypeOK
  BY DEF Inv
<1>1. ASSUME NEW kind, Handle(kind)
      PROVE  /\ queue # << >> /\ queue' = Tail(queue) /\ Head(queue).kind = kind
             /\ \A q : /\ Queued(q) <=> Queued(q)' \/ About(Head(queue), q)
                       /\ Single(q) => Single(q)' /\ ~(Queued(q)' /\ About(Head(queue), q))
  <2>1. queue # << >> /\ queue' = Tail(queue) /\ Head(queue).kind = kind
    BY <1>1 DEF Handle
  <2> QED
    BY <1>0, <2>1, Popped
<1>2. ASSUME Handle("notify"), NEW r, r = Head(queue).req, Discard(r),
             UNCHANGED <<listening, thread, user>>
      PROVE  Own'
  <2>1. r \in Request
    BY <1>0, <1>1, <1>2, HeadIsMessage
  <2>2. \A q : About(Head(queue), q) <=> q = r
    BY <1>1, <1>2 DEF About
  <2>3. \A q \in Request : (InSlot(q)' <=> InSlot(q)) /\ (InThread(q)' <=> InThread(q))
    BY <1>2 DEF Discard, InSlot, InThread
  <2>4. \A q \in Request : q # r => outcome'[q] = outcome[q]
    BY <1>0, <1>2 DEF TypeOK, Discard
  <2>5. outcome'[r] # "open"
    BY <1>0, <1>2, <2>1 DEF TypeOK, Discard
  <2> QED
    BY <1>1, <1>2, <2>1, <2>2, <2>3, <2>4, <2>5 DEF Own, OwnOf
<1>3. ASSUME Handle("notify"), NEW r, r = Head(queue).req, Accept(r),
             UNCHANGED <<listening, thread, user>>
      PROVE  Own'
  <2>1. r \in Request /\ r # None /\ SlotOf(r) \in Slot
    BY <1>0, <1>1, <1>3, HeadIsMessage, SlotOfIsSlot, EmergencyAssumption
  <2>2. \A q : About(Head(queue), q) <=> q = r
    BY <1>1, <1>3 DEF About
  <2>3. slot[SlotOf(r)].rawRequest = None
    BY <1>3, <2>1 DEF Accept, Occupied, Busy, SlotOf
  <2>4. /\ slot' = [slot EXCEPT ![SlotOf(r)].rawRequest = r,
                                ![SlotOf(r)].reqID = reqIDCounter + 1]
        /\ UNCHANGED <<thread, outcome>>
    BY <1>3 DEF Accept, Save
  <2>5. \A q \in Request : InSlot(q)' <=> InSlot(q) \/ q = r
    BY <1>0, <2>1, <2>3, <2>4, SlotOfIsSlot, EmergencyAssumption DEF TypeOK, InSlot
  <2>6. \A q \in Request : (InThread(q)' <=> InThread(q)) /\ outcome'[q] = outcome[q]
    BY <2>4 DEF InThread
  <2> QED
    BY <1>1, <1>3, <2>1, <2>2, <2>5, <2>6 DEF Own, OwnOf
<1>4. CASE Tell
  <2> DEFINE r == slot[task.slot].rawRequest
  <2>1. /\ thread' = [thread EXCEPT ![r].at = "ready"] \/ thread' = thread
        /\ UNCHANGED <<queue, slot, outcome>>
    BY <1>4 DEF Tell
  <2>2. task.slot \in Slot /\ r \in Request \cup {None}
    BY <1>0 DEF TypeOK
  <2>3. r \in Request => ~InThread(r)
    BY <2>2, EmergencyAssumption DEF Inv, InPlace, Own, OwnOf, InSlot
  <2> HIDE DEF r
  <2>4. \A q \in Request : InThread(q)' <=> InThread(q)
    <3> SUFFICES ASSUME NEW q \in Request PROVE InThread(q)' <=> InThread(q)
      OBVIOUS
    <3>1. CASE q = r
      <4>1. thread' = thread \/ thread'[q].at = "ready"
        BY <1>0, <2>1, <3>1 DEF TypeOK
      <4> QED
        BY <2>3, <3>1, <4>1 DEF InThread
    <3>2. CASE q # r
      <4>1. thread'[q] = thread[q]
        BY <1>0, <2>1, <3>2 DEF TypeOK
      <4> QED
        BY <4>1 DEF InThread
    <3> QED
      BY <3>1, <3>2
  <2> QED
    BY <2>1, <2>4, SameQueue, KeepsOwn DEF InSlot
<1>5. CASE GnssNiResponse
  <2>1. Handle("respond") /\ UNCHANGED <<slot, thread, outcome>>
    BY <1>5 DEF GnssNiResponse
  <2>2. \A q : ~About(Head(queue), q)
    BY <1>1, <2>1 DEF About
  <2>3. \A q \in Request : (InSlot(q)' <=> InSlot(q)) /\ (InThread(q)' <=> InThread(q))
    BY <2>1 DEF InSlot, InThread
  <2> QED
    BY <1>1, <2>1, <2>2, <2>3, KeepsOwn
<1>6. ASSUME NEW s \in Slot, NEW a, Respond(s, a), UNCHANGED <<queue, thread, outcome>>
      PROVE  Own'
  <2>1. \A q \in Request : InSlot(q)' <=> InSlot(q)
    BY <1>0, <1>6, SlotOfIsSlot DEF TypeOK, Respond, InSlot
  <2> QED
    BY <1>6, <2>1, SameQueue, KeepsOwn DEF InThread
<1>7. CASE IgnorePlain
  BY <1>6, <1>7 DEF IgnorePlain, Slot
<1>8. CASE AnswerSession
  <2>1. task.slot \in Slot
    BY <1>0 DEF TypeOK
  <2> QED
    BY <1>6, <1>8, <2>1 DEF AnswerSession
<1>9. CASE InformNiResponse
  <2> DEFINE r == Head(queue).req
  <2>1. /\ Handle("inform") /\ UNCHANGED <<slot, thread>>
        /\ outcome' = [outcome EXCEPT ![r] = Head(queue).answer]
    BY <1>9 DEF InformNiResponse
  <2>2. r \in Request /\ Head(queue).answer # "open"
    BY <1>0, <1>1, <2>1, HeadIsMessage, UserAnswerAssumption DEF Answer
  <2>3. \A q : About(Head(queue), q) <=> q = r
    BY <1>1, <2>1 DEF About
  <2>4. \A q \in Request : (InSlot(q)' <=> InSlot(q)) /\ (InThread(q)' <=> InThread(q))
    BY <2>1 DEF InSlot, InThread
  <2>5. \A q \in Request : q # r => outcome'[q] = outcome[q]
    BY <1>0, <2>1 DEF TypeOK
  <2>6. outcome'[r] # "open"
    BY <1>0, <2>1, <2>2 DEF TypeOK
  <2> HIDE DEF r
  <2> QED
    BY <1>1, <2>1, <2>2, <2>3, <2>4, <2>5, <2>6 DEF Own, OwnOf
<1> QED
  BY <1>2, <1>3, <1>4, <1>5, <1>7, <1>8, <1>9 DEF MsgTask, RequestNiNotify

LEMMA AlwaysOwn == Spec => []Own
<1>1. Init => Own
  <2> SUFFICES ASSUME Init, NEW r \in Request PROVE OwnOf(r)
    BY DEF Own
  <2>1. outcome[r] = "unsent" /\ DOMAIN queue = {} /\ thread[r].at = "none"
    BY DEF Init
  <2>2. ~InSlot(r)
    BY SlotOfIsSlot, EmergencyAssumption DEF Init, InSlot
  <2> QED
    BY <2>1, <2>2 DEF OwnOf, Queued, Single, InThread
<1>2. ASSUME Inv, Own, [Next]_vars
      PROVE  Own'
  <2>1. CASE UNCHANGED vars
    BY <1>2, <2>1, SameQueue, KeepsOwn DEF vars, InSlot, InThread
  <2> QED
    BY <1>2, <2>1, OutsideOwn, MsgTaskOwn, NiThreadOwn DEF Next
<1> QED
  BY <1>1, <1>2, AlwaysInv, PTL DEF Spec

(* The data of a request is at every moment in exactly one message,        *)
(* session or thread until the request is resolved, and then in none: it   *)
(* is never sent twice, freed twice or lost.                               *)
THEOREM OneOwnerAtATime == Spec => []OneOwner
  BY AlwaysInv, AlwaysOwn, OwnIsOneOwner, PTL

-----------------------------------------------------------------------------
(* Where answers come from.  First: a request is shown to the user once,   *)
(* and an id other than 0 names at most one session.                       *)

Once ==
  /\ \A r \in Request : outcome[r] = "unsent" => told[r] = NotTold
  /\ \A i \in DOMAIN queue : queue[i].kind = "notify" => told[queue[i].req] = NotTold
  /\ task.at = "tell" =>
       \A r \in Request : slot[task.slot].rawRequest = r => told[r] = NotTold

Ids ==
  /\ \A r \in Request : told[r] <= reqIDCounter
  /\ \A s \in Slot : slot[s].reqID <= reqIDCounter
  /\ \A r \in Request, s \in Slot : told[r] > 0 /\ slot[s].reqID = told[r] => s = SlotOf(r)
  /\ \A s, t \in Slot : slot[s].reqID > 0 /\ slot[s].reqID = slot[t].reqID => s = t

LEMMA PushedElements ==
  ASSUME TypeOK, NEW m, queue' = Append(queue, m), NEW i \in DOMAIN queue'
  PROVE  queue'[i] = m \/ \E j \in DOMAIN queue : queue'[i] = queue[j]
<1>1. /\ Len(queue) \in Nat /\ DOMAIN queue = 1..Len(queue)
      /\ DOMAIN queue' = 1..(Len(queue) + 1)
      /\ \A k \in 1..Len(queue) : queue'[k] = queue[k]
      /\ queue'[Len(queue) + 1] = m
  BY DEF TypeOK
<1>2. i \in DOMAIN queue \/ i = Len(queue) + 1
  BY <1>1
<1> QED
  BY <1>1, <1>2

LEMMA PoppedElements ==
  ASSUME TypeOK, queue # << >>, queue' = Tail(queue)
  PROVE  /\ \A i \in DOMAIN queue' : \E j \in DOMAIN queue : queue'[i] = queue[j]
         /\ \E j \in DOMAIN queue : Head(queue) = queue[j]
<1>1. /\ Len(queue) \in Nat \ {0} /\ DOMAIN queue = 1..Len(queue)
      /\ DOMAIN queue' = 1..(Len(queue) - 1)
      /\ \A k \in 1..(Len(queue) - 1) : queue'[k] = queue[k + 1]
      /\ Head(queue) = queue[1]
  BY DEF TypeOK
<1>2. \A i \in DOMAIN queue' : i + 1 \in DOMAIN queue /\ queue'[i] = queue[i + 1]
  BY <1>1
<1>3. 1 \in DOMAIN queue
  BY <1>1
<1> QED
  BY <1>1, <1>2, <1>3

(* What all actions but Accept and Tell have in common.                    *)
Common ==
  /\ told' = told /\ reqIDCounter' = reqIDCounter
  /\ \A r \in Request : outcome'[r] = "unsent" => outcome[r] = "unsent"
  /\ task'.at = "tell" => task.at = "tell" /\ task'.slot = task.slot
  /\ \A s \in Slot : /\ slot'[s].rawRequest \in {slot[s].rawRequest, None}
                    /\ slot'[s].reqID \in {slot[s].reqID, 0}
  /\ \A i \in DOMAIN queue' :
       \/ \E j \in DOMAIN queue : queue'[i] = queue[j]
       \/ queue'[i].kind = "notify" => told[queue'[i].req] = NotTold

LEMMA CommonKeeps ==
  ASSUME Inv, Once, Ids, Common
  PROVE  Once' /\ Ids'
<1>0. /\ reqIDCounter \in Nat /\ told \in [Request -> Nat \cup {NotTold}]
      /\ \A s \in Slot : slot[s].reqID \in Nat
      /\ task.slot \in Slot /\ None \notin Request
  BY EmergencyAssumption DEF Inv, TypeOK
<1>1. Once'
  BY <1>0 DEF Once, Common
<1>2. Ids'
  <2>1. \A r \in Request : told'[r] <= reqIDCounter'
    BY DEF Ids, Common
  <2>2. \A s \in Slot : slot'[s].reqID <= reqIDCounter'
    BY <1>0 DEF Ids, Common
  <2>3. \A r \in Request, s \in Slot :
          told'[r] > 0 /\ slot'[s].reqID = told'[r] => s = SlotOf(r)
    BY <1>0 DEF Ids, Common
  <2>4. \A s, t \in Slot : slot'[s].reqID > 0 /\ slot'[s].reqID = slot'[t].reqID => s = t
    BY <1>0 DEF Ids, Common
  <2> QED
    BY <2>1, <2>2, <2>3, <2>4 DEF Ids, SlotOf
<1> QED
  BY <1>1, <1>2

LEMMA NiThreadCommon ==
  ASSUME Inv, NEW r \in Request, NiThread(r)
  PROVE  Common
<1>0. TypeOK /\ SlotOf(r) \in Slot
  BY SlotOfIsSlot DEF Inv
<1>1. ASSUME NEW resp \in Response, Decide(r, resp),
             UNCHANGED <<queue, task, reqIDCounter, listening, user>>
      PROVE  Common
  <2>1. \A s \in Slot : /\ slot'[s].rawRequest \in {slot[s].rawRequest, None}
                      /\ slot'[s].reqID = slot[s].reqID
    BY <1>0, <1>1 DEF Decide, TypeOK
  <2>2. \A q \in Request : outcome'[q] = "unsent" => outcome[q] = "unsent"
    BY <1>1 DEF Decide
  <2> QED
    BY <1>1, <2>1, <2>2 DEF Common, user
<1>2. slot[SlotOf(r)].resp \in Response
  BY <1>0 DEF TypeOK
<1>3. CASE Begin(r)
  <2>1. CASE slot[SlotOf(r)].respRecvd
    BY <1>1, <1>2, <1>3, <2>1 DEF Begin
  <2>2. CASE ~slot[SlotOf(r)].respRecvd
    BY <1>3, <2>2 DEF Begin, Common, user
  <2> QED
    BY <2>1, <2>2
<1>4. CASE Wake(r)
  BY <1>1, <1>2, <1>4 DEF Wake
<1>5. CASE TimeOut(r)
  BY <1>1, <1>5 DEF TimeOut, Response, Answer
<1>6. CASE Forget(r)
  <2>1. \A s \in Slot : /\ slot'[s].rawRequest = slot[s].rawRequest
                      /\ slot'[s].reqID \in {slot[s].reqID, 0}
    BY <1>0, <1>6 DEF Forget, TypeOK
  <2> QED
    BY <1>6, <2>1 DEF Forget, Common, user
<1>7. CASE Send(r)
  <2> DEFINE m == [kind |-> "inform", req |-> thread[r].raw, answer |-> thread[r].resp]
  <2>1. m.kind # "notify" /\ queue' = Append(queue, m)
        /\ UNCHANGED <<task, slot, reqIDCounter, told, outcome>>
    BY <1>7 DEF Send, user
  <2> HIDE DEF m
  <2>2. \A i \in DOMAIN queue' : queue'[i] = m \/ \E j \in DOMAIN queue : queue'[i] = queue[j]
    BY <1>0, <2>1, PushedElements
  <2> QED
    BY <2>1, <2>2 DEF Common
<1> QED
  BY <1>3, <1>4, <1>5, <1>6, <1>7 DEF NiThread

LEMMA OutsideCommon ==
  ASSUME Inv, Once, Outside
  PROVE  Common
<1>0. TypeOK
  BY DEF Inv
<1>1. ASSUME NEW r \in Request, RequestNiNotifyEvent(r)
      PROVE  Common
  <2> DEFINE m == [kind |-> "notify", req |-> r]
  <2>1. /\ m.req = r /\ queue' = Append(queue, m) /\ outcome[r] = "unsent"
        /\ outcome' = [outcome EXCEPT ![r] = "open"]
        /\ UNCHANGED <<task, slot, reqIDCounter, told>>
    BY <1>1 DEF RequestNiNotifyEvent, user
  <2> HIDE DEF m
  <2>2. told[m.req] = NotTold
    BY <2>1 DEF Once
  <2>3. \A i \in DOMAIN queue' : queue'[i] = m \/ \E j \in DOMAIN queue : queue'[i] = queue[j]
    BY <1>0, <2>1, PushedElements
  <2>4. \A q \in Request : outcome'[q] = "unsent" => outcome[q] = "unsent"
    BY <1>0, <2>1 DEF TypeOK
  <2> QED
    BY <2>1, <2>2, <2>3, <2>4 DEF Common
<1>2. ASSUME NEW r \in Request, NEW a \in UserAnswer, UserAnswers(r, a)
      PROVE  Common
  <2> DEFINE m == [kind |-> "respond", id |-> told[r], answer |-> a]
  <2>1. m.kind # "notify" /\ queue' = Append(queue, m)
        /\ UNCHANGED <<task, slot, reqIDCounter, told, outcome>>
    BY <1>2 DEF UserAnswers
  <2> HIDE DEF m
  <2>2. \A i \in DOMAIN queue' : queue'[i] = m \/ \E j \in DOMAIN queue : queue'[i] = queue[j]
    BY <1>0, <2>1, PushedElements
  <2> QED
    BY <2>1, <2>2 DEF Common
<1>3. ASSUME ClientsChange
      PROVE  Common
  BY <1>3 DEF ClientsChange, Common, user
<1> QED
  BY <1>1, <1>2, <1>3 DEF Outside

LEMMA MsgTaskOnce ==
  ASSUME Inv, Own, Once, Ids, MsgTask
  PROVE  Once' /\ Ids'
<1>0. TypeOK
  BY DEF Inv
<1>1. ASSUME NEW kind, Handle(kind)
      PROVE  /\ \A i \in DOMAIN queue' : \E j \in DOMAIN queue : queue'[i] = queue[j]
             /\ \E j \in DOMAIN queue : Head(queue) = queue[j]
             /\ queue # << >> /\ Head(queue).kind = kind
  <2>1. queue # << >> /\ queue' = Tail(queue) /\ Head(queue).kind = kind
    BY <1>1 DEF Handle
  <2> QED
    BY <1>0, <2>1, PoppedElements
<1>2. ASSUME Handle("notify"), NEW r, r = Head(queue).req, Discard(r),
             UNCHANGED <<listening, thread, user>>
      PROVE  Common
  <2>1. \A q \in Request : outcome'[q] = "unsent" => outcome[q] = "unsent"
    BY <1>0, <1>2 DEF TypeOK, Discard
  <2> QED
    BY <1>1, <1>2, <2>1 DEF Discard, Common, user
<1>3. ASSUME Handle("notify"), NEW r, r = Head(queue).req, Accept(r),
             UNCHANGED <<listening, thread, user>>
      PROVE  Once' /\ Ids'
  <2>1. r \in Request /\ SlotOf(r) \in Slot
    BY <1>0, <1>1, <1>3, HeadIsMessage, SlotOfIsSlot
  <2>2. told[r] = NotTold
    BY <1>1, <1>3 DEF Once
  <2>3. /\ slot' = [slot EXCEPT ![SlotOf(r)].rawRequest = r,
                                ![SlotOf(r)].reqID = reqIDCounter + 1]
        /\ reqIDCounter' = reqIDCounter + 1
        /\ task'.at = "tell" /\ task'.slot = SlotOf(r)
        /\ UNCHANGED <<told, outcome>>
    BY <1>3 DEF Accept, Save, Idle, user
  <2>4. /\ slot'[SlotOf(r)].rawRequest = r /\ slot'[SlotOf(r)].reqID = reqIDCounter + 1
        /\ \A s \in Slot \ {SlotOf(r)} : slot'[s] = slot[s]
    BY <1>0, <2>1, <2>3 DEF TypeOK
  <2>5. Once'
    BY <1>1, <1>3, <2>2, <2>3, <2>4 DEF Once
  <2>6. /\ reqIDCounter \in Nat /\ told \in [Request -> Nat \cup {NotTold}]
        /\ \A s \in Slot : slot[s].reqID \in Nat
    BY <1>0 DEF TypeOK
  <2>7. /\ \A q \in Request : told'[q] <= reqIDCounter'
        /\ \A s \in Slot : slot'[s].reqID <= reqIDCounter'
    <3>1. ASSUME NEW q \in Request PROVE told'[q] <= reqIDCounter' 
      <4>1. told[q] \in Int /\ told[q] <= reqIDCounter
        BY <2>6 DEF Ids, NotTold
      <4> QED
        BY <2>3, <2>6, <4>1
    <3>2. ASSUME NEW s \in Slot PROVE slot'[s].reqID <= reqIDCounter'
      <4>1. slot[s].reqID \in Int /\ slot[s].reqID <= reqIDCounter
        BY <2>6 DEF Ids
      <4>2. slot'[s].reqID = slot[s].reqID \/ slot'[s].reqID = reqIDCounter + 1
        BY <2>4
      <4> QED
        BY <2>3, <2>6, <4>1, <4>2
    <3> QED
      BY <3>1, <3>2
  <2>8. ASSUME NEW q \in Request, NEW s \in Slot, told'[q] > 0, slot'[s].reqID = told'[q]
        PROVE  s = SlotOf(q)
    <3>1. told[q] \in Int /\ told[q] <= reqIDCounter /\ told'[q] = told[q]
      BY <2>3, <2>6 DEF Ids, NotTold
    <3>2. s # SlotOf(r)
      BY <2>4, <2>6, <2>8, <3>1
    <3> QED
      BY <2>4, <2>8, <3>1, <3>2 DEF Ids
  <2>9. \A s, t \in Slot : slot'[s].reqID > 0 /\ slot'[s].reqID = slot'[t].reqID => s = t
    <3>1. \A s \in Slot \ {SlotOf(r)} : slot'[s].reqID # reqIDCounter + 1
      BY <2>4, <2>6 DEF Ids
    <3> QED
      BY <2>4, <3>1 DEF Ids
  <2>10. Ids'
    BY <2>7, <2>8, <2>9 DEF Ids, SlotOf
  <2> QED
    BY <2>5, <2>10
<1>4. ASSUME Tell
      PROVE  Once' /\ Ids'
  <2> DEFINE r == slot[task.slot].rawRequest
             id == slot[task.slot].reqID
  <2>1. /\ task.at = "tell" /\ task'.at = "idle"
        /\ told' = [told EXCEPT ![r] = id]
        /\ UNCHANGED <<queue, slot, reqIDCounter, outcome>>
    BY <1>4 DEF Tell, Idle
  <2>2. /\ task.slot \in Slot /\ r \in Request \cup {None} /\ id \in Nat
        /\ id <= reqIDCounter /\ reqIDCounter \in Nat
        /\ told \in [Request -> Nat \cup {NotTold}]
    BY <1>0 DEF TypeOK, Ids
  <2>3. r \in Request => task.slot = SlotOf(r) /\ InSlot(r)
    BY <2>2, EmergencyAssumption DEF Inv, InPlace, InSlot
  <2>4. r \in Request => outcome[r] = "open" /\ ~Queued(r)
    BY <2>3 DEF Own, OwnOf
  <2>5. \A s \in Slot : slot[s].reqID > 0 /\ slot[s].reqID = id => s = task.slot
    BY <2>2 DEF Ids
  <2> HIDE DEF r, id
  <2>6. \A q \in Request : told'[q] = IF q = r THEN id ELSE told[q]
    BY <2>1, <2>2
  <2>7. Once'
    <3>1. \A q \in Request : outcome'[q] = "unsent" => told'[q] = NotTold
      BY <2>1, <2>4, <2>6 DEF Once
    <3>2. ASSUME NEW i \in DOMAIN queue', queue'[i].kind = "notify"
          PROVE  told'[queue'[i].req] = NotTold
      <4>1. queue[i].kind = "notify" /\ i \in DOMAIN queue
        BY <2>1, <3>2
      <4>2. queue[i].req # r
        BY <2>4, <4>1, <1>0, HeadIsMessage DEF Queued, About, TypeOK, Message
      <4>3. told[queue[i].req] = NotTold
        BY <4>1 DEF Once
      <4>4. told'[queue[i].req] = told[queue[i].req]
        BY <2>1, <4>2, <2>2
      <4> QED
        BY <2>1, <4>3, <4>4
    <3> QED
      BY <2>1, <3>1, <3>2 DEF Once
  <2>8. Ids'
    <3>1. /\ \A q \in Request : told'[q] <= reqIDCounter'
          /\ \A s \in Slot : slot'[s].reqID <= reqIDCounter'
          /\ \A s, t \in Slot : slot'[s].reqID > 0 /\ slot'[s].reqID = slot'[t].reqID => s = t
      BY <2>1, <2>2, <2>6 DEF Ids
    <3>2. \A q \in Request, s \in Slot :
            told'[q] > 0 /\ slot'[s].reqID = told'[q] => s = SlotOf(q)
      BY <2>1, <2>3, <2>5, <2>6 DEF Ids
    <3> QED
      BY <3>1, <3>2 DEF Ids, SlotOf
  <2> QED
    BY <2>7, <2>8
<1>5. ASSUME GnssNiResponse
      PROVE  Common
  <2>1. Handle("respond") /\ UNCHANGED <<slot, reqIDCounter, told, outcome>>
    BY <1>5 DEF GnssNiResponse, user
  <2>2. task' = task \/ task'.at # "tell"
    BY <1>5 DEF GnssNiResponse
  <2> QED
    BY <1>1, <2>1, <2>2 DEF Common
<1>6. ASSUME NEW s \in Slot, NEW a, Respond(s, a), task'.at # "tell",
             UNCHANGED <<queue, reqIDCounter, user, outcome>>
      PROVE  Common
  <2>1. \A t \in Slot : /\ slot'[t].rawRequest = slot[t].rawRequest
                      /\ slot'[t].reqID = slot[t].reqID
    BY <1>0, <1>6 DEF Respond, TypeOK
  <2> QED
    BY <1>6, <2>1 DEF Common, user
<1>7. ASSUME IgnorePlain
      PROVE  Common
  <2>1. task'.at # "tell"
    BY <1>0, <1>7 DEF IgnorePlain, TypeOK
  <2> QED
    BY <1>6, <1>7, <2>1 DEF IgnorePlain, Slot
<1>8. ASSUME AnswerSession
      PROVE  Common
  <2>1. task'.at # "tell" /\ task.slot \in Slot
    BY <1>0, <1>8 DEF AnswerSession, Idle, TypeOK
  <2> QED
    BY <1>6, <1>8, <2>1 DEF AnswerSession
<1>9. ASSUME InformNiResponse
      PROVE  Common
  <2>1. Head(queue).answer # "unsent"
    BY <1>0, <1>1, <1>9, HeadIsMessage, UserAnswerAssumption DEF InformNiResponse, Answer
  <2>2. \A q \in Request : outcome'[q] = "unsent" => outcome[q] = "unsent"
    BY <1>0, <1>9, <2>1 DEF InformNiResponse, TypeOK
  <2>3. /\ Handle("inform") /\ UNCHANGED <<task, slot, reqIDCounter, told>>
    BY <1>9 DEF InformNiResponse, user
  <2> QED
    BY <1>1, <2>2, <2>3 DEF Common
<1> QED
  BY <1>2, <1>3, <1>4, <1>5, <1>7, <1>8, <1>9, CommonKeeps DEF MsgTask, RequestNiNotify

LEMMA AlwaysOnce == Spec => [](Once /\ Ids)
<1>1. Init => Once /\ Ids
  BY DEF Init, Once, Ids, Idle, NotTold, Slot, SlotOf
<1>2. ASSUME Inv, Own, Once /\ Ids, [Next]_vars
      PROVE  (Once /\ Ids)'
  <2>1. CASE UNCHANGED vars
    BY <1>2, <2>1 DEF vars, user, Once, Ids, SlotOf
  <2> QED
    BY <1>2, <2>1, OutsideCommon, NiThreadCommon, CommonKeeps, MsgTaskOnce DEF Next
<1> QED
  BY <1>1, <1>2, AlwaysInv, AlwaysOwn, PTL DEF Spec

-----------------------------------------------------------------------------
(* An answer on its way to the modem was given by a user for its session,  *)
(* wherever it is.                                                         *)

Given(s, a) == \E q \in Request : GaveFor(q, s, a)

Backed(m) ==
  /\ m.kind = "respond" => \E q \in Request : told[q] = m.id /\ m.answer \in answers[q]
  /\ m.kind = "inform" /\ m.answer \in UserAnswer => Given(SlotOf(m.req), m.answer)

Consent ==
  /\ \A r \in Request : outcome[r] \in UserAnswer => Given(SlotOf(r), outcome[r])
  /\ \A r \in Request : thread[r].resp \in UserAnswer => Given(SlotOf(r), thread[r].resp)
  /\ \A s \in Slot : slot[s].resp \in UserAnswer => Given(s, slot[s].resp)
  /\ task.answer \in UserAnswer => Given(task.slot, task.answer)
  /\ \A i \in DOMAIN queue : Backed(queue[i])

(* A user stays told what he was told, and his answers stay given.         *)
Stays ==
  \A q \in Request : /\ told[q] # NotTold => told'[q] = told[q]
                    /\ answers[q] \subseteq answers'[q]

(* Given and Backed after a step, of a value fixed before it.              *)
GivenNext(s, a) ==
  \E q \in Request : a \in answers'[q] /\ (SlotOf(q) = s \/ told'[q] = 0)

BackedNext(m) ==
  /\ m.kind = "respond" => \E q \in Request : told'[q] = m.id /\ m.answer \in answers'[q]
  /\ m.kind = "inform" /\ m.answer \in UserAnswer => GivenNext(SlotOf(m.req), m.answer)

LEMMA GivenStays ==
  ASSUME TypeOK, Stays, NEW s, NEW a, Given(s, a)
  PROVE  GivenNext(s, a)
<1>1. PICK q \in Request : GaveFor(q, s, a)
  BY DEF Given
<1>2. told[q] = 0 => told'[q] = 0
  BY DEF Stays, NotTold
<1>3. a \in answers'[q] /\ (SlotOf(q) = s \/ told'[q] = 0)
  BY <1>1, <1>2 DEF GaveFor, Stays
<1> QED
  BY <1>3 DEF GivenNext

LEMMA BackedStays ==
  ASSUME TypeOK, Stays, NEW m \in Message, Backed(m)
  PROVE  BackedNext(m)
<1>1. ASSUME m.kind = "respond"
      PROVE  \E q \in Request : told'[q] = m.id /\ m.answer \in answers'[q]
  <2>1. m.id \in Nat
    BY <1>1 DEF Message
  <2>2. PICK q \in Request : told[q] = m.id /\ m.answer \in answers[q]
    BY <1>1 DEF Backed
  <2>3. told'[q] = m.id /\ m.answer \in answers'[q]
    BY <2>1, <2>2 DEF Stays, NotTold
  <2> QED
    BY <2>3
<1>2. ASSUME m.kind = "inform", m.answer \in UserAnswer
      PROVE  GivenNext(SlotOf(m.req), m.answer)
  <2>1. Given(SlotOf(m.req), m.answer)
    BY <1>2 DEF Backed
  <2> QED
    BY <2>1, GivenStays
<1> QED
  BY <1>1, <1>2 DEF BackedNext

(* Whatever a step puts somewhere was there before, is no user's answer,   *)
(* or is backed.                                                           *)
Moves ==
  /\ \A r \in Request : \/ outcome'[r] = outcome[r] \/ outcome'[r] \notin UserAnswer
                        \/ Given(SlotOf(r), outcome'[r])
  /\ \A r \in Request : \/ thread'[r].resp = thread[r].resp \/ thread'[r].resp \notin UserAnswer
                        \/ Given(SlotOf(r), thread'[r].resp)
  /\ \A s \in Slot : \/ slot'[s].resp = slot[s].resp \/ slot'[s].resp \notin UserAnswer
                     \/ Given(s, slot'[s].resp)
  /\ \/ task'.answer = task.answer /\ task'.slot = task.slot
     \/ task'.answer \notin UserAnswer \/ Given(task'.slot, task'.answer)
  /\ \A i \in DOMAIN queue' :
       (\E j \in DOMAIN queue : queue'[i] = queue[j]) \/ BackedNext(queue'[i])

LEMMA MovesKeep ==
  ASSUME Inv, Consent, Stays, Moves
  PROVE  Consent'
<1>0. TypeOK
  BY DEF Inv
<1>1. \A r \in Request : outcome'[r] \in UserAnswer => Given(SlotOf(r), outcome'[r])
  BY DEF Moves, Consent
<1>2. \A r \in Request : thread'[r].resp \in UserAnswer => Given(SlotOf(r), thread'[r].resp)
  BY DEF Moves, Consent
<1>3. \A s \in Slot : slot'[s].resp \in UserAnswer => Given(s, slot'[s].resp)
  BY DEF Moves, Consent
<1>4. task'.answer \in UserAnswer => Given(task'.slot, task'.answer)
  BY DEF Moves, Consent
<1>5. \A i \in DOMAIN queue' : BackedNext(queue'[i])
  <2>1. ASSUME NEW i \in DOMAIN queue', NEW j \in DOMAIN queue, queue'[i] = queue[j]
        PROVE  BackedNext(queue'[i])
    <3>1. queue[j] \in Message /\ Backed(queue[j])
      BY <1>0 DEF TypeOK, Consent
    <3> QED
      BY <1>0, <2>1, <3>1, BackedStays
  <2> QED
    BY <2>1 DEF Moves
<1>6. \A s, a : Given(s, a) => GivenNext(s, a)
  BY <1>0, GivenStays
<1>7. /\ \A r \in Request : outcome'[r] \in UserAnswer => GivenNext(SlotOf(r), outcome'[r])
      /\ \A r \in Request :
           thread'[r].resp \in UserAnswer => GivenNext(SlotOf(r), thread'[r].resp)
      /\ \A s \in Slot : slot'[s].resp \in UserAnswer => GivenNext(s, slot'[s].resp)
      /\ task'.answer \in UserAnswer => GivenNext(task'.slot, task'.answer)
  BY <1>1, <1>2, <1>3, <1>4, <1>6
<1> QED
  BY <1>5, <1>7 DEF Consent, Given, GaveFor, GivenNext, Backed, BackedNext, SlotOf

(* Actions that tell the user nothing and take no answer from him.         *)
LEMMA SameUserStays == UNCHANGED user => Stays
  BY DEF user, Stays

LEMMA NotAnswers == "NO_RESPONSE" \notin UserAnswer /\ "IGNORE" \notin UserAnswer
  BY UserAnswerAssumption

LEMMA NiThreadMoves ==
  ASSUME Inv, Consent, NEW r \in Request, NiThread(r)
  PROVE  Stays /\ Moves
<1>0. TypeOK /\ SlotOf(r) \in Slot
  BY SlotOfIsSlot DEF Inv
<1>1. Stays
  <2>1. UNCHANGED user
    BY DEF NiThread, Begin, Wake, TimeOut, Forget, Send
  <2> QED
    BY <2>1, SameUserStays
<1>2. ASSUME NEW resp \in Response, Decide(r, resp),
             resp = slot[SlotOf(r)].resp \/ resp \notin UserAnswer,
             UNCHANGED <<queue, task>>
      PROVE  Stays /\ Moves
  <2>1. resp \notin UserAnswer \/ Given(SlotOf(r), resp)
    BY <1>0, <1>2 DEF Consent
  <2>2. \A q \in Request : outcome'[q] = outcome[q] \/ outcome'[q] \notin UserAnswer
    BY <1>2, NotAnswers DEF Decide
  <2>3. \A q \in Request : thread'[q].resp = IF q = r THEN resp ELSE thread[q].resp
    BY <1>0, <1>2 DEF Decide, TypeOK
  <2>4. \A s \in Slot : slot'[s].resp = IF s = SlotOf(r) THEN resp ELSE slot[s].resp
    BY <1>0, <1>2 DEF Decide, TypeOK
  <2> QED
    BY <1>1, <1>2, <2>1, <2>2, <2>3, <2>4 DEF Moves
<1>3. slot[SlotOf(r)].resp \in Response
  BY <1>0 DEF TypeOK
<1>4. CASE Begin(r)
  <2>1. CASE slot[SlotOf(r)].respRecvd
    BY <1>2, <1>3, <1>4, <2>1 DEF Begin
  <2>2. CASE ~slot[SlotOf(r)].respRecvd
    <3>1. thread' = [thread EXCEPT ![r].at = "waiting"] /\ UNCHANGED <<queue, task, slot, outcome>>
      BY <1>4, <2>2 DEF Begin
    <3>2. \A q \in Request : thread'[q].resp = thread[q].resp
      BY <1>0, <3>1 DEF TypeOK
    <3> QED
      BY <1>1, <3>1, <3>2 DEF Moves
  <2> QED
    BY <2>1, <2>2
<1>5. CASE Wake(r)
  BY <1>2, <1>3, <1>5 DEF Wake
<1>6. CASE TimeOut(r)
  BY <1>2, <1>6, NotAnswers DEF TimeOut, Response, Answer
<1>7. CASE Forget(r)
  <2>1. /\ \A q \in Request : thread'[q].resp = thread[q].resp
        /\ \A s \in Slot : slot'[s].resp = slot[s].resp
        /\ UNCHANGED <<queue, task, outcome>>
    BY <1>0, <1>7 DEF Forget, TypeOK
  <2> QED
    BY <1>1, <2>1 DEF Moves
<1>8. CASE Send(r)
  <2> DEFINE m == [kind |-> "inform", req |-> thread[r].raw, answer |-> thread[r].resp]
  <2>1. thread[r].raw = r
    BY <1>8 DEF Send, Inv, SentIsAnswer, EachTakesItsOwn
  <2>2. Backed(m)
    BY <2>1 DEF Backed, Consent
  <2>3. m \in Message
    BY <1>0, <1>8, <2>1 DEF Send, Inv, SentIsAnswer, TypeOK, Message
  <2>4. /\ \A q \in Request : thread'[q].resp = thread[q].resp
        /\ queue' = Append(queue, m) /\ UNCHANGED <<task, slot, outcome>>
    BY <1>0, <1>8 DEF Send, TypeOK
  <2> HIDE DEF m
  <2>5. BackedNext(m)
    BY <1>0, <1>1, <2>2, <2>3, BackedStays
  <2>6. \A i \in DOMAIN queue' : queue'[i] = m \/ \E j \in DOMAIN queue : queue'[i] = queue[j]
    BY <1>0, <2>4, PushedElements
  <2> QED
    BY <1>1, <2>4, <2>5, <2>6 DEF Moves
<1> QED
  BY <1>4, <1>5, <1>6, <1>7, <1>8 DEF NiThread

LEMMA OutsideMoves ==
  ASSUME Inv, Consent, Outside
  PROVE  Stays /\ Moves
<1>0. TypeOK
  BY DEF Inv
<1>1. ASSUME NEW r \in Request, RequestNiNotifyEvent(r)
      PROVE  Stays /\ Moves
  <2> DEFINE m == [kind |-> "notify", req |-> r]
  <2>1. /\ m.kind = "notify" /\ queue' = Append(queue, m)
        /\ outcome' = [outcome EXCEPT ![r] = "open"]
        /\ UNCHANGED <<task, slot, thread, user>>
    BY <1>1 DEF RequestNiNotifyEvent
  <2> HIDE DEF m
  <2>2. BackedNext(m)
    BY <2>1 DEF BackedNext
  <2>3. \A i \in DOMAIN queue' : queue'[i] = m \/ \E j \in DOMAIN queue : queue'[i] = queue[j]
    BY <1>0, <2>1, PushedElements
  <2>4. \A q \in Request : outcome'[q] = outcome[q] \/ outcome'[q] \notin UserAnswer
    BY <1>0, <2>1, UserAnswerAssumption DEF TypeOK
  <2> QED
    BY <2>1, <2>2, <2>3, <2>4, SameUserStays DEF Moves
<1>2. ASSUME NEW r \in Request, NEW a \in UserAnswer, UserAnswers(r, a)
      PROVE  Stays /\ Moves
  <2> DEFINE m == [kind |-> "respond", id |-> told[r], answer |-> a]
  <2>1. /\ m.kind = "respond" /\ m.id = told[r] /\ m.answer = a /\ queue' = Append(queue, m)
        /\ answers' = [answers EXCEPT ![r] = @ \cup {a}]
        /\ UNCHANGED <<task, slot, thread, told, outcome>>
    BY <1>2 DEF UserAnswers
  <2> HIDE DEF m
  <2>2. Stays /\ a \in answers'[r]
    BY <1>0, <2>1 DEF Stays, TypeOK
  <2>3. BackedNext(m)
    BY <2>1, <2>2 DEF BackedNext
  <2>4. \A i \in DOMAIN queue' : queue'[i] = m \/ \E j \in DOMAIN queue : queue'[i] = queue[j]
    BY <1>0, <2>1, PushedElements
  <2> QED
    BY <2>1, <2>2, <2>3, <2>4 DEF Moves
<1>3. ASSUME ClientsChange
      PROVE  Stays /\ Moves
  BY <1>3, SameUserStays DEF ClientsChange, Moves
<1> QED
  BY <1>1, <1>2, <1>3 DEF Outside

LEMMA MsgTaskMoves ==
  ASSUME Inv, Once, Ids, Consent, MsgTask
  PROVE  Stays /\ Moves
<1>0. TypeOK
  BY DEF Inv
<1>1. ASSUME NEW kind, Handle(kind)
      PROVE  /\ \A i \in DOMAIN queue' : \E j \in DOMAIN queue : queue'[i] = queue[j]
             /\ Backed(Head(queue)) /\ queue # << >> /\ Head(queue).kind = kind
  <2>1. queue # << >> /\ queue' = Tail(queue) /\ Head(queue).kind = kind
    BY <1>1 DEF Handle
  <2>2. PICK j \in DOMAIN queue : Head(queue) = queue[j]
    BY <1>0, <2>1, PoppedElements
  <2> QED
    BY <1>0, <2>1, <2>2, PoppedElements DEF Consent
<1>2. ASSUME Handle("notify"), NEW r, r = Head(queue).req, Discard(r),
             UNCHANGED <<listening, thread, user>>
      PROVE  Stays /\ Moves
  <2>1. \A q \in Request : outcome'[q] = outcome[q] \/ outcome'[q] \notin UserAnswer
    BY <1>0, <1>2, UserAnswerAssumption DEF Discard, TypeOK
  <2> QED
    BY <1>1, <1>2, <2>1, SameUserStays DEF Discard, Moves
<1>3. ASSUME Handle("notify"), NEW r, r = Head(queue).req, Accept(r),
             UNCHANGED <<listening, thread, user>>
      PROVE  Stays /\ Moves
  <2>1. \A s \in Slot : slot'[s].resp = slot[s].resp
    BY <1>0, <1>3 DEF Accept, Save, TypeOK
  <2>2. task'.answer \notin UserAnswer
    BY <1>3, NotAnswers DEF Accept, Idle
  <2> QED
    BY <1>1, <1>3, <2>1, <2>2, SameUserStays DEF Accept, Moves
<1>4. CASE Tell
  <2> DEFINE r == slot[task.slot].rawRequest
             id == slot[task.slot].reqID
  <2>1. /\ told' = [told EXCEPT ![r] = id]
        /\ thread' = [thread EXCEPT ![r].at = "ready"] \/ thread' = thread
        /\ task.at = "tell" /\ task' = Idle
        /\ UNCHANGED <<queue, slot, answers, outcome>>
    BY <1>4 DEF Tell
  <2>2. r \in Request => told[r] = NotTold
    BY <2>1 DEF Once
  <2> HIDE DEF r, id
  <2>3. Stays
    BY <1>0, <2>1, <2>2 DEF Stays, TypeOK
  <2>4. \A q \in Request : thread'[q].resp = thread[q].resp
    BY <1>0, <2>1 DEF TypeOK
  <2>5. task'.answer \notin UserAnswer
    BY <2>1, NotAnswers DEF Idle
  <2> QED
    BY <2>1, <2>3, <2>4, <2>5 DEF Moves
<1>5. CASE GnssNiResponse
  <2> DEFINE m == Head(queue)
  <2>1. Handle("respond") /\ UNCHANGED <<slot, thread, user, outcome>>
    BY <1>5 DEF GnssNiResponse
  <2>2. PICK q \in Request : told[q] = m.id /\ m.answer \in answers[q]
    BY <1>1, <2>1 DEF Backed
  <2>3. m.id \in Nat
    BY <1>0, <1>1, <2>1, HeadIsMessage
  <2>4. \A s \in ActiveSession(m.id) : s \in Slot /\ slot[s].reqID = m.id
    BY DEF ActiveSession, Named, Slot
  <2>5. \A s \in ActiveSession(m.id) : Given(s, m.answer)
    <3>1. ASSUME NEW s \in ActiveSession(m.id)
          PROVE  GaveFor(q, s, m.answer)
      <4>1. m.id = 0 \/ m.id > 0
        BY <2>3
      <4> QED
        BY <2>2, <2>4, <4>1 DEF GaveFor, Ids
    <3> QED
      BY <3>1 DEF Given
  <2>6. \/ task' = task
        \/ task'.slot \in ActiveSession(m.id) /\ task'.answer = m.answer
    BY <1>5 DEF GnssNiResponse
  <2> HIDE DEF m
  <2> QED
    BY <1>1, <2>1, <2>5, <2>6, SameUserStays DEF Moves
<1>6. ASSUME NEW s \in Slot, NEW a \in Response, Respond(s, a), a \notin UserAnswer \/ Given(s, a)
      PROVE  \A t \in Slot : \/ slot'[t].resp = slot[t].resp \/ slot'[t].resp \notin UserAnswer
                           \/ Given(t, slot'[t].resp)
  BY <1>0, <1>6 DEF Respond, TypeOK
<1>7. CASE IgnorePlain
  <2>1. "session" \in Slot /\ "IGNORE" \in Response /\ Respond("session", "IGNORE")
    BY <1>7 DEF IgnorePlain, Slot, Response
  <2>2. /\ task'.answer = task.answer /\ task'.slot = task.slot
        /\ UNCHANGED <<queue, thread, user, outcome>>
    BY <1>0, <1>7 DEF IgnorePlain, TypeOK
  <2> QED
    BY <1>6, <2>1, <2>2, NotAnswers, SameUserStays DEF Moves
<1>8. CASE AnswerSession
  <2>1. task.slot \in Slot /\ task.answer \in Response /\ Respond(task.slot, task.answer)
    BY <1>0, <1>8 DEF AnswerSession, TypeOK
  <2>2. task.answer \notin UserAnswer \/ Given(task.slot, task.answer)
    BY DEF Consent
  <2>3. task'.answer \notin UserAnswer /\ UNCHANGED <<queue, thread, user, outcome>>
    BY <1>8, NotAnswers DEF AnswerSession, Idle
  <2> QED
    BY <1>6, <2>1, <2>2, <2>3, SameUserStays DEF Moves
<1>9. CASE InformNiResponse
  <2> DEFINE m == Head(queue)
  <2>1. /\ Handle("inform") /\ UNCHANGED <<task, slot, thread, user>>
        /\ outcome' = [outcome EXCEPT ![m.req] = m.answer]
    BY <1>9 DEF InformNiResponse
  <2>2. m.answer \in UserAnswer => Given(SlotOf(m.req), m.answer)
    BY <1>1, <2>1 DEF Backed
  <2> HIDE DEF m
  <2>3. \A q \in Request : \/ outcome'[q] = outcome[q] \/ outcome'[q] \notin UserAnswer
                         \/ Given(SlotOf(q), outcome'[q])
    BY <1>0, <2>1, <2>2 DEF TypeOK
  <2> QED
    BY <1>1, <2>1, <2>3, SameUserStays DEF Moves
<1> QED
  BY <1>2, <1>3, <1>4, <1>5, <1>7, <1>8, <1>9 DEF MsgTask, RequestNiNotify

LEMMA AlwaysConsent == Spec => []Consent
<1>1. Init => Consent
  <2> SUFFICES ASSUME Init PROVE Consent
    OBVIOUS
  <2>1. /\ \A r \in Request : outcome[r] = "unsent" /\ thread[r].resp = "NO_RESPONSE"
        /\ \A s \in Slot : slot[s].resp = "NO_RESPONSE"
        /\ task.answer = "NO_RESPONSE" /\ DOMAIN queue = {}
    BY DEF Init, Idle
  <2> QED
    BY <2>1, UserAnswerAssumption DEF Consent
<1>2. ASSUME Inv, Once /\ Ids, Consent, [Next]_vars
      PROVE  Consent'
  <2>1. CASE UNCHANGED vars
    <3>1. UNCHANGED user /\ Moves
      BY <2>1 DEF vars, user, Moves
    <3> QED
      BY <1>2, <3>1, SameUserStays, MovesKeep
  <2> QED
    BY <1>2, <2>1, OutsideMoves, MsgTaskMoves, NiThreadMoves, MovesKeep DEF Next
<1> QED
  BY <1>1, <1>2, AlwaysInv, AlwaysOnce, PTL DEF Spec

(* The modem is told the user agreed or refused only if a user gave that   *)
(* answer, to a request of the same kind or to one shown with the id 0,    *)
(* whatever timeouts, late answers and new requests cross each other.      *)
THEOREM ConsentIsGiven == Spec => []AnswerIsAUsers
<1>1. Consent => AnswerIsAUsers
  BY DEF Consent, AnswerIsAUsers, Given
<1> QED
  BY <1>1, AlwaysConsent, PTL
=============================================================================
