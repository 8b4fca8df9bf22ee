------------------------------- MODULE GnssNi -------------------------------
(***************************************************************************)
(* Network initiated requests (gnss/GnssAdapter.cpp).  The network asks    *)
(* for the position of the phone; the adapter shows the request to the     *)
(* user and tells the modem what the user answered.  There is one place    *)
(* for a plain request and one for an emergency request.  Each request     *)
(* accepted into a place gets a thread of its own, which waits for the     *)
(* answer or for a timeout; it shares the place with the message thread,   *)
(* only partly under a lock.                                               *)
(*                                                                         *)
(* An id of the user interface is a number, 0 after the place was          *)
(* forgotten.  The time a thread waits is not modelled: a waiting thread   *)
(* may time out whenever it waits.                                         *)
(***************************************************************************)
EXTENDS Integers, Sequences

CONSTANTS
  Request,      \* the requests of the network
  Emergency,    \* those of the type GNSS_NI_TYPE_EMERGENCY_SUPL
  UserAnswer,   \* what a user may answer
  MaxQueue,     \* bound on the messages that wait when the outside sends one
  None          \* no request

ASSUME EmergencyAssumption == Emergency \subseteq Request /\ None \notin Request
ASSUME UserAnswerAssumption == UserAnswer \subseteq {"ACCEPT", "DENY"}
ASSUME MaxQueueAssumption == MaxQueue \in Nat \ {0}

VARIABLES
  queue,        \* the messages of the adapter
  task,         \* what the message thread is in the middle of
  slot,         \* NiData: the two sessions
  reqIDCounter, \* NiData: the last id
  listening,    \* whether a client has a gnssNiCb
  thread,       \* the thread of each request, and what it is about to send
  told,         \* the id each request was shown to the user with
  answers,      \* what the user has answered to each request
  outcome       \* what became of each request

vars == <<queue, task, slot, reqIDCounter, listening, thread, told, answers, outcome>>
user == <<told, answers>>

Slot == {"session", "sessionEs"}
Answer == UserAnswer \cup {"NO_RESPONSE"}
Response == Answer \cup {"IGNORE"}
SlotOf(r) == IF r \in Emergency THEN "sessionEs" ELSE "session"
NotTold == -1

Message ==
  [kind : {"notify"}, req : Request]
    \cup [kind : {"respond"}, id : Nat, answer : UserAnswer]
    \cup [kind : {"inform"}, req : Request, answer : Answer]

TypeOK ==
  /\ queue \in Seq(Message)
  /\ task \in [at : {"idle", "tell", "ignore", "answer"}, slot : Slot, answer : Response]
  /\ slot \in [Slot -> [rawRequest : Request \cup {None}, reqID : Nat,
                        resp : Response, respRecvd : BOOLEAN]]
  /\ reqIDCounter \in Nat
  /\ listening \in BOOLEAN
  /\ thread \in [Request -> [at : {"none", "ready", "waiting", "forget", "send", "over"},
                             raw : Request \cup {None}, resp : Response]]
  /\ told \in [Request -> Nat \cup {NotTold}]
  /\ answers \in [Request -> SUBSET UserAnswer]
  /\ outcome \in [Request -> Response \cup {"unsent", "open", "unheard", "dropped"}]

(* What a session holds in resp before it is first set is never read.      *)
Idle == [at |-> "idle", slot |-> "session", answer |-> "NO_RESPONSE"]

Init ==
  /\ queue = << >>
  /\ task = Idle
  /\ slot = [s \in Slot |-> [rawRequest |-> None, reqID |-> 0,
                             resp |-> "NO_RESPONSE", respRecvd |-> FALSE]]
  /\ reqIDCounter = 0
  /\ listening = TRUE
  /\ thread = [r \in Request |-> [at |-> "none", raw |-> None, resp |-> "NO_RESPONSE"]]
  /\ told = [r \in Request |-> NotTold]
  /\ answers = [r \in Request |-> {}]
  /\ outcome = [r \in Request |-> "unsent"]

-----------------------------------------------------------------------------
(* The outside: the network, the user, and clients that come and go.       *)

RequestNiNotifyEvent(r) ==
  /\ outcome[r] = "unsent" /\ Len(queue) < MaxQueue
  /\ outcome' = [outcome EXCEPT ![r] = "open"]
  /\ queue' = Append(queue, [kind |-> "notify", req |-> r])
  /\ UNCHANGED <<task, slot, reqIDCounter, listening, thread, user>>

(* A user may change his mind, and may answer late.                        *)
UserAnswers(r, a) ==
  /\ told[r] # NotTold /\ a \notin answers[r] /\ Len(queue) < MaxQueue
  /\ answers' = [answers EXCEPT ![r] = @ \cup {a}]
  /\ queue' = Append(queue, [kind |-> "respond", id |-> told[r], answer |-> a])
  /\ UNCHANGED <<task, slot, reqIDCounter, listening, thread, told, outcome>>

ClientsChange ==
  /\ task = Idle
  /\ listening' = ~listening
  /\ UNCHANGED <<queue, task, slot, reqIDCounter, thread, user, outcome>>

-----------------------------------------------------------------------------
(* The message thread.                                                     *)

Handle(kind) == task = Idle /\ queue # << >> /\ Head(queue).kind = kind /\ queue' = Tail(queue)
Busy(s) == slot[s].rawRequest # None
Save(s, r) ==
  slot' = [slot EXCEPT ![s].rawRequest = r, ![s].reqID = reqIDCounter + 1]

(* requestNiNotify(): without a listener the request is forgotten; a place   *)
(* in use, for a plain request either of them, has it dropped.             *)
(* Mutant: a plain request asks only for the place of the other kind.      *)
OccupiedByEmergency(r) == Busy("sessionEs")

Occupied(r) == Busy("sessionEs") \/ (r \notin Emergency /\ Busy("session"))

Discard(r) ==
  /\ ~listening \/ Occupied(r)
  /\ outcome' = [outcome EXCEPT ![r] = IF listening THEN "dropped" ELSE "unheard"]
  /\ UNCHANGED <<task, slot, reqIDCounter>>

Accept(r) ==
  /\ listening /\ ~Occupied(r)
  /\ Save(SlotOf(r), r)
  /\ reqIDCounter' = reqIDCounter + 1
  /\ task' = [Idle EXCEPT !.at = "tell", !.slot = SlotOf(r)]
  /\ UNCHANGED outcome

RequestNiNotify ==
  /\ Handle("notify")
  /\ Discard(Head(queue).req) \/ Accept(Head(queue).req)
  /\ UNCHANGED <<listening, thread, user>>

(* The thread is created, or not, which is only logged; the user sees the  *)
(* request with whatever id the place has by now.                          *)
Tell ==
  /\ task.at = "tell"
  /\ LET r == slot[task.slot].rawRequest
     IN /\ told' = [told EXCEPT ![r] = slot[task.slot].reqID]
        /\ \/ thread' = [thread EXCEPT ![r].at = "ready"]
           \/ UNCHANGED thread
  /\ task' = Idle
  /\ UNCHANGED <<queue, slot, reqIDCounter, listening, answers, outcome>>

(* gnssNiResponseCommand: the session is looked up without the lock ...    *)
Named(s, id) == Busy(s) /\ slot[s].reqID = id
ActiveSession(id) ==
  IF Named("sessionEs", id) THEN {"sessionEs"}
  ELSE {s \in {"session"} : Named(s, id)}

GnssNiResponse ==
  /\ Handle("respond")
  /\ LET m == Head(queue)
         found == IF listening THEN ActiveSession(m.id) ELSE {}
     IN IF found = {} THEN UNCHANGED task
        ELSE \E s \in found :
          task' = [at |-> IF s = "sessionEs" /\ m.answer = "ACCEPT" /\ Busy("session")
                          THEN "ignore" ELSE "answer",
                   slot |-> s, answer |-> m.answer]
  /\ UNCHANGED <<slot, reqIDCounter, listening, thread, user, outcome>>

Respond(s, answer) ==
  slot' = [slot EXCEPT ![s].resp = answer, ![s].respRecvd = TRUE]

(* Mutant: the plain request gets the answer to the emergency request.     *)
IgnorePlainNot ==
  /\ task.at = "ignore"
  /\ Respond("session", task.answer)
  /\ task' = [task EXCEPT !.at = "answer"]
  /\ UNCHANGED <<queue, reqIDCounter, listening, thread, user, outcome>>

(* ... and answered under it, after an accepted emergency request has had  *)
(* the plain one ignored.                                                  *)
IgnorePlain ==
  /\ task.at = "ignore"
  /\ Respond("session", "IGNORE")
  /\ task' = [task EXCEPT !.at = "answer"]
  /\ UNCHANGED <<queue, reqIDCounter, listening, thread, user, outcome>>

AnswerSession ==
  /\ task.at = "answer"
  /\ Respond(task.slot, task.answer)
  /\ task' = Idle
  /\ UNCHANGED <<queue, reqIDCounter, listening, thread, user, outcome>>

InformNiResponse ==
  /\ Handle("inform")
  /\ outcome' = [outcome EXCEPT ![Head(queue).req] = Head(queue).answer]
  /\ UNCHANGED <<task, slot, reqIDCounter, listening, thread, user>>

MsgTask ==
  RequestNiNotify \/ Tell \/ GnssNiResponse \/ IgnorePlain \/ AnswerSession \/ InformNiResponse

-----------------------------------------------------------------------------
(* The thread of a request, niThreadProc().                                *)

(* The end of its locked section: take the request out of the place, to    *)
(* send the answer, or to free the request if it is to be ignored.         *)
Decide(r, resp) ==
  LET s == SlotOf(r)
      raw == slot[s].rawRequest
      sends == raw # None /\ resp # "IGNORE"
  IN /\ slot' = [slot EXCEPT ![s].rawRequest = None, ![s].resp = resp,
                             ![s].respRecvd = FALSE]
     /\ thread' = [thread EXCEPT ![r] =
                     [at |-> "forget", raw |-> IF sends THEN raw ELSE None, resp |-> resp]]
     /\ outcome' = [q \in Request |->
                      IF q = raw /\ ~sends THEN "IGNORE" ELSE outcome[q]]

Begin(r) ==
  /\ thread[r].at = "ready"
  /\ IF slot[SlotOf(r)].respRecvd
     THEN Decide(r, slot[SlotOf(r)].resp)
     ELSE thread' = [thread EXCEPT ![r].at = "waiting"] /\ UNCHANGED <<slot, outcome>>
  /\ UNCHANGED <<queue, task, reqIDCounter, listening, user>>

Wake(r) ==
  /\ thread[r].at = "waiting" /\ slot[SlotOf(r)].respRecvd
  /\ Decide(r, slot[SlotOf(r)].resp)
  /\ UNCHANGED <<queue, task, reqIDCounter, listening, user>>

(* Mutant: the wait has no timeout.                                        *)
TimeOutNever(r) ==
  /\ thread[r].at = "waiting" /\ slot[SlotOf(r)].respRecvd
  /\ Decide(r, "NO_RESPONSE")
  /\ UNCHANGED <<queue, task, reqIDCounter, listening, user>>

(* The wait may end in a timeout although an answer has come meanwhile.    *)
TimeOut(r) ==
  /\ thread[r].at = "waiting"
  /\ Decide(r, "NO_RESPONSE")
  /\ UNCHANGED <<queue, task, reqIDCounter, listening, user>>

(* Outside the lock: by now the place may hold the next request.           *)
Forget(r) ==
  /\ thread[r].at = "forget"
  /\ slot' = [slot EXCEPT ![SlotOf(r)].reqID = 0]
  /\ thread' = [thread EXCEPT ![r].at = IF thread[r].raw = None THEN "over" ELSE "send"]
  /\ UNCHANGED <<queue, task, reqIDCounter, listening, user, outcome>>

Send(r) ==
  /\ thread[r].at = "send"
  /\ queue' = Append(queue, [kind |-> "inform", req |-> thread[r].raw, answer |-> thread[r].resp])
  /\ thread' = [thread EXCEPT ![r].at = "over"]
  /\ UNCHANGED <<task, slot, reqIDCounter, listening, user, outcome>>

NiThread(r) == Begin(r) \/ Wake(r) \/ TimeOut(r) \/ Forget(r) \/ Send(r)

-----------------------------------------------------------------------------
Outside ==
  \/ ClientsChange
  \/ \E r \in Request : RequestNiNotifyEvent(r) \/ \E a \in UserAnswer : UserAnswers(r, a)

Next == Outside \/ MsgTask \/ \E r \in Request : NiThread(r)

Spec == Init /\ [][Next]_vars

(* Both kinds of thread keep running, and a timed wait ends.               *)
FairSpec ==
  /\ Spec
  /\ WF_vars(MsgTask)
  /\ \A r \in Request : WF_vars(NiThread(r))

-----------------------------------------------------------------------------
(* Properties.                                                             *)

(* The block of data that stands for a request in the modem's interface is *)
(* handed from message to session to thread to message.  It is always in   *)
(* exactly one place until the modem is answered or it is freed: it is     *)
(* never answered twice, freed twice, freed and answered, or lost          *)
(* (gnssNiResponseCommand frees it, "a bit weird").                        *)
Holders(r) ==
  {<<"message", i>> : i \in {j \in DOMAIN queue : queue[j].kind # "respond" /\ queue[j].req = r}}
    \cup {<<"session", s>> : s \in {t \in Slot : slot[t].rawRequest = r}}
    \cup {<<"thread", q>> : q \in {p \in Request : thread[p].at \in {"forget", "send"} /\ thread[p].raw = r}}

OneOwner ==
  \A r \in Request :
    IF outcome[r] = "open"
    THEN \E h \in Holders(r) : Holders(r) = {h}
    ELSE Holders(r) = {}

(* A thread takes only the request it was created for, and no two threads  *)
(* wait on one session: whatever is in a session is there for the only     *)
(* thread that waits, unless that could not be created.                    *)
Awaits(r) == thread[r].at \in {"ready", "waiting"}

EachTakesItsOwn ==
  \A r \in Request :
    /\ Awaits(r) => slot[SlotOf(r)].rawRequest = r
    /\ thread[r].raw \in {r, None}

(* The modem is told that the user has agreed or refused only if the user  *)
(* has given this answer, and to a request of the same kind, unless that   *)
(* was shown with the id 0: an earlier thread of its session had just      *)
(* forgotten the id, and 0 matches whatever session is forgotten later.    *)
GaveFor(q, s, a) == a \in answers[q] /\ (SlotOf(q) = s \/ told[q] = 0)

AnswerIsAUsers ==
  \A r \in Request :
    outcome[r] \in UserAnswer => \E q \in Request : GaveFor(q, SlotOf(r), outcome[r])

(* Every request whose thread exists is resolved, and an emergency request *)
(* never by ignoring it.                                                   *)
Resolved ==
  \A r \in Request :
    Awaits(r) ~> outcome[r] \in IF r \in Emergency THEN Answer ELSE Response
=============================================================================
