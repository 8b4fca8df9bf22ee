---------------------------- MODULE EngineProofs ----------------------------
(***************************************************************************)
(* Theorems about what every adapter stands on: the modem interface, with  *)
(* any adapters, events, size of the array and bound on the queue, the     *)
(* message task that handles its messages and theirs, and the control      *)
(* path, by which a client switches and configures the engine.             *)
(***************************************************************************)
EXTENDS LocApi, MsgTask, GnssControl, SequenceTheorems, FiniteSetTheorems, TLAPS

-----------------------------------------------------------------------------
(* What the state is made of.                                              *)

ApiMessage ==
    [kind : {"open", "ssr"}] \cup [kind : {"update"}, adapter : Adapters, mask : Masks]

ApiTypeOK ==
    /\ mLocAdapters \in [Slots -> Adapters \cup {NoAdapter}]
    /\ mEvtMask \in [Adapters -> Masks]
    /\ alive \in [Adapters -> {"unborn", "constructed", "destroyed"}]
    /\ leaving \in [at : {"no", "hole", "moved", "shifted"}, hole : Nat, last : Nat]
    /\ leaving.at = "no" => leaving = NotLeaving
    /\ apiMail \in Seq(ApiMessage)
    /\ reading \in [slot : Nat, mask : Masks]
    /\ reading.slot = 0 => reading = NotReading
    /\ modem \in [up : BOOLEAN, mask : Masks]
    /\ report \in [kind : {"none", "all", "first"}, slot : Nat, reached : Seq(Adapters \cup {NoAdapter}),
                   present : SUBSET Adapters, disturbed : BOOLEAN]

(* The array has no hole but the one that a removal is about to fill.      *)
ArrayIs(n) ==
    /\ leaving.at \in {"no", "shifted"} => \A i \in Slots : mLocAdapters[i] # NoAdapter <=> i <= n
    /\ leaving.at = "shifted" => leaving.last = n + 1
    /\ leaving.at = "hole" =>
         /\ leaving.hole \in 1 .. n
         /\ \A i \in Slots : mLocAdapters[i] # NoAdapter <=> (i <= n /\ i # leaving.hole)
    /\ leaving.at = "moved" =>
         /\ leaving.hole \in 1 .. n /\ leaving.last = n
         /\ \A i \in Slots : mLocAdapters[i] # NoAdapter <=> (i <= n /\ (leaving.hole = n => i # n))
         /\ mLocAdapters[leaving.hole] = mLocAdapters[n]

NoHoles == \E n \in 0 .. MAX_ADAPTERS : ArrayIs(n)

(* An adapter is in the array once, as long as it lives.                   *)
EachOnce ==
    /\ \A i \in Slots : mLocAdapters[i] # NoAdapter => alive[mLocAdapters[i]] = "constructed"
    /\ \A i, j \in Slots :
         mLocAdapters[i] = mLocAdapters[j] /\ mLocAdapters[i] # NoAdapter /\ i # j =>
           leaving.at = "moved" /\ {i, j} = {leaving.hole, leaving.last}

(* Nothing posted: what was read is what the adapters read so far want,    *)
(* and what the engine was opened for is what all of them want.            *)
WantedBefore(slot) == {e \in Events : \E i \in Slots : i < slot /\ e \in mEvtMask[mLocAdapters[i]]}
MasksAreFresh ==
    leaving = NotLeaving /\ apiMail = <<>> /\ Registered # {} =>
      /\ reading # NotReading =>
           /\ \A i \in Slots : i < reading.slot => mLocAdapters[i] # NoAdapter
           /\ reading.mask = WantedBefore(reading.slot)
      /\ reading = NotReading /\ modem.up =>
           modem.mask = {e \in Events : \E a \in Registered : e \in mEvtMask[a]} \ Excluded

(* A report has reached the adapters of the slots that it has passed.      *)
ReportIsOnItsWay ==
    report.kind # "none" /\ ~report.disturbed =>
      /\ leaving = NotLeaving
      /\ report.slot # 0 /\ Len(report.reached) = report.slot - 1
      /\ \A i \in 1 .. report.slot - 1 :
           /\ i \in Slots /\ mLocAdapters[i] # NoAdapter /\ report.reached[i] = mLocAdapters[i]
           /\ report.kind = "first" /\ i < report.slot - 1 => report.reached[i] \notin Handlers
      /\ report.present \subseteq Registered

ApiInv == NoHoles /\ EachOnce /\ MasksAreFresh /\ ReportIsOnItsWay

-----------------------------------------------------------------------------
(* The searches over the array.                                            *)

LEMMA Sizes == MAX_ADAPTERS \in Nat /\ Slots = 1 .. MAX_ADAPTERS /\ 1 \in Slots
  BY SlotsAssumption DEF Slots

LEMMA FirstFreeIs ==
  ASSUME ApiTypeOK, NEW n \in 0 .. MAX_ADAPTERS,
         \A i \in Slots : mLocAdapters[i] # NoAdapter <=> i <= n
  PROVE  FirstFree = IF n = MAX_ADAPTERS THEN 0 ELSE n + 1
<1> DEFINE I == {i \in 1 .. Len(mLocAdapters) : mLocAdapters[i] = NoAdapter}
<1>0. Len(mLocAdapters) = MAX_ADAPTERS
  BY Sizes DEF ApiTypeOK
<1>1. FirstFree = IF I # {} THEN Min(I) ELSE 0
  BY DEF FirstFree, SelectInSeq
<1>2. CASE n = MAX_ADAPTERS
  BY <1>0, <1>1, <1>2, Sizes
<1>3. CASE n # MAX_ADAPTERS
  <2>1. n + 1 \in I /\ \A i \in I : n + 1 <= i
    BY <1>0, <1>3, Sizes
  <2>2. Min(I) \in I /\ \A i \in I : Min(I) <= i
    BY <2>1 DEF Min
  <2>3. I \subseteq Nat
    BY <1>0, Sizes
  <2>4. Min(I) = n + 1
    BY <2>1, <2>2, <2>3
  <2> QED
    BY <1>1, <1>3, <2>1, <2>4
<1> QED
  BY <1>2, <1>3

(* An adapter that is in the array once is found where it is.              *)
LEMMA SlotOfIs ==
  ASSUME ApiTypeOK, EachOnce, leaving = NotLeaving, NEW a \in Adapters
  PROVE  \/ SlotOf(a) = 0 /\ \A i \in Slots : mLocAdapters[i] # a
         \/ SlotOf(a) \in Slots /\ mLocAdapters[SlotOf(a)] = a
<1> DEFINE I == {i \in 1 .. Len(mLocAdapters) : mLocAdapters[i] = a}
<1>0. Len(mLocAdapters) = MAX_ADAPTERS
  BY Sizes DEF ApiTypeOK
<1>1. SlotOf(a) = IF I # {} THEN Min(I) ELSE 0
  BY DEF SlotOf, SelectInSeq
<1>2. CASE I = {}
  BY <1>0, <1>1, <1>2, Sizes
<1>3. CASE I # {}
  <2>1. PICK k \in I : TRUE
    BY <1>3
  <2>2. a # NoAdapter /\ leaving.at = "no"
    BY AdaptersAssumption DEF NotLeaving
  <2>3. \A i \in I : i = k
    BY <1>0, <2>1, <2>2, Sizes DEF EachOnce
  <2>4. k \in Nat
    BY <1>0, <2>1, Sizes
  <2>5. Min(I) \in I
    BY <2>1, <2>3, <2>4 DEF Min
  <2> QED
    BY <1>0, <1>1, <1>3, <2>5, Sizes
<1> QED
  BY <1>2, <1>3

LEMMA LastSlotIs ==
  ASSUME ApiTypeOK, NEW n \in 0 .. MAX_ADAPTERS, ArrayIs(n), leaving.at = "hole"
  PROVE  LastSlot(leaving.hole) = n
<1> DEFINE h == leaving.hole
           IsLast(i) == /\ \A j \in h + 1 .. i : mLocAdapters[j] # NoAdapter
                        /\ i = MAX_ADAPTERS \/ mLocAdapters[i + 1] = NoAdapter
<1>1. h \in 1 .. n /\ \A i \in 1 .. MAX_ADAPTERS : mLocAdapters[i] # NoAdapter <=> (i <= n /\ i # h)
  BY Sizes DEF ArrayIs
<1>2. n \in h .. MAX_ADAPTERS /\ IsLast(n)
  <2>1. \A j \in h + 1 .. n : mLocAdapters[j] # NoAdapter
    BY <1>1, Sizes
  <2>2. n # MAX_ADAPTERS => mLocAdapters[n + 1] = NoAdapter
    BY <1>1, Sizes
  <2>3. n \in h .. MAX_ADAPTERS
    BY <1>1, Sizes
  <2> QED
    BY <2>1, <2>2, <2>3
<1>3. ASSUME NEW i \in h .. MAX_ADAPTERS, IsLast(i) PROVE i = n
  <2>1. i \in Nat /\ h \in Nat /\ h <= i /\ i <= MAX_ADAPTERS
    BY <1>1, Sizes
  <2>2. ~(i < n)
    <3> SUFFICES ASSUME i < n PROVE FALSE
      OBVIOUS
    <3>1. i + 1 \in 1 .. MAX_ADAPTERS /\ i + 1 <= n /\ i + 1 # h /\ i # MAX_ADAPTERS
      BY <2>1, Sizes
    <3> QED
      BY <1>1, <1>3, <3>1
  <2>3. ~(n < i)
    <3> SUFFICES ASSUME n < i PROVE FALSE
      OBVIOUS
    <3>1. n + 1 \in h + 1 .. i /\ n + 1 \in 1 .. MAX_ADAPTERS /\ ~(n + 1 <= n)
      BY <1>1, <2>1, Sizes
    <3> QED
      BY <1>1, <1>3, <3>1
  <2> QED
    BY <2>1, <2>2, <2>3
<1>4. LastSlot(h) = CHOOSE i \in h .. MAX_ADAPTERS : IsLast(i)
  BY DEF LastSlot
<1> HIDE DEF IsLast
<1>5. LastSlot(h) \in h .. MAX_ADAPTERS /\ IsLast(LastSlot(h))
  BY <1>2, <1>4
<1> QED
  BY <1>3, <1>5

LEMMA MailTypes ==
  ASSUME ApiTypeOK
  PROVE  /\ LocOpenMsg \in ApiMessage /\ LocSsrMsg \in ApiMessage
         /\ \A a \in Adapters, mask \in Masks : UpdateMsg(a, mask) \in ApiMessage
         /\ \A m \in ApiMessage : Append(apiMail, m) \in Seq(ApiMessage) /\ Append(apiMail, m) # <<>>
         /\ apiMail # <<>> => Tail(apiMail) \in Seq(ApiMessage) /\ Head(apiMail) \in ApiMessage
<1>1. /\ LocOpenMsg \in ApiMessage /\ LocSsrMsg \in ApiMessage
      /\ \A a \in Adapters, mask \in Masks : UpdateMsg(a, mask) \in ApiMessage
  BY DEF ApiMessage, LocOpenMsg, LocSsrMsg, UpdateMsg
<1>2. apiMail \in Seq(ApiMessage)
  BY DEF ApiTypeOK
<1>3. \A m \in ApiMessage : Append(apiMail, m) \in Seq(ApiMessage) /\ Append(apiMail, m) # <<>>
  <2> TAKE m \in ApiMessage
  <2>1. Append(apiMail, m) \in Seq(ApiMessage) /\ Len(Append(apiMail, m)) = Len(apiMail) + 1
    BY <1>2
  <2>2. Len(apiMail) \in Nat
    BY <1>2
  <2>3. Len(Append(apiMail, m)) # 0
    BY <2>1, <2>2
  <2>4. Append(apiMail, m) = <<>> => Len(Append(apiMail, m)) = 0
    OBVIOUS
  <2> QED
    BY <2>1, <2>3, <2>4
<1>4. apiMail # <<>> => Tail(apiMail) \in Seq(ApiMessage) /\ Head(apiMail) \in ApiMessage
  BY <1>2
<1> QED
  BY <1>1, <1>3, <1>4

-----------------------------------------------------------------------------
(* Adapters that come.                                                     *)

LEMMA AddStep ==
  ASSUME ApiTypeOK, ApiInv, NEW a \in Adapters, AddAdapter(a)
  PROVE  ApiTypeOK' /\ ApiInv'
<1>1. /\ alive[a] = "unborn" /\ leaving = NotLeaving
      /\ alive' = [alive EXCEPT ![a] = "constructed"]
      /\ IF FirstFree = 0 THEN UNCHANGED <<mLocAdapters, apiMail>>
         ELSE mLocAdapters' = [mLocAdapters EXCEPT ![FirstFree] = a] /\ apiMail' = Append(apiMail, LocOpenMsg)
      /\ UNCHANGED <<leaving, reading, modem, report>>
  BY DEF AddAdapter, Post
<1>2. PICK mask \in Masks : mEvtMask' = [mEvtMask EXCEPT ![a] = mask]
  BY DEF AddAdapter
<1>3. /\ mLocAdapters \in [Slots -> Adapters \cup {NoAdapter}] /\ mEvtMask \in [Adapters -> Masks]
      /\ alive \in [Adapters -> {"unborn", "constructed", "destroyed"}]
      /\ a # NoAdapter /\ leaving.at = "no"
  BY <1>1, AdaptersAssumption DEF ApiTypeOK, NotLeaving
<1>4. PICK n \in 0 .. MAX_ADAPTERS : ArrayIs(n)
  BY DEF ApiInv, NoHoles
<1>5. \A i \in Slots : mLocAdapters[i] # NoAdapter <=> i <= n
  BY <1>3, <1>4 DEF ArrayIs
<1>6. FirstFree = IF n = MAX_ADAPTERS THEN 0 ELSE n + 1
  BY <1>5, FirstFreeIs
<1>7. \A i \in Slots : mLocAdapters[i] # a
  BY <1>1, <1>3 DEF ApiInv, EachOnce
<1>8. \A b \in Adapters : b # a => mEvtMask'[b] = mEvtMask[b] /\ alive'[b] = alive[b]
  BY <1>1, <1>2, <1>3
<1>9. alive'[a] = "constructed"
  BY <1>1, <1>3
<1>10. CASE n = MAX_ADAPTERS
  <2>1. UNCHANGED <<mLocAdapters, apiMail>>
    BY <1>1, <1>6, <1>10
  <2>2. ApiTypeOK'
    BY <1>1, <1>2, <1>3, <2>1 DEF ApiTypeOK
  <2>3. NoHoles'
    BY <1>1, <2>1 DEF ApiInv, NoHoles, ArrayIs
  <2>4. EachOnce'
    BY <1>1, <1>3, <1>8, <1>9, <2>1 DEF ApiInv, EachOnce
  <2>5. Registered' = Registered /\ a \notin Registered /\ Registered \subseteq Adapters
    BY <1>3, <1>7, <2>1 DEF Registered, Range
  <2>6. MasksAreFresh'
    <3> SUFFICES ASSUME apiMail = <<>>, Registered # {}
                 PROVE  /\ reading # NotReading =>
                             /\ \A i \in Slots : i < reading.slot => mLocAdapters[i] # NoAdapter
                             /\ reading.mask = {e \in Events : \E i \in Slots : i < reading.slot /\ e \in mEvtMask'[mLocAdapters[i]]}
                        /\ reading = NotReading /\ modem.up =>
                             modem.mask = {e \in Events : \E b \in Registered : e \in mEvtMask'[b]} \ Excluded
      BY <1>1, <2>1, <2>5 DEF MasksAreFresh, WantedBefore, NotReading
    <3>1. \A b \in Registered : mEvtMask'[b] = mEvtMask[b]
      BY <1>8, <2>5
    <3>2. \A i \in Slots : mLocAdapters[i] # NoAdapter => mEvtMask'[mLocAdapters[i]] = mEvtMask[mLocAdapters[i]]
      BY <1>3, <1>7, <1>8
    <3>3. reading = NotReading /\ modem.up =>
            modem.mask = {e \in Events : \E b \in Registered : e \in mEvtMask'[b]} \ Excluded
      BY <1>1, <3>1 DEF ApiInv, MasksAreFresh
    <3>4. ASSUME reading # NotReading
          PROVE  /\ \A i \in Slots : i < reading.slot => mLocAdapters[i] # NoAdapter
                 /\ reading.mask = {e \in Events : \E i \in Slots : i < reading.slot /\ e \in mEvtMask'[mLocAdapters[i]]}
      <4>1. /\ \A i \in Slots : i < reading.slot => mLocAdapters[i] # NoAdapter
            /\ reading.mask = WantedBefore(reading.slot)
        BY <1>1, <3>4 DEF ApiInv, MasksAreFresh
      <4> QED
        BY <3>2, <4>1 DEF WantedBefore
    <3> QED
      BY <3>3, <3>4
  <2>7. ReportIsOnItsWay'
    BY <1>1, <2>1, <2>5 DEF ApiInv, ReportIsOnItsWay, NotLeaving
  <2> QED
    BY <2>2, <2>3, <2>4, <2>6, <2>7 DEF ApiInv
<1>11. CASE n # MAX_ADAPTERS
  <2>1. mLocAdapters' = [mLocAdapters EXCEPT ![n + 1] = a] /\ apiMail' = Append(apiMail, LocOpenMsg)
    BY <1>1, <1>6, <1>11
  <2>2. n + 1 \in Slots /\ n + 1 \in 0 .. MAX_ADAPTERS /\ n \in Nat
    BY <1>11, Sizes
  <2>3. apiMail' \in Seq(ApiMessage) /\ apiMail' # <<>>
    BY <2>1, MailTypes
  <2>4. mLocAdapters' \in [Slots -> Adapters \cup {NoAdapter}] /\ mLocAdapters'[n + 1] = a
        /\ \A i \in Slots : i # n + 1 => mLocAdapters'[i] = mLocAdapters[i]
    BY <1>3, <2>1, <2>2
  <2>5. ApiTypeOK'
    BY <1>1, <1>2, <1>3, <2>3, <2>4 DEF ApiTypeOK
  <2>6. NoHoles'
    <3>1. \A i \in Slots : mLocAdapters'[i] # NoAdapter <=> i <= n + 1
      BY <1>3, <1>5, <2>2, <2>4, Sizes
    <3> QED
      BY <1>1, <1>3, <2>2, <3>1 DEF NoHoles, ArrayIs
  <2>7. EachOnce'
    <3>1. \A i \in Slots : mLocAdapters'[i] # NoAdapter => alive'[mLocAdapters'[i]] = "constructed"
      BY <1>3, <1>8, <1>9, <2>4 DEF ApiInv, EachOnce
    <3>2. ASSUME NEW i \in Slots, NEW j \in Slots, mLocAdapters'[i] = mLocAdapters'[j],
                 mLocAdapters'[i] # NoAdapter
          PROVE  i = j
      BY <1>3, <1>7, <2>4, <3>2 DEF ApiInv, EachOnce
    <3> QED
      BY <3>1, <3>2 DEF EachOnce
  <2>8. MasksAreFresh'
    BY <2>3 DEF MasksAreFresh
  <2>9. mLocAdapters[n + 1] = NoAdapter
    BY <1>5, <2>2
  <2>10. Registered \subseteq Registered'
    BY <1>3, <2>4, <2>9 DEF Registered, Range
  <2>11. ReportIsOnItsWay'
    <3> SUFFICES ASSUME report.kind # "none", ~report.disturbed
                 PROVE  /\ \A i \in 1 .. report.slot - 1 :
                             /\ i \in Slots /\ mLocAdapters'[i] # NoAdapter /\ report.reached[i] = mLocAdapters'[i]
                             /\ report.kind = "first" /\ i < report.slot - 1 => report.reached[i] \notin Handlers
                        /\ report.present \subseteq Registered'
                        /\ report.slot # 0 /\ Len(report.reached) = report.slot - 1
      BY <1>1 DEF ReportIsOnItsWay, NotLeaving
    <3>1. /\ report.slot # 0 /\ Len(report.reached) = report.slot - 1
          /\ report.present \subseteq Registered
          /\ \A i \in 1 .. report.slot - 1 :
               /\ i \in Slots /\ mLocAdapters[i] # NoAdapter /\ report.reached[i] = mLocAdapters[i]
               /\ report.kind = "first" /\ i < report.slot - 1 => report.reached[i] \notin Handlers
      BY DEF ApiInv, ReportIsOnItsWay
    <3> QED
      BY <2>4, <2>9, <2>10, <3>1
  <2> QED
    BY <2>5, <2>6, <2>7, <2>8, <2>11 DEF ApiInv
<1> QED
  BY <1>10, <1>11

-----------------------------------------------------------------------------
(* Adapters that go.                                                       *)

LEMMA RemoveStep ==
  ASSUME ApiTypeOK, ApiInv, NEW a \in Adapters, RemoveAdapter(a)
  PROVE  ApiTypeOK' /\ ApiInv'
<1>1. /\ alive[a] = "constructed" /\ leaving = NotLeaving
      /\ alive' = [alive EXCEPT ![a] = "destroyed"]
      /\ IF SlotOf(a) = 0 THEN UNCHANGED <<mLocAdapters, leaving>>
         ELSE /\ mLocAdapters' = [mLocAdapters EXCEPT ![SlotOf(a)] = NoAdapter]
              /\ leaving' = [at |-> "hole", hole |-> SlotOf(a), last |-> 0]
      /\ report' = [report EXCEPT !.disturbed = @ \/ SlotOf(a) # 0]
      /\ UNCHANGED <<mEvtMask, apiMail, reading, modem>>
  BY DEF RemoveAdapter
<1>2. /\ mLocAdapters \in [Slots -> Adapters \cup {NoAdapter}]
      /\ alive \in [Adapters -> {"unborn", "constructed", "destroyed"}]
      /\ a # NoAdapter /\ leaving.at = "no"
      /\ report \in [kind : {"none", "all", "first"}, slot : Nat, reached : Seq(Adapters \cup {NoAdapter}),
                     present : SUBSET Adapters, disturbed : BOOLEAN]
  BY <1>1, AdaptersAssumption DEF ApiTypeOK, NotLeaving
<1>3. PICK n \in 0 .. MAX_ADAPTERS : ArrayIs(n)
  BY DEF ApiInv, NoHoles
<1>4. \A i \in Slots : mLocAdapters[i] # NoAdapter <=> i <= n
  BY <1>2, <1>3 DEF ArrayIs
<1>5. \A b \in Adapters : b # a => alive'[b] = alive[b]
  BY <1>1, <1>2
<1>6. CASE SlotOf(a) = 0
  <2>1. UNCHANGED <<mLocAdapters, leaving>> /\ \A i \in Slots : mLocAdapters[i] # a
    BY <1>1, <1>6, SlotOfIs, Sizes DEF ApiInv
  <2>2. report' = [report EXCEPT !.disturbed = @]
    BY <1>1, <1>2, <1>6
  <2>3. report' = report
    BY <1>2, <2>2
  <2>4. ApiTypeOK'
    BY <1>1, <1>2, <2>1, <2>3 DEF ApiTypeOK
  <2>5. NoHoles'
    BY <2>1 DEF ApiInv, NoHoles, ArrayIs
  <2>6. EachOnce'
    BY <1>2, <1>5, <2>1 DEF ApiInv, EachOnce
  <2>7. MasksAreFresh'
    BY <1>1, <2>1 DEF ApiInv, MasksAreFresh, WantedBefore, Registered, NotReading, NotLeaving
  <2>8. ReportIsOnItsWay'
    BY <2>1, <2>3 DEF ApiInv, ReportIsOnItsWay, Registered, NotLeaving
  <2> QED
    BY <2>4, <2>5, <2>6, <2>7, <2>8 DEF ApiInv
<1>7. CASE SlotOf(a) # 0
  <2> DEFINE h == SlotOf(a)
  <2>1. h \in Slots /\ mLocAdapters[h] = a
    BY <1>1, <1>7, SlotOfIs DEF ApiInv
  <2>2. PICK k \in Slots : k = h
    BY <2>1
  <2>3. /\ mLocAdapters' = [mLocAdapters EXCEPT ![k] = NoAdapter]
        /\ leaving' = [at |-> "hole", hole |-> k, last |-> 0]
        /\ report' = [report EXCEPT !.disturbed = TRUE]
    BY <1>1, <1>2, <1>7, <2>2
  <2>4. k \in 1 .. n /\ k \in Nat
    BY <1>2, <1>4, <2>1, <2>2, Sizes
  <2>5. mLocAdapters' \in [Slots -> Adapters \cup {NoAdapter}] /\ mLocAdapters'[k] = NoAdapter
        /\ \A i \in Slots : i # k => mLocAdapters'[i] = mLocAdapters[i]
    BY <1>2, <2>3
  <2>6. leaving'.at = "hole" /\ leaving'.hole = k /\ leaving' # NotLeaving
        /\ leaving' \in [at : {"no", "hole", "moved", "shifted"}, hole : Nat, last : Nat]
    BY <2>3, <2>4 DEF NotLeaving
  <2>7. report'.disturbed = TRUE
        /\ report' \in [kind : {"none", "all", "first"}, slot : Nat, reached : Seq(Adapters \cup {NoAdapter}),
                        present : SUBSET Adapters, disturbed : BOOLEAN]
    BY <1>2, <2>3
  <2>8. ApiTypeOK'
    BY <1>1, <1>2, <2>5, <2>6, <2>7 DEF ApiTypeOK, NotReading
  <2>9. NoHoles'
    <3>1. \A i \in Slots : mLocAdapters'[i] # NoAdapter <=> (i <= n /\ i # k)
      BY <1>4, <2>5
    <3> QED
      BY <2>4, <2>6, <3>1 DEF NoHoles, ArrayIs
  <2>10. EachOnce'
    <3>1. ASSUME NEW i \in Slots, mLocAdapters'[i] # NoAdapter
          PROVE  i # k /\ mLocAdapters'[i] = mLocAdapters[i] /\ mLocAdapters[i] \in Adapters
                 /\ alive[mLocAdapters[i]] = "constructed" /\ mLocAdapters[i] # a
      <4>1. i # k /\ mLocAdapters'[i] = mLocAdapters[i] /\ mLocAdapters[i] \in Adapters
        BY <1>2, <2>5, <3>1
      <4>2. mLocAdapters[i] # a
        BY <1>2, <2>1, <2>2, <4>1 DEF ApiInv, EachOnce
      <4> QED
        BY <3>1, <4>1, <4>2 DEF ApiInv, EachOnce
    <3>2. \A i, j \in Slots :
            mLocAdapters'[i] = mLocAdapters'[j] /\ mLocAdapters'[i] # NoAdapter => i = j
      BY <1>2, <3>1 DEF ApiInv, EachOnce
    <3> QED
      BY <1>5, <3>1, <3>2 DEF EachOnce
  <2>11. MasksAreFresh'
    BY <2>6 DEF MasksAreFresh, NotLeaving
  <2>12. ReportIsOnItsWay'
    BY <2>7 DEF ReportIsOnItsWay
  <2> QED
    BY <2>8, <2>9, <2>10, <2>11, <2>12 DEF ApiInv
<1> QED
  BY <1>6, <1>7

(* While an adapter leaves, a report is disturbed and no mask is fresh.    *)
LEMMA LeavingDisturbs ==
  ASSUME ApiInv, leaving.at # "no"
  PROVE  report.kind = "none" \/ report.disturbed
  BY DEF ApiInv, ReportIsOnItsWay, NotLeaving

LEMMA FillStep ==
  ASSUME ApiTypeOK, ApiInv, FillHole
  PROVE  ApiTypeOK' /\ ApiInv'
<1>1. PICK n \in 0 .. MAX_ADAPTERS : ArrayIs(n)
  BY DEF ApiInv, NoHoles
<1>2. leaving.at = "hole" /\ LastSlot(leaving.hole) = n
  BY <1>1, LastSlotIs DEF FillHole
<1>3. PICK h : h = leaving.hole
  OBVIOUS
<1>4. /\ h \in 1 .. n /\ h \in Slots /\ n \in Slots /\ n \in Nat /\ h \in Nat
      /\ \A i \in Slots : mLocAdapters[i] # NoAdapter <=> (i <= n /\ i # h)
  BY <1>1, <1>2, <1>3, Sizes DEF ArrayIs
<1>5. /\ mLocAdapters' = [mLocAdapters EXCEPT ![h] = mLocAdapters[n]]
      /\ leaving' = [leaving EXCEPT !.at = "moved", !.last = n]
      /\ UNCHANGED <<mEvtMask, alive, apiMail, reading, modem, report>>
  BY <1>2, <1>3 DEF FillHole
<1>6. mLocAdapters \in [Slots -> Adapters \cup {NoAdapter}]
      /\ leaving \in [at : {"no", "hole", "moved", "shifted"}, hole : Nat, last : Nat]
  BY DEF ApiTypeOK
<1>7. /\ leaving'.at = "moved" /\ leaving'.hole = h /\ leaving'.last = n
      /\ leaving' \in [at : {"no", "hole", "moved", "shifted"}, hole : Nat, last : Nat]
  BY <1>3, <1>4, <1>5, <1>6
<1>8. /\ mLocAdapters' \in [Slots -> Adapters \cup {NoAdapter}]
      /\ mLocAdapters'[h] = mLocAdapters[n]
      /\ \A i \in Slots : i # h => mLocAdapters'[i] = mLocAdapters[i]
  BY <1>4, <1>5, <1>6
<1>9. ApiTypeOK'
  BY <1>5, <1>7, <1>8 DEF ApiTypeOK, NotReading
<1>10. NoHoles'
  <2>1. \A i \in Slots : mLocAdapters'[i] # NoAdapter <=> (i <= n /\ (h = n => i # n))
    <3> TAKE i \in Slots
    <3>1. CASE i = h
      BY <1>4, <1>8, <3>1
    <3>2. CASE i # h
      BY <1>4, <1>8, <3>2
    <3> QED
      BY <3>1, <3>2
  <2>2. mLocAdapters'[h] = mLocAdapters'[n]
    BY <1>4, <1>8
  <2> QED
    BY <1>4, <1>7, <2>1, <2>2 DEF NoHoles, ArrayIs
<1>11. EachOnce'
  <2>1. leaving.at # "moved"
    BY <1>2
  <2>2. \A i \in Slots : mLocAdapters'[i] # NoAdapter => alive'[mLocAdapters'[i]] = "constructed"
    BY <1>4, <1>5, <1>8 DEF ApiInv, EachOnce
  <2>3. ASSUME NEW i \in Slots, NEW j \in Slots, mLocAdapters'[i] = mLocAdapters'[j],
               mLocAdapters'[i] # NoAdapter, i # j
        PROVE  {i, j} = {h, n}
    <3>1. CASE i = h
      <4>1. mLocAdapters[j] = mLocAdapters[n] /\ mLocAdapters[j] # NoAdapter
        BY <1>4, <1>8, <2>3, <3>1
      <4>2. j = n
        BY <1>4, <2>1, <4>1 DEF ApiInv, EachOnce
      <4> QED
        BY <3>1, <4>2
    <3>2. CASE j = h
      <4>1. mLocAdapters[i] = mLocAdapters[n] /\ mLocAdapters[i] # NoAdapter
        BY <1>4, <1>8, <2>3, <3>2
      <4>2. i = n
        BY <1>4, <2>1, <4>1 DEF ApiInv, EachOnce
      <4> QED
        BY <3>2, <4>2
    <3>3. CASE i # h /\ j # h
      BY <1>8, <2>1, <2>3, <3>3 DEF ApiInv, EachOnce
    <3> QED
      BY <3>1, <3>2, <3>3
  <2> QED
    BY <1>7, <2>2, <2>3 DEF EachOnce
<1>12. MasksAreFresh'
  BY <1>7 DEF MasksAreFresh, NotLeaving
<1>13. ReportIsOnItsWay'
  BY <1>2, <1>5, LeavingDisturbs DEF ReportIsOnItsWay
<1> QED
  BY <1>9, <1>10, <1>11, <1>12, <1>13 DEF ApiInv

LEMMA EmptyStep ==
  ASSUME ApiTypeOK, ApiInv, EmptyLast
  PROVE  ApiTypeOK' /\ ApiInv'
<1>1. PICK n \in 0 .. MAX_ADAPTERS : ArrayIs(n)
  BY DEF ApiInv, NoHoles
<1>2. leaving.at = "moved"
  BY DEF EmptyLast
<1>3. PICK h : h = leaving.hole
  OBVIOUS
<1>4. /\ h \in 1 .. n /\ h \in Slots /\ n \in Slots /\ n \in Nat /\ h \in Nat /\ leaving.last = n
      /\ \A i \in Slots : mLocAdapters[i] # NoAdapter <=> (i <= n /\ (h = n => i # n))
  BY <1>1, <1>2, <1>3, Sizes DEF ArrayIs
<1>5. /\ mLocAdapters' = [mLocAdapters EXCEPT ![n] = NoAdapter]
      /\ leaving' = [leaving EXCEPT !.at = "shifted"]
      /\ UNCHANGED <<mEvtMask, alive, apiMail, reading, modem, report>>
  BY <1>4 DEF EmptyLast
<1>6. mLocAdapters \in [Slots -> Adapters \cup {NoAdapter}]
      /\ leaving \in [at : {"no", "hole", "moved", "shifted"}, hole : Nat, last : Nat]
  BY DEF ApiTypeOK
<1>7. /\ leaving'.at = "shifted" /\ leaving'.last = n
      /\ leaving' \in [at : {"no", "hole", "moved", "shifted"}, hole : Nat, last : Nat]
  BY <1>4, <1>5, <1>6
<1>8. /\ mLocAdapters' \in [Slots -> Adapters \cup {NoAdapter}]
      /\ mLocAdapters'[n] = NoAdapter
      /\ \A i \in Slots : i # n => mLocAdapters'[i] = mLocAdapters[i]
  BY <1>4, <1>5, <1>6
<1>9. ApiTypeOK'
  BY <1>5, <1>7, <1>8 DEF ApiTypeOK, NotReading
<1>10. NoHoles'
  <2>1. n - 1 \in 0 .. MAX_ADAPTERS /\ (n - 1) + 1 = n
    BY <1>4, Sizes
  <2>2. \A i \in Slots : mLocAdapters'[i] # NoAdapter <=> i <= n - 1
    BY <1>4, <1>8, Sizes
  <2> QED
    BY <1>7, <2>1, <2>2 DEF NoHoles, ArrayIs
<1>11. EachOnce'
  <2>1. \A i \in Slots : mLocAdapters'[i] # NoAdapter => i # n /\ mLocAdapters'[i] = mLocAdapters[i]
    BY <1>8
  <2>2. \A i \in Slots : mLocAdapters'[i] # NoAdapter => alive'[mLocAdapters'[i]] = "constructed"
    BY <1>5, <2>1 DEF ApiInv, EachOnce
  <2>3. ASSUME NEW i \in Slots, NEW j \in Slots, mLocAdapters'[i] = mLocAdapters'[j],
               mLocAdapters'[i] # NoAdapter
        PROVE  i = j
    <3>1. i # n /\ j # n /\ mLocAdapters[i] = mLocAdapters[j] /\ mLocAdapters[i] # NoAdapter
      BY <2>1, <2>3
    <3>2. ~({i, j} = {h, n})
      BY <3>1
    <3> QED
      BY <1>3, <1>4, <3>1, <3>2 DEF ApiInv, EachOnce
  <2> QED
    BY <2>2, <2>3 DEF EachOnce
<1>12. MasksAreFresh'
  BY <1>7 DEF MasksAreFresh, NotLeaving
<1>13. ReportIsOnItsWay'
  BY <1>2, <1>5, LeavingDisturbs DEF ReportIsOnItsWay
<1> QED
  BY <1>9, <1>10, <1>11, <1>12, <1>13 DEF ApiInv

LEMMA CloseStep ==
  ASSUME ApiTypeOK, ApiInv, CloseOrOpen
  PROVE  ApiTypeOK' /\ ApiInv'
<1>1. PICK n \in 0 .. MAX_ADAPTERS : ArrayIs(n)
  BY DEF ApiInv, NoHoles
<1>2. leaving.at = "shifted" /\ leaving.last = n + 1 /\ n \in Nat
      /\ \A i \in Slots : mLocAdapters[i] # NoAdapter <=> i <= n
  BY <1>1, Sizes DEF CloseOrOpen, ArrayIs
<1>3. /\ IF leaving.last = 1 THEN modem' = [modem EXCEPT !.mask = {}] /\ UNCHANGED apiMail
         ELSE apiMail' = Append(apiMail, LocOpenMsg) /\ UNCHANGED modem
      /\ leaving' = NotLeaving
      /\ UNCHANGED <<mLocAdapters, mEvtMask, alive, reading, report>>
  BY DEF CloseOrOpen, Post
<1>4. leaving'.at = "no" /\ leaving' \in [at : {"no", "hole", "moved", "shifted"}, hole : Nat, last : Nat]
  BY <1>3 DEF NotLeaving
<1>5. NoHoles'
  BY <1>1, <1>2, <1>3, <1>4 DEF NoHoles, ArrayIs
<1>6. EachOnce'
  BY <1>2, <1>3 DEF ApiInv, EachOnce
<1>7. ReportIsOnItsWay'
  BY <1>2, <1>3, LeavingDisturbs DEF ReportIsOnItsWay
<1>8. CASE n = 0
  <2>1. modem' = [modem EXCEPT !.mask = {}] /\ UNCHANGED apiMail
    BY <1>2, <1>3, <1>8
  <2>2. modem' \in [up : BOOLEAN, mask : Masks]
    BY <2>1 DEF ApiTypeOK, Masks
  <2>3. ApiTypeOK'
    BY <1>3, <1>4, <2>1, <2>2 DEF ApiTypeOK, NotReading, NotLeaving
  <2>4. \A i \in Slots : mLocAdapters'[i] = NoAdapter
    BY <1>2, <1>3, <1>8, Sizes
  <2>5. Registered' = {}
    BY <1>3, <2>4 DEF Registered, Range, ApiTypeOK
  <2>6. MasksAreFresh'
    BY <2>5 DEF MasksAreFresh
  <2> QED
    BY <1>5, <1>6, <1>7, <2>3, <2>6 DEF ApiInv
<1>9. CASE n # 0
  <2>1. apiMail' = Append(apiMail, LocOpenMsg) /\ UNCHANGED modem
    BY <1>2, <1>3, <1>9
  <2>2. apiMail' \in Seq(ApiMessage) /\ apiMail' # <<>>
    BY <2>1, MailTypes
  <2>3. ApiTypeOK'
    BY <1>3, <1>4, <2>1, <2>2 DEF ApiTypeOK, NotReading, NotLeaving
  <2>4. MasksAreFresh'
    BY <2>2 DEF MasksAreFresh
  <2> QED
    BY <1>5, <1>6, <1>7, <2>3, <2>4 DEF ApiInv
<1> QED
  BY <1>8, <1>9


-----------------------------------------------------------------------------
(* The message thread and the modem's leave the array alone.               *)

LEMMA ArrayStays ==
  ASSUME ApiInv, UNCHANGED <<mLocAdapters, alive, leaving>>
  PROVE  NoHoles' /\ EachOnce'
<1>1. NoHoles'
  BY DEF ApiInv, NoHoles, ArrayIs
<1>2. EachOnce'
  BY DEF ApiInv, EachOnce
<1> QED
  BY <1>1, <1>2

LEMMA ReportStays ==
  ASSUME ApiInv, UNCHANGED <<mLocAdapters, leaving, report>>
  PROVE  ReportIsOnItsWay'
  BY DEF ApiInv, ReportIsOnItsWay, Registered, NotLeaving

LEMMA MasksStay ==
  ASSUME ApiInv, UNCHANGED <<mLocAdapters, mEvtMask, leaving, apiMail, reading, modem>>
  PROVE  MasksAreFresh'
  BY DEF ApiInv, MasksAreFresh, WantedBefore, Registered, NotReading, NotLeaving

LEMMA ChangeStep ==
  ASSUME ApiTypeOK, ApiInv, NEW a \in Adapters, ChangeMask(a)
  PROVE  ApiTypeOK' /\ ApiInv'
<1>1. UNCHANGED <<mLocAdapters, mEvtMask, alive, leaving, reading, modem, report>>
  BY DEF ChangeMask
<1>2. PICK mask \in Masks : apiMail' = Append(apiMail, UpdateMsg(a, mask))
  BY DEF ChangeMask, Post
<1>3. apiMail' \in Seq(ApiMessage) /\ apiMail' # <<>>
  BY <1>2, MailTypes
<1>4. ApiTypeOK'
  BY <1>1, <1>3 DEF ApiTypeOK, NotReading, NotLeaving
<1>5. MasksAreFresh'
  BY <1>3 DEF MasksAreFresh
<1> QED
  BY <1>1, <1>4, <1>5, ArrayStays, ReportStays DEF ApiInv

LEMMA HandleStep ==
  ASSUME ApiTypeOK, ApiInv, HandleApi
  PROVE  ApiTypeOK' /\ ApiInv'
<1>1. apiMail # <<>> /\ UNCHANGED <<mLocAdapters, alive, leaving, report>>
  BY DEF HandleApi
<1>2. PICK m \in ApiMessage : m = Head(apiMail)
  BY <1>1, MailTypes
<1>3. /\ modem' = IF m = LocSsrMsg THEN [modem EXCEPT !.mask = {}] ELSE modem
      /\ mEvtMask' = IF m.kind = "update" THEN [mEvtMask EXCEPT ![m.adapter] = m.mask] ELSE mEvtMask
      /\ apiMail' = Tail(apiMail)
      /\ reading' = [slot |-> 1, mask |-> {}]
  BY <1>2 DEF HandleApi
<1>4. modem' \in [up : BOOLEAN, mask : Masks]
  BY <1>3 DEF ApiTypeOK, Masks
<1>5. mEvtMask' \in [Adapters -> Masks]
  <2>1. CASE m.kind = "update"
    <3>1. m.adapter \in Adapters /\ m.mask \in Masks
      BY <2>1 DEF ApiMessage
    <3> QED
      BY <1>3, <2>1, <3>1 DEF ApiTypeOK
  <2>2. CASE m.kind # "update"
    BY <1>3, <2>2 DEF ApiTypeOK
  <2> QED
    BY <2>1, <2>2
<1>6. reading'.slot = 1 /\ reading'.mask = {} /\ reading' # NotReading /\ reading' \in [slot : Nat, mask : Masks]
  BY <1>3 DEF NotReading, Masks
<1>7. apiMail' \in Seq(ApiMessage)
  BY <1>1, <1>3, MailTypes
<1>8. ApiTypeOK'
  BY <1>1, <1>4, <1>5, <1>6, <1>7 DEF ApiTypeOK, NotLeaving
<1>9. MasksAreFresh'
  <2>1. \A i \in Slots : ~(i < 1)
    BY Sizes
  <2>2. \A i \in Slots : ~(i < reading'.slot)
    BY <1>6, <2>1
  <2>3. {e \in Events : \E i \in Slots : i < reading'.slot /\ e \in mEvtMask'[mLocAdapters'[i]]} = {}
    BY <2>2
  <2> QED
    BY <1>6, <2>2, <2>3 DEF MasksAreFresh, WantedBefore, NotReading
<1> QED
  BY <1>1, <1>8, <1>9, ArrayStays, ReportStays DEF ApiInv

LEMMA GetStep ==
  ASSUME ApiTypeOK, ApiInv, GetEvtMask
  PROVE  ApiTypeOK' /\ ApiInv'
<1>1. UNCHANGED <<mLocAdapters, mEvtMask, alive, leaving, apiMail, modem, report>>
  BY DEF GetEvtMask
<1>2. PICK s \in Slots : s = reading.slot /\ mLocAdapters[s] # NoAdapter
  BY DEF GetEvtMask, Ends
<1>3. reading # NotReading
      /\ reading' = [slot |-> s + 1, mask |-> reading.mask \cup mEvtMask[mLocAdapters[s]]]
  BY <1>2 DEF GetEvtMask
<1>4. s \in Nat /\ s + 1 \in Nat /\ s + 1 # 0
  BY Sizes
<1>5. reading.mask \cup mEvtMask[mLocAdapters[s]] \in Masks
  BY <1>2 DEF ApiTypeOK, Masks
<1>6. /\ reading' \in [slot : Nat, mask : Masks] /\ reading'.slot = s + 1
      /\ reading'.mask = reading.mask \cup mEvtMask[mLocAdapters[s]] /\ reading' # NotReading
  BY <1>3, <1>4, <1>5 DEF NotReading
<1>7. ApiTypeOK'
  BY <1>1, <1>4, <1>6 DEF ApiTypeOK, NotLeaving
<1>8. MasksAreFresh'
  <2> SUFFICES ASSUME leaving = NotLeaving, apiMail = <<>>, Registered # {}
               PROVE  /\ \A i \in Slots : i < s + 1 => mLocAdapters[i] # NoAdapter
                      /\ reading'.mask = {e \in Events : \E i \in Slots :
                                            i < s + 1 /\ e \in mEvtMask[mLocAdapters[i]]}
    BY <1>1, <1>6 DEF MasksAreFresh, WantedBefore, Registered, NotReading, NotLeaving
  <2>1. /\ \A i \in Slots : i < s => mLocAdapters[i] # NoAdapter
        /\ reading.mask = {e \in Events : \E i \in Slots : i < s /\ e \in mEvtMask[mLocAdapters[i]]}
    BY <1>2, <1>3 DEF ApiInv, MasksAreFresh, WantedBefore
  <2>2. \A i \in Slots : i < s + 1 <=> (i < s \/ i = s)
    BY <1>4, Sizes
  <2>3. mEvtMask[mLocAdapters[s]] \subseteq Events
    BY <1>2 DEF ApiTypeOK, Masks
  <2> QED
    BY <1>2, <1>6, <2>1, <2>2, <2>3
<1> QED
  BY <1>1, <1>7, <1>8, ArrayStays, ReportStays DEF ApiInv

LEMMA OpenStep ==
  ASSUME ApiTypeOK, ApiInv, OpenEngine
  PROVE  ApiTypeOK' /\ ApiInv'
<1>1. UNCHANGED <<mLocAdapters, mEvtMask, alive, leaving, apiMail, report>>
      /\ reading # NotReading /\ reading' = NotReading
      /\ modem' = IF modem.up THEN [modem EXCEPT !.mask = reading.mask \ Excluded] ELSE modem
  BY DEF OpenEngine
<1>2. PICK s \in Nat : s = reading.slot /\ s # 0
  BY <1>1 DEF ApiTypeOK
<1>3. s \notin Slots \/ mLocAdapters[s] = NoAdapter
  BY <1>2 DEF OpenEngine, Ends
<1>4. reading.mask \ Excluded \in Masks
  BY DEF ApiTypeOK, Masks
<1>5. modem' \in [up : BOOLEAN, mask : Masks] /\ modem'.up = modem.up
      /\ (modem.up => modem'.mask = reading.mask \ Excluded)
  BY <1>1, <1>4 DEF ApiTypeOK
<1>6. reading' \in [slot : Nat, mask : Masks]
  BY <1>1 DEF NotReading, Masks
<1>7. ApiTypeOK'
  BY <1>1, <1>5, <1>6 DEF ApiTypeOK, NotLeaving, NotReading
<1>8. MasksAreFresh'
  <2> SUFFICES ASSUME leaving = NotLeaving, apiMail = <<>>, Registered # {}, modem.up
               PROVE  reading.mask = {e \in Events : \E a \in Registered : e \in mEvtMask[a]}
    BY <1>1, <1>5 DEF MasksAreFresh, Registered, NotReading, NotLeaving
  <2>1. reading.mask = {e \in Events : \E i \in Slots : i < s /\ e \in mEvtMask[mLocAdapters[i]]}
        /\ \A i \in Slots : i < s => mLocAdapters[i] # NoAdapter
    BY <1>1, <1>2 DEF ApiInv, MasksAreFresh, WantedBefore
  <2>2. PICK n \in 0 .. MAX_ADAPTERS : \A i \in Slots : mLocAdapters[i] # NoAdapter <=> i <= n
    BY DEF ApiInv, NoHoles, ArrayIs, NotLeaving
  <2>3. \A i \in Slots : mLocAdapters[i] # NoAdapter => i < s
    <3> SUFFICES ASSUME NEW i \in Slots, mLocAdapters[i] # NoAdapter, ~(i < s)
                 PROVE  FALSE
      OBVIOUS
    <3>1. s \in Slots /\ s <= n
      BY <1>2, <2>2, Sizes
    <3> QED
      BY <1>3, <2>2, <3>1
  <2>4. Registered = {mLocAdapters[i] : i \in {j \in Slots : mLocAdapters[j] # NoAdapter}}
    BY DEF Registered, Range, ApiTypeOK
  <2> QED
    BY <2>1, <2>3, <2>4
<1> QED
  BY <1>1, <1>7, <1>8, ArrayStays, ReportStays DEF ApiInv

LEMMA DownStep ==
  ASSUME ApiTypeOK, ApiInv, HandleEngineDownEvent
  PROVE  ApiTypeOK' /\ ApiInv'
<1>1. UNCHANGED <<mLocAdapters, mEvtMask, alive, leaving, apiMail, reading, report>>
      /\ modem' = [up |-> FALSE, mask |-> {}]
  BY DEF HandleEngineDownEvent
<1>2. modem' \in [up : BOOLEAN, mask : Masks] /\ ~modem'.up
  BY <1>1 DEF Masks
<1>3. ApiTypeOK'
  BY <1>1, <1>2 DEF ApiTypeOK, NotLeaving, NotReading
<1>4. MasksAreFresh'
  BY <1>1, <1>2 DEF ApiInv, MasksAreFresh, WantedBefore, Registered, NotReading, NotLeaving
<1> QED
  BY <1>1, <1>3, <1>4, ArrayStays, ReportStays DEF ApiInv

LEMMA UpStep ==
  ASSUME ApiTypeOK, ApiInv, HandleEngineUpEvent
  PROVE  ApiTypeOK' /\ ApiInv'
<1>1. UNCHANGED <<mLocAdapters, mEvtMask, alive, leaving, reading, report>>
      /\ modem' = [modem EXCEPT !.up = TRUE] /\ apiMail' = Append(apiMail, LocSsrMsg)
  BY DEF HandleEngineUpEvent, Post
<1>2. apiMail' \in Seq(ApiMessage) /\ apiMail' # <<>>
  BY <1>1, MailTypes
<1>3. modem' \in [up : BOOLEAN, mask : Masks]
  BY <1>1 DEF ApiTypeOK
<1>4. ApiTypeOK'
  BY <1>1, <1>2, <1>3 DEF ApiTypeOK, NotLeaving, NotReading
<1>5. MasksAreFresh'
  BY <1>2 DEF MasksAreFresh
<1> QED
  BY <1>1, <1>4, <1>5, ArrayStays, ReportStays DEF ApiInv

-----------------------------------------------------------------------------
(* The reports.                                                            *)

LEMMA BeginStep ==
  ASSUME ApiTypeOK, ApiInv, NEW kind \in {"all", "first"}, BeginReport(kind)
  PROVE  ApiTypeOK' /\ ApiInv'
<1>1. UNCHANGED <<mLocAdapters, mEvtMask, alive, leaving, apiMail, reading, modem>>
      /\ report' = [kind |-> kind, slot |-> 1, reached |-> <<>>, present |-> Registered,
                    disturbed |-> leaving # NotLeaving]
  BY DEF BeginReport, Registered
<1>2. Registered \subseteq Adapters
  BY DEF Registered, Range, ApiTypeOK
<1>3. <<>> \in Seq(Adapters \cup {NoAdapter}) /\ Len(<<>>) = 0
  OBVIOUS
<1>4. /\ report'.slot = 1 /\ report'.reached = <<>> /\ report'.present = Registered
      /\ report'.disturbed = (leaving # NotLeaving)
  BY <1>1
<1>5. report' \in [kind : {"none", "all", "first"}, slot : Nat, reached : Seq(Adapters \cup {NoAdapter}),
                   present : SUBSET Adapters, disturbed : BOOLEAN]
  BY <1>1, <1>2, <1>3
<1>6. ApiTypeOK'
  BY <1>1, <1>5 DEF ApiTypeOK, NotLeaving, NotReading
<1>7. ReportIsOnItsWay'
  <2>1. Len(report'.reached) = report'.slot - 1 /\ 1 .. report'.slot - 1 = {}
    BY <1>3, <1>4
  <2>2. Registered' = Registered /\ NotLeaving' = NotLeaving
    BY <1>1 DEF Registered, NotLeaving
  <2>3. leaving' = leaving
    BY <1>1
  <2>4. ~report'.disturbed => leaving' = NotLeaving'
    BY <1>4, <2>2, <2>3
  <2>5. report'.slot # 0 /\ report'.present \subseteq Registered'
    BY <1>4, <2>2
  <2> QED
    BY <2>1, <2>4, <2>5 DEF ReportIsOnItsWay
<1> QED
  BY <1>1, <1>6, <1>7, ArrayStays, MasksStay DEF ApiInv

LEMMA CallStep ==
  ASSUME ApiTypeOK, ApiInv, CallAdapter
  PROVE  ApiTypeOK' /\ ApiInv'
<1>1. UNCHANGED <<mLocAdapters, mEvtMask, alive, leaving, apiMail, reading, modem>>
      /\ report.kind # "none" /\ ~Handled
  BY DEF CallAdapter
<1>2. PICK s \in Slots : s = report.slot /\ mLocAdapters[s] # NoAdapter
  BY DEF CallAdapter, Ends
<1>3. report' = [report EXCEPT !.slot = s + 1, !.reached = Append(report.reached, mLocAdapters[s])]
  BY <1>2 DEF CallAdapter
<1>4. PICK r \in Seq(Adapters \cup {NoAdapter}) : r = report.reached
  BY DEF ApiTypeOK
<1>5. /\ mLocAdapters[s] \in Adapters \cup {NoAdapter}
      /\ report \in [kind : {"none", "all", "first"}, slot : Nat, reached : Seq(Adapters \cup {NoAdapter}),
                     present : SUBSET Adapters, disturbed : BOOLEAN]
  BY DEF ApiTypeOK
<1>6. s \in Nat /\ s # 0 /\ s + 1 \in Nat /\ (s + 1) - 1 = s
  BY Sizes
<1>7. Append(r, mLocAdapters[s]) \in Seq(Adapters \cup {NoAdapter})
  BY <1>5
<1>8. /\ report' \in [kind : {"none", "all", "first"}, slot : Nat, reached : Seq(Adapters \cup {NoAdapter}),
                      present : SUBSET Adapters, disturbed : BOOLEAN]
      /\ report'.slot = s + 1 /\ report'.reached = Append(r, mLocAdapters[s]) /\ report'.kind = report.kind
      /\ report'.present = report.present /\ report'.disturbed = report.disturbed
  BY <1>3, <1>4, <1>5, <1>6, <1>7
<1>9. ApiTypeOK'
  BY <1>1, <1>8 DEF ApiTypeOK, NotLeaving, NotReading
<1>10. ReportIsOnItsWay'
  <2> SUFFICES ASSUME ~report.disturbed
               PROVE  /\ leaving = NotLeaving
                      /\ Len(Append(r, mLocAdapters[s])) = s
                      /\ \A i \in 1 .. s :
                           /\ i \in Slots /\ mLocAdapters[i] # NoAdapter
                           /\ Append(r, mLocAdapters[s])[i] = mLocAdapters[i]
                           /\ report.kind = "first" /\ i < s => mLocAdapters[i] \notin Handlers
                      /\ report.present \subseteq Registered
    BY <1>1, <1>6, <1>8 DEF ReportIsOnItsWay, Registered, NotLeaving
  <2>1. /\ leaving = NotLeaving /\ Len(r) = s - 1
        /\ \A i \in 1 .. s - 1 :
             /\ i \in Slots /\ mLocAdapters[i] # NoAdapter /\ r[i] = mLocAdapters[i]
             /\ report.kind = "first" /\ i < s - 1 => r[i] \notin Handlers
        /\ report.present \subseteq Registered
    BY <1>1, <1>2, <1>4 DEF ApiInv, ReportIsOnItsWay
  <2>2. Len(Append(r, mLocAdapters[s])) = s
    BY <1>5, <1>6, <2>1
  <2>3. \A i \in 1 .. s : i # s => Append(r, mLocAdapters[s])[i] = r[i]
    BY <1>5, <1>6, <2>1
  <2>4. report.kind = "first" /\ s # 1 => r[s - 1] \notin Handlers
    <3> SUFFICES ASSUME report.kind = "first", s # 1 PROVE r[s - 1] \notin Handlers
      OBVIOUS
    <3>1. Len(r) = s - 1 /\ s - 1 # 0
      BY <1>6, <2>1
    <3>2. r # <<>> /\ Last(r) = r[s - 1]
      BY <3>1 DEF Last
    <3> QED
      BY <1>1, <1>4, <3>2 DEF Handled
  <2>5. ASSUME NEW i \in 1 .. s
        PROVE  /\ i \in Slots /\ mLocAdapters[i] # NoAdapter
               /\ Append(r, mLocAdapters[s])[i] = mLocAdapters[i]
               /\ report.kind = "first" /\ i < s => mLocAdapters[i] \notin Handlers
    <3>1. CASE i = s
      <4>1. ~(i < s)
        BY <1>6, <3>1
      <4>2. Append(r, mLocAdapters[s])[s] = mLocAdapters[s]
        BY <1>5, <1>6, <2>1
      <4> QED
        BY <1>2, <3>1, <4>1, <4>2
    <3>2. CASE i # s
      <4>1. i \in 1 .. s - 1 /\ (i < s - 1 \/ i = s - 1)
        BY <1>6, <3>2
      <4>2. i = s - 1 => s # 1
        BY <1>6, <4>1
      <4> QED
        BY <2>1, <2>3, <2>4, <3>2, <4>1, <4>2
    <3> QED
      BY <3>1, <3>2
  <2> QED
    BY <2>1, <2>2, <2>5
<1> QED
  BY <1>1, <1>9, <1>10, ArrayStays, MasksStay DEF ApiInv

LEMMA EndStep ==
  ASSUME ApiTypeOK, ApiInv, EndReport
  PROVE  ApiTypeOK' /\ ApiInv'
<1>1. UNCHANGED <<mLocAdapters, mEvtMask, alive, leaving, apiMail, reading, modem>>
      /\ report' = NoReport
  BY DEF EndReport
<1>2. <<>> \in Seq(Adapters \cup {NoAdapter})
  OBVIOUS
<1>3. NoReport \in [kind : {"none", "all", "first"}, slot : Nat, reached : Seq(Adapters \cup {NoAdapter}),
                    present : SUBSET Adapters, disturbed : BOOLEAN] /\ NoReport.kind = "none"
  BY <1>2 DEF NoReport
<1>4. ApiTypeOK'
  BY <1>1, <1>3 DEF ApiTypeOK, NotLeaving, NotReading
<1>5. ReportIsOnItsWay'
  BY <1>1, <1>3 DEF ReportIsOnItsWay
<1> QED
  BY <1>1, <1>4, <1>5, ArrayStays, MasksStay DEF ApiInv

-----------------------------------------------------------------------------
(* The theorems.                                                           *)

LEMMA ApiBegins == ApiInit => ApiTypeOK /\ ApiInv
<1> SUFFICES ASSUME ApiInit PROVE ApiTypeOK /\ ApiInv
  OBVIOUS
<1>1. <<>> \in Seq(ApiMessage) /\ <<>> \in Seq(Adapters \cup {NoAdapter})
  OBVIOUS
<1>2. ApiTypeOK
  BY <1>1 DEF ApiInit, ApiTypeOK, NotLeaving, NotReading, NoReport, Masks
<1>3. leaving.at = "no" /\ \A i \in Slots : mLocAdapters[i] = NoAdapter
  BY DEF ApiInit, NotLeaving
<1>4. NoHoles
  <2>1. ArrayIs(0)
    BY <1>3, Sizes DEF ArrayIs
  <2> QED
    BY <2>1, Sizes DEF NoHoles
<1>5. EachOnce
  BY <1>3 DEF EachOnce
<1>6. Registered = {}
  BY <1>2, <1>3 DEF Registered, Range, ApiTypeOK
<1>7. MasksAreFresh
  BY <1>6 DEF MasksAreFresh
<1>8. ReportIsOnItsWay
  BY DEF ApiInit, NoReport, ReportIsOnItsWay
<1> QED
  BY <1>2, <1>4, <1>5, <1>7, <1>8 DEF ApiInv

LEMMA ApiSteps == ApiTypeOK /\ ApiInv /\ [ApiNext]_apiVars => ApiTypeOK' /\ ApiInv'
<1> SUFFICES ASSUME ApiTypeOK, ApiInv, [ApiNext]_apiVars
             PROVE  ApiTypeOK' /\ ApiInv'
  OBVIOUS
<1>1. CASE AdaptersComeAndGo
  BY <1>1, AddStep, RemoveStep, FillStep, EmptyStep, CloseStep DEF AdaptersComeAndGo
<1>2. CASE EventsChange
  BY <1>2, ChangeStep, HandleStep, GetStep, OpenStep, DownStep, UpStep DEF EventsChange, ReadEvents
<1>3. CASE ModemReports
  BY <1>3, BeginStep, CallStep, EndStep DEF ModemReports
<1>4. CASE UNCHANGED apiVars
  <2>1. ApiTypeOK'
    BY <1>4 DEF apiVars, ApiTypeOK, NotLeaving, NotReading
  <2> QED
    BY <1>4, <2>1, ArrayStays, ReportStays, MasksStay DEF apiVars, ApiInv
<1> QED
  BY <1>1, <1>2, <1>3, <1>4 DEF ApiNext

(* The array never has a hole but the one a removal is filling, no adapter is in   *)
(* it twice or after its destructor, what is read of the masks is what the         *)
(* adapters want, and a report goes slot by slot (LocApiBase.cpp).                 *)
THEOREM ApiHolds == ApiSpec => [](ApiTypeOK /\ ApiInv)
  BY ApiBegins, ApiSteps, PTL DEF ApiSpec

LEMMA KnowsFollows == ASSUME ApiTypeOK, ApiInv PROVE EngineKnowsAdapters
<1> SUFFICES ASSUME AtRest, Registered # {}
             PROVE  modem.mask = (UNION {mEvtMask[a] : a \in Registered}) \ Excluded
  BY DEF EngineKnowsAdapters
<1>1. modem.mask = {e \in Events : \E a \in Registered : e \in mEvtMask[a]} \ Excluded
  BY DEF ApiInv, MasksAreFresh, AtRest
<1>2. \A a \in Registered : mEvtMask[a] \subseteq Events
  BY DEF Registered, Range, ApiTypeOK, Masks
<1>3. {e \in Events : \E a \in Registered : e \in mEvtMask[a]} = UNION {mEvtMask[a] : a \in Registered}
  BY <1>2
<1> QED
  BY <1>1, <1>3

(* Once the owner's thread, the message thread and the modem are at rest, the      *)
(* engine reports just what some adapter wants, whatever came, went and restarted  *)
(* before (LocApiBase::open, getEvtMask, handleEngineUpEvent).                     *)
THEOREM EngineKnowsItsAdapters == ApiSpec => []EngineKnowsAdapters
  BY ApiHolds, KnowsFollows, PTL

LEMMA ArriveFollows == ASSUME ApiTypeOK, ApiInv PROVE ReportsArrive
<1> SUFFICES ASSUME ReportEnds, ~report.disturbed
             PROVE  /\ IsInjective(report.reached)
                    /\ report.kind = "all" => report.present \subseteq Range(report.reached)
                    /\ report.kind = "first" /\ report.present \cap Handlers # {} => Handled
  BY DEF ReportsArrive
<1>1. PICK r \in Seq(Adapters \cup {NoAdapter}) : r = report.reached
  BY DEF ApiTypeOK
<1>2. PICK s \in Nat : s = report.slot
  BY DEF ApiTypeOK
<1>3. /\ leaving.at = "no" /\ s # 0 /\ Len(r) = s - 1
      /\ \A i \in 1 .. s - 1 :
           /\ i \in Slots /\ mLocAdapters[i] # NoAdapter /\ r[i] = mLocAdapters[i]
           /\ report.kind = "first" /\ i < s - 1 => r[i] \notin Handlers
      /\ report.present \subseteq Registered
  BY <1>1, <1>2 DEF ApiInv, ReportIsOnItsWay, ReportEnds, NotLeaving
<1>4. DOMAIN r = 1 .. s - 1
  BY <1>1, <1>3
<1>5. IsInjective(r)
  <2>1. \A i, j \in 1 .. s - 1 : r[i] = r[j] => i = j
    BY <1>3 DEF ApiInv, EachOnce
  <2> QED
    BY <1>4, <2>1 DEF IsInjective
(* A report that was not handled on its way has passed the whole array.            *)
<1>6. ASSUME ~Handled, NEW a \in report.present
      PROVE  \E i \in 1 .. s - 1 : r[i] = a
  <2>1. PICK i \in Slots : mLocAdapters[i] = a /\ a # NoAdapter
    BY <1>3 DEF Registered, Range, ApiTypeOK
  <2>2. PICK n \in 0 .. MAX_ADAPTERS : \A k \in Slots : mLocAdapters[k] # NoAdapter <=> k <= n
    BY <1>3 DEF ApiInv, NoHoles, ArrayIs
  <2>3. s \notin Slots \/ mLocAdapters[s] = NoAdapter
    BY <1>2, <1>6 DEF ReportEnds, Ends
  <2>4. i < s
    <3> SUFFICES ASSUME ~(i < s) PROVE FALSE
      OBVIOUS
    <3>1. s \in Slots /\ s <= n
      BY <1>2, <1>3, <2>1, <2>2, Sizes
    <3> QED
      BY <2>2, <2>3, <3>1
  <2>5. i \in 1 .. s - 1
    BY <1>2, <2>4, Sizes
  <2> QED
    BY <1>3, <2>1, <2>5
<1>7. report.kind = "all" => report.present \subseteq Range(r)
  BY <1>4, <1>6 DEF Handled, Range
<1>8. ASSUME report.kind = "first", report.present \cap Handlers # {}, ~Handled
      PROVE  FALSE
  <2>1. PICK a \in report.present : a \in Handlers
    BY <1>8
  <2>2. PICK i \in 1 .. s - 1 : r[i] = a
    BY <1>6, <1>8
  <2>3. i = s - 1
    BY <1>2, <1>3, <1>8, <2>1, <2>2
  <2>4. r # <<>> /\ Last(r) = a
    BY <1>1, <1>3, <1>4, <2>2, <2>3 DEF Last
  <2> QED
    BY <1>1, <1>8, <2>1, <2>4 DEF Handled
<1> QED
  BY <1>1, <1>5, <1>7, <1>8

(* A report that no removal overlaps reaches every adapter that was there, once,   *)
(* and a request of the modem ends at an adapter that handles it if one was there  *)
(* (TO_ALL_LOCADAPTERS, TO_1ST_HANDLING_LOCADAPTERS), however many adapters        *)
(* enter the array meanwhile.                                                      *)
THEOREM ReportsReachAdapters == ApiSpec => []ReportsArrive
  BY ApiHolds, ArriveFollows, PTL

-----------------------------------------------------------------------------
(***************************************************************************)
(* The message task, for any messages and both kinds of thread.            *)
(***************************************************************************)

TaskTypeOK ==
  /\ mQ \in Seq(LocMsg) /\ sent \in Seq(LocMsg) /\ handled \in Seq(LocMsg)
  /\ inHand \in LocMsg \cup {None}
  /\ receiving \in {"no", "waiting", "handling"}
  /\ runnable \in [{Task} -> {"live", "deleted"}]

(* The messages that were begun are the first of those sent.               *)
Begun == Len(handled) + (IF inHand = None THEN 0 ELSE 1)
BegunAreFirst ==
  /\ Begun <= Len(sent)
  /\ \A i \in 1 .. Len(handled) : handled[i] = sent[i]
  /\ inHand # None => inHand = sent[Begun]
  /\ receiving = "handling" <=> inHand # None

SentOnce == \A i, j \in 1 .. Len(sent) : sent[i] = sent[j] => i = j

(* The others are in the queue, or were deleted with it; none is sent to   *)
(* a task that has lost its queue.                                         *)
RestIsQueued ==
  /\ Len(sent) = Begun + Len(mQ)
  /\ \A i \in 1 .. Len(mQ) : mQ[i] = sent[Begun + i]
  /\ \A i \in 1 .. Len(sent) : sent[i] \notin dropped
RestIsDropped ==
  /\ mQ = <<>>
  /\ unblocked \/ runnable[Task] = "deleted"
  /\ \A i \in 1 .. Len(sent) : sent[i] \in dropped <=> Begun < i

TaskInv == TaskTypeOK /\ BegunAreFirst /\ SentOnce /\ (RestIsQueued \/ RestIsDropped)

LEMMA TaskLengths ==
  ASSUME TaskTypeOK
  PROVE  /\ Len(mQ) \in Nat /\ Len(sent) \in Nat /\ Len(handled) \in Nat /\ Begun \in Nat
         /\ mQ = <<>> <=> Len(mQ) = 0
         /\ inHand = None => Begun = Len(handled)
         /\ inHand # None => Begun = Len(handled) + 1
<1>1. Len(mQ) \in Nat /\ Len(sent) \in Nat /\ Len(handled) \in Nat
  BY LenProperties DEF TaskTypeOK
<1>2. mQ = <<>> <=> Len(mQ) = 0
  BY EmptySeq DEF TaskTypeOK
<1> QED
  BY <1>1, <1>2 DEF Begun

LEMMA TaskStarts ==
  ASSUME TaskInit
  PROVE  TaskInv
<1>1. /\ mQ = <<>> /\ sent = <<>> /\ handled = <<>> /\ inHand = None
      /\ receiving = "no" /\ dropped = {} /\ runnable = [d \in {Task} |-> "live"]
  BY DEF TaskInit, Thread!ThreadInit
<1>2. TaskTypeOK
  BY <1>1, EmptySeq DEF TaskTypeOK
<1>3. Len(mQ) = 0 /\ Len(sent) = 0 /\ Len(handled) = 0 /\ Begun = 0
  BY <1>1, EmptySeq DEF Begun
<1>4. 1 .. 0 = {}
  OBVIOUS
<1> QED
  BY <1>1, <1>2, <1>3, <1>4 DEF TaskInv, BegunAreFirst, SentOnce, RestIsQueued

(* What a step leaves alone.                                               *)
LEMMA TaskStays ==
  ASSUME TaskInv, UNCHANGED <<mQ, inHand, sent, handled, dropped>>,
         (receiving' \in {"no", "waiting"} /\ receiving # "handling") \/ receiving' = receiving,
         unblocked => unblocked',
         runnable' \in [{Task} -> {"live", "deleted"}],
         runnable[Task] = "deleted" => runnable'[Task] = "deleted"
  PROVE  TaskInv'
<1>1. TaskTypeOK'
  BY DEF TaskInv, TaskTypeOK
<1>2. Begun' = Begun
  BY DEF Begun
<1>3. BegunAreFirst' /\ SentOnce'
  BY <1>2 DEF TaskInv, BegunAreFirst, SentOnce
<1>4. RestIsQueued => RestIsQueued'
  BY <1>2 DEF RestIsQueued
<1>5. RestIsDropped => RestIsDropped'
  BY <1>2 DEF RestIsDropped
<1> QED
  BY <1>1, <1>3, <1>4, <1>5 DEF TaskInv

(* The queue is deleted with all that is in it.                            *)
LEMMA FlushHolds ==
  ASSUME TaskInv, Flush,
         runnable' \in [{Task} -> {"live", "deleted"}], runnable'[Task] = "deleted"
  PROVE  TaskInv'
<1> USE TaskLengths
<1>1. /\ mQ' = <<>> /\ dropped' = dropped \cup Range(mQ)
      /\ UNCHANGED <<unblocked, receiving, inHand, sent, handled>>
  BY DEF Flush
<1>2. TaskTypeOK'
  BY <1>1, EmptySeq DEF TaskInv, TaskTypeOK
<1>3. Begun' = Begun
  BY <1>1 DEF Begun
<1>4. BegunAreFirst' /\ SentOnce'
  BY <1>1, <1>3 DEF TaskInv, BegunAreFirst, SentOnce
<1>5. Range(mQ) = {mQ[i] : i \in 1 .. Len(mQ)}
  BY LenProperties DEF TaskInv, TaskTypeOK, Range
<1>6. \A i \in 1 .. Len(sent) : sent[i] \in dropped' <=> Begun < i
  <2>1. CASE RestIsQueued
    <3> TAKE i \in 1 .. Len(sent)
    <3>1. sent[i] \in dropped' <=> \E k \in 1 .. Len(mQ) : sent[i] = mQ[k]
      BY <1>1, <1>5, <2>1 DEF RestIsQueued
    <3>2. \A k \in 1 .. Len(mQ) : mQ[k] = sent[Begun + k] /\ Begun + k \in 1 .. Len(sent)
      BY <2>1 DEF RestIsQueued, TaskInv
    <3>3. ASSUME NEW k \in 1 .. Len(mQ), sent[i] = mQ[k] PROVE Begun < i
      <4>1. Begun + k \in 1 .. Len(sent) /\ sent[Begun + k] = sent[i]
        BY <3>2, <3>3
      <4>2. PICK n \in 1 .. Len(sent) : n = Begun + k
        BY <4>1
      <4>3. SentOnce
        BY DEF TaskInv
      <4>4. i = n
        BY <4>1, <4>2, <4>3 DEF SentOnce
      <4> QED
        BY <4>2, <4>4 DEF TaskInv
    <3>4. ASSUME Begun < i PROVE \E k \in 1 .. Len(mQ) : sent[i] = mQ[k]
      <4>1. i - Begun \in 1 .. Len(mQ) /\ Begun + (i - Begun) = i
        BY <2>1, <3>4 DEF RestIsQueued, TaskInv
      <4>2. mQ[i - Begun] = sent[i]
        BY <3>2, <4>1
      <4> QED
        BY <4>1, <4>2
    <3> QED
      BY <3>1, <3>3, <3>4
  <2>2. CASE RestIsDropped
    <3>1. Range(mQ) = {}
      BY <1>5, <2>2 DEF RestIsDropped, TaskInv
    <3> QED
      BY <1>1, <2>2, <3>1 DEF RestIsDropped
  <2> QED
    BY <2>1, <2>2 DEF TaskInv
<1>7. RestIsDropped'
  BY <1>1, <1>3, <1>6 DEF RestIsDropped
<1> QED
  BY <1>2, <1>4, <1>7 DEF TaskInv

LEMMA SendMsgHolds ==
  ASSUME TaskInv, NEW m \in LocMsg, SendMsg(m)
  PROVE  TaskInv'
<1> USE TaskLengths
<1>1. /\ m \notin Range(sent) \cup dropped /\ runnable[Task] = "live"
      /\ UNCHANGED <<runnable, unblocked, receiving, inHand, handled>>
  BY DEF SendMsg, Exists, thread
<1>2. \A i \in 1 .. Len(sent) : sent[i] # m /\ sent[i] \in LocMsg
  <2>1. DOMAIN sent = 1 .. Len(sent) /\ \A i \in 1 .. Len(sent) : sent[i] \in LocMsg
    BY LenProperties DEF TaskInv, TaskTypeOK
  <2> QED
    BY <1>1, <2>1 DEF Range
<1>3. CASE unblocked
  <2>1. dropped' = dropped \cup {m} /\ UNCHANGED <<mQ, sent>>
    BY <1>3 DEF SendMsg
  <2>2. TaskTypeOK'
    BY <1>1, <2>1 DEF TaskInv, TaskTypeOK
  <2>3. Begun' = Begun
    BY <1>1 DEF Begun
  <2>4. BegunAreFirst' /\ SentOnce'
    BY <1>1, <2>1, <2>3 DEF TaskInv, BegunAreFirst, SentOnce
  <2>5. \A i \in 1 .. Len(sent) : sent[i] \in dropped' <=> sent[i] \in dropped
    BY <1>2, <2>1
  <2>6. RestIsQueued => RestIsQueued'
    BY <2>1, <2>3, <2>5 DEF RestIsQueued
  <2>7. RestIsDropped => RestIsDropped'
    BY <1>1, <2>1, <2>3, <2>5 DEF RestIsDropped
  <2> QED
    BY <2>2, <2>4, <2>6, <2>7 DEF TaskInv
<1>4. CASE ~unblocked
  <2>1. mQ' = Append(mQ, m) /\ sent' = Append(sent, m) /\ UNCHANGED dropped
    BY <1>4 DEF SendMsg
  <2>2. /\ mQ' \in Seq(LocMsg) /\ Len(mQ') = Len(mQ) + 1 /\ mQ'[Len(mQ) + 1] = m
        /\ \A i \in 1 .. Len(mQ) : mQ'[i] = mQ[i]
    BY <2>1, AppendProperties DEF TaskInv, TaskTypeOK
  <2>3. /\ sent' \in Seq(LocMsg) /\ Len(sent') = Len(sent) + 1 /\ sent'[Len(sent) + 1] = m
        /\ \A i \in 1 .. Len(sent) : sent'[i] = sent[i]
    BY <2>1, AppendProperties DEF TaskInv, TaskTypeOK
  <2>4. TaskTypeOK'
    BY <1>1, <2>2, <2>3 DEF TaskInv, TaskTypeOK
  <2>5. Begun' = Begun
    BY <1>1 DEF Begun
  <2>6. \A i \in 1 .. Len(sent') : i \in 1 .. Len(sent) \/ i = Len(sent) + 1
    BY <2>3 DEF TaskInv
  <2>7. SentOnce'
    BY <1>2, <2>3, <2>6 DEF TaskInv, SentOnce
  <2>8. BegunAreFirst'
    <3>1. Begun <= Len(sent')
      BY <2>3 DEF TaskInv, BegunAreFirst
    <3>2. \A i \in 1 .. Len(handled) : handled[i] = sent'[i]
      <4>1. \A i \in 1 .. Len(handled) : i \in 1 .. Len(sent)
        BY DEF TaskInv, BegunAreFirst
      <4> QED
        BY <2>3, <4>1 DEF TaskInv, BegunAreFirst
    <3>3. inHand # None => inHand = sent'[Begun]
      <4>1. inHand # None => Begun \in 1 .. Len(sent)
        BY DEF TaskInv, BegunAreFirst
      <4> QED
        BY <2>3, <4>1 DEF TaskInv, BegunAreFirst
    <3> QED
      BY <1>1, <2>5, <3>1, <3>2, <3>3 DEF TaskInv, BegunAreFirst
  <2>9. RestIsQueued
    BY <1>1, <1>4 DEF TaskInv, RestIsDropped
  <2>10. RestIsQueued'
    <3>1. Len(sent') = Begun + Len(mQ')
      BY <2>2, <2>3, <2>9 DEF TaskInv, RestIsQueued
    <3>2. \A i \in 1 .. Len(mQ') : mQ'[i] = sent'[Begun + i]
      <4> TAKE i \in 1 .. Len(mQ')
      <4>1. CASE i \in 1 .. Len(mQ)
        <5>1. Begun + i \in 1 .. Len(sent)
          BY <2>9, <4>1 DEF TaskInv, RestIsQueued
        <5> QED
          BY <2>2, <2>3, <2>9, <4>1, <5>1 DEF RestIsQueued
      <4>2. CASE i = Len(mQ) + 1
        <5>1. Begun + i = Len(sent) + 1
          BY <2>9, <4>2 DEF TaskInv, RestIsQueued
        <5> QED
          BY <2>2, <2>3, <4>2, <5>1
      <4> QED
        BY <2>2, <4>1, <4>2 DEF TaskInv
    <3>3. \A i \in 1 .. Len(sent') : sent'[i] \notin dropped'
      BY <1>1, <2>1, <2>3, <2>6, <2>9 DEF RestIsQueued
    <3> QED
      BY <2>5, <3>1, <3>2, <3>3 DEF RestIsQueued
  <2> QED
    BY <2>4, <2>7, <2>8, <2>10 DEF TaskInv
<1> QED
  BY <1>3, <1>4

LEMMA TakeHolds ==
  ASSUME TaskInv, Take, receiving # "handling"
  PROVE  TaskInv'
<1> USE TaskLengths
<1>1. /\ mQ # <<>> /\ inHand' = Head(mQ) /\ mQ' = Tail(mQ) /\ receiving' = "handling"
      /\ UNCHANGED <<runnable, unblocked, sent, handled, dropped>>
  BY DEF Take, thread, taskHistory
<1>2. inHand = None /\ Begun = Len(handled)
  BY DEF TaskInv, BegunAreFirst
<1>3. /\ Head(mQ) \in LocMsg /\ Tail(mQ) \in Seq(LocMsg) /\ Len(Tail(mQ)) = Len(mQ) - 1
      /\ \A i \in 1 .. Len(Tail(mQ)) : Tail(mQ)[i] = mQ[i + 1]
  BY <1>1, HeadTailProperties DEF TaskInv, TaskTypeOK
<1>4. Head(mQ) = mQ[1]
  BY <1>1 DEF TaskInv, TaskTypeOK
<1>5. TaskTypeOK'
  BY <1>1, <1>3 DEF TaskInv, TaskTypeOK
<1>6. inHand' # None /\ Begun' = Begun + 1
  BY <1>1, <1>2, <1>3, NoMessageAssumption DEF Begun
<1>7. RestIsQueued
  BY <1>1 DEF TaskInv, RestIsDropped
<1>8. 1 \in 1 .. Len(mQ) /\ Begun + 1 <= Len(sent) /\ mQ[1] = sent[Begun + 1]
  BY <1>1, <1>7 DEF TaskInv, RestIsQueued
<1>9. BegunAreFirst' /\ SentOnce'
  BY <1>1, <1>4, <1>6, <1>8 DEF TaskInv, BegunAreFirst, SentOnce
<1>10. RestIsQueued'
  <2>1. Len(sent') = Begun' + Len(mQ')
    BY <1>1, <1>3, <1>6, <1>7 DEF TaskInv, RestIsQueued
  <2>2. \A i \in 1 .. Len(mQ') : mQ'[i] = sent'[Begun' + i]
    <3> TAKE i \in 1 .. Len(mQ')
    <3>1. i + 1 \in 1 .. Len(mQ) /\ Begun + (i + 1) = Begun' + i
      BY <1>1, <1>3, <1>6 DEF TaskInv
    <3>2. mQ[i + 1] = sent[Begun + (i + 1)]
      BY <1>7, <3>1 DEF RestIsQueued
    <3> QED
      BY <1>1, <1>3, <3>1, <3>2
  <2> QED
    BY <1>1, <1>7, <2>1, <2>2 DEF RestIsQueued
<1> QED
  BY <1>5, <1>9, <1>10 DEF TaskInv

LEMMA HandleHolds ==
  ASSUME TaskInv, HandleMsg
  PROVE  TaskInv'
<1> USE TaskLengths
<1>1. /\ receiving = "handling" /\ handled' = Append(handled, inHand) /\ inHand' = None /\ receiving' = "no"
      /\ UNCHANGED <<runnable, unblocked, mQ, sent, dropped>>
  BY DEF HandleMsg, Thread!RunReturns, Thread!objects
<1>2. inHand # None /\ inHand \in LocMsg /\ Begun = Len(handled) + 1 /\ inHand = sent[Begun]
  BY <1>1 DEF TaskInv, BegunAreFirst, TaskTypeOK
<1>3. /\ handled' \in Seq(LocMsg) /\ Len(handled') = Len(handled) + 1 /\ handled'[Len(handled) + 1] = inHand
      /\ \A i \in 1 .. Len(handled) : handled'[i] = handled[i]
  BY <1>1, <1>2, AppendProperties DEF TaskInv, TaskTypeOK
<1>4. TaskTypeOK'
  BY <1>1, <1>3 DEF TaskInv, TaskTypeOK
<1>5. Begun' = Begun
  BY <1>1, <1>2, <1>3 DEF Begun, TaskInv
<1>6. \A i \in 1 .. Len(handled') : handled'[i] = sent[i]
  <2>1. \A i \in 1 .. Len(handled') : i \in 1 .. Len(handled) \/ i = Len(handled) + 1
    BY <1>3 DEF TaskInv
  <2> QED
    BY <1>2, <1>3, <2>1 DEF TaskInv, BegunAreFirst
<1>7. BegunAreFirst' /\ SentOnce'
  BY <1>1, <1>5, <1>6 DEF TaskInv, BegunAreFirst, SentOnce
<1>8. RestIsQueued => RestIsQueued'
  BY <1>1, <1>5 DEF RestIsQueued
<1>9. RestIsDropped => RestIsDropped'
  BY <1>1, <1>5 DEF RestIsDropped
<1> QED
  BY <1>4, <1>7, <1>8, <1>9 DEF TaskInv

(* What the thread and its owner do to the runnable.                       *)
RunnableStays ==
  /\ runnable' \in [{Task} -> {"live", "deleted"}]
  /\ runnable[Task] = "deleted" => runnable'[Task] = "deleted"

LEMMA OwnersKeepRunnable ==
  ASSUME TaskTypeOK, Thread!OwnerProceeds \/ Thread!Bye \/ \E j \in Joinable : Thread!Create(Task, j)
  PROVE  RunnableStays
<1>1. UNCHANGED runnable
  BY DEF Thread!OwnerProceeds, Thread!CheckCreated, Thread!StopRunnable, Thread!Join, Thread!Joined,
         Thread!OwnerDrop, Thread!OwnerDelete, Thread!Bye, Thread!Create, Thread!objects
<1> QED
  BY <1>1 DEF TaskTypeOK, RunnableStays

LEMMA WorkersKeepRunnable ==
  ASSUME TaskTypeOK,
         \/ Thread!Begin(Task) \/ Thread!Loop(Task) \/ Thread!ClearRunnable(Task)
         \/ Thread!WorkerDrop(Task) \/ Thread!WorkerDelete(Task)
  PROVE  RunnableStays
<1>1. UNCHANGED runnable
  BY DEF Thread!Begin, Thread!Loop, Thread!ClearRunnable, Thread!WorkerDrop, Thread!WorkerDelete,
         Thread!objects
<1> QED
  BY <1>1 DEF TaskTypeOK, RunnableStays

LEMMA GiveUpHolds ==
  ASSUME TaskInv, GiveUp, receiving # "handling"
  PROVE  TaskInv'
<1>1. /\ receiving' = "no"
      /\ UNCHANGED <<runnable, mQ, unblocked, inHand, sent, handled, dropped>>
  BY DEF GiveUp, taskHistory, Thread!RunReturns, Thread!objects
<1>2. runnable' \in [{Task} -> {"live", "deleted"}]
  BY <1>1 DEF TaskInv, TaskTypeOK
<1> QED
  BY <1>1, <1>2, TaskStays

LEMMA EnterHolds ==
  ASSUME TaskInv, Enter
  PROVE  TaskInv'
<1>1. receiving = "no"
  BY DEF Enter
<1>2. CASE ~unblocked /\ mQ = <<>> /\ receiving' = "waiting"
             /\ UNCHANGED <<thread, mQ, unblocked, inHand, destroying, taskHistory>>
  <2>1. UNCHANGED <<runnable, mQ, unblocked, inHand, sent, handled, dropped>> /\ receiving' = "waiting"
    BY <1>2 DEF thread, taskHistory
  <2>2. runnable' \in [{Task} -> {"live", "deleted"}]
    BY <2>1 DEF TaskInv, TaskTypeOK
  <2> QED
    BY <1>1, <2>1, <2>2, TaskStays
<1> QED
  BY <1>1, <1>2, GiveUpHolds, TakeHolds DEF Enter

LEMMA WakeHolds ==
  ASSUME TaskInv, Wake
  PROVE  TaskInv'
BY GiveUpHolds, TakeHolds DEF Wake

LEMMA DeleteTaskHolds ==
  ASSUME TaskInv, DeleteTask
  PROVE  TaskInv'
<1>1. Flush /\ runnable' = [runnable EXCEPT ![Task] = "deleted"]
  BY DEF DeleteTask, Thread!DeleteRunnable
<1>2. runnable' \in [{Task} -> {"live", "deleted"}] /\ runnable'[Task] = "deleted"
  BY <1>1 DEF TaskInv, TaskTypeOK
<1> QED
  BY <1>1, <1>2, FlushHolds

LEMMA ForgetHolds ==
  ASSUME TaskInv, Forget
  PROVE  TaskInv'
<1>1. CASE told[Task] = "started"
  <2>1. UNCHANGED <<runnable, mQ, unblocked, receiving, inHand, sent, handled, dropped>>
    BY <1>1 DEF Forget, thread, taskHistory
  <2>2. runnable' \in [{Task} -> {"live", "deleted"}]
    BY <2>1 DEF TaskInv, TaskTypeOK
  <2> QED
    BY <2>1, <2>2, TaskStays
<1>2. CASE told[Task] # "started"
  <2>1. Flush /\ runnable' = [runnable EXCEPT ![Task] = "deleted"]
    BY <1>2 DEF Forget
  <2>2. runnable' \in [{Task} -> {"live", "deleted"}] /\ runnable'[Task] = "deleted"
    BY <2>1 DEF TaskInv, TaskTypeOK
  <2> QED
    BY <2>1, <2>2, FlushHolds
<1> QED
  BY <1>1, <1>2

LEMMA TaskStepHolds ==
  ASSUME TaskInv, [TaskNext]_taskVars
  PROVE  TaskInv'
<1> USE DEF RunnableStays
<1>1. CASE StartTask
  <2>1. UNCHANGED <<mQ, unblocked, receiving, inHand, sent, handled, dropped>>
    BY <1>1 DEF StartTask, taskHistory
  <2> QED
    BY <1>1, <2>1, OwnersKeepRunnable, TaskStays DEF StartTask, TaskInv
<1>2. CASE Unblock
  <2>1. UNCHANGED <<runnable, mQ, receiving, inHand, sent, handled, dropped>> /\ unblocked'
    BY <1>2 DEF Unblock, thread, taskHistory
  <2>2. runnable' \in [{Task} -> {"live", "deleted"}]
    BY <2>1 DEF TaskInv, TaskTypeOK
  <2> QED
    BY <2>1, <2>2, TaskStays
<1>3. CASE OwnerProceeds
  <2>1. CASE DeleteThread
    <3>1. UNCHANGED <<mQ, unblocked, receiving, inHand, sent, handled, dropped>>
      BY <2>1 DEF DeleteThread, taskHistory
    <3> QED
      BY <2>1, <3>1, OwnersKeepRunnable, TaskStays DEF DeleteThread, TaskInv
  <2>2. CASE Thread!OwnerProceeds /\ UNCHANGED <<mQ, unblocked, receiving, inHand, destroying, taskHistory>>
    <3>1. UNCHANGED <<mQ, unblocked, receiving, inHand, sent, handled, dropped>>
      BY <2>2 DEF taskHistory
    <3> QED
      BY <2>2, <3>1, OwnersKeepRunnable, TaskStays DEF TaskInv
  <2> QED
    BY <1>3, <2>1, <2>2, ForgetHolds DEF OwnerProceeds
<1>4. CASE WorkerProceeds
  <2>1. CASE /\ \/ Thread!Begin(Task) \/ Thread!Loop(Task) \/ Thread!ClearRunnable(Task)
                \/ Thread!WorkerDrop(Task) \/ Thread!WorkerDelete(Task)
             /\ UNCHANGED <<mQ, unblocked, receiving, inHand, destroying, taskHistory>>
    <3>1. UNCHANGED <<mQ, unblocked, receiving, inHand, sent, handled, dropped>>
      BY <2>1 DEF taskHistory
    <3> QED
      BY <2>1, <3>1, WorkersKeepRunnable, TaskStays DEF TaskInv
  <2> QED
    BY <1>4, <2>1, DeleteTaskHolds, EnterHolds, HandleHolds, WakeHolds DEF WorkerProceeds
<1>5. CASE \E m \in LocMsg : SendMsg(m)
  BY <1>5, SendMsgHolds
<1>6. CASE UNCHANGED taskVars
  <2>1. UNCHANGED <<runnable, mQ, unblocked, receiving, inHand, sent, handled, dropped>>
    BY <1>6 DEF taskVars, thread, taskHistory
  <2>2. runnable' \in [{Task} -> {"live", "deleted"}]
    BY <2>1 DEF TaskInv, TaskTypeOK
  <2> QED
    BY <2>1, <2>2, TaskStays
<1> QED
  BY <1>1, <1>2, <1>3, <1>4, <1>5, <1>6 DEF TaskNext

(* However clients, the destruction and the two threads interleave, the    *)
(* messages sent fall into those begun, in order, and the queue, or what   *)
(* was deleted with it; a message is in hand just while it is handled.     *)
THEOREM TaskHolds == TaskSpec => []TaskInv
<1>1. TaskInit => TaskInv
  BY TaskStarts
<1>2. TaskInv /\ [TaskNext]_taskVars => TaskInv'
  BY TaskStepHolds
<1> QED
  BY <1>1, <1>2, PTL DEF TaskSpec

(* Messages are handled in the order they were sent, each once, and what   *)
(* the queue held when it was deleted was never begun.                     *)
THEOREM MessagesInOrder == TaskSpec => []HandledInOrder
<1>1. TaskInv => HandledInOrder
  <2> SUFFICES ASSUME TaskInv PROVE HandledInOrder
    OBVIOUS
  <2> USE TaskLengths
  <2>1. PICK b : b = handled \o Hand
    OBVIOUS
  <2>2. Hand \in Seq(LocMsg) /\ Len(Hand) = (IF inHand = None THEN 0 ELSE 1) /\ (inHand # None => Hand[1] = inHand)
    BY EmptySeq DEF Hand, TaskInv, TaskTypeOK
  <2>3. /\ b \in Seq(LocMsg) /\ Len(b) = Begun
        /\ \A i \in 1 .. Len(b) : b[i] = IF i <= Len(handled) THEN handled[i] ELSE Hand[i - Len(handled)]
    <3>1. handled \in Seq(LocMsg)
      BY DEF TaskInv, TaskTypeOK
    <3>2. /\ b \in Seq(LocMsg) /\ Len(b) = Len(handled) + Len(Hand)
          /\ \A i \in 1 .. Len(handled) + Len(Hand) :
               b[i] = IF i <= Len(handled) THEN handled[i] ELSE Hand[i - Len(handled)]
      BY <2>1, <2>2, <3>1, ConcatProperties
    <3>3. Len(b) = Begun
      BY <2>2, <3>2 DEF Begun
    <3> QED
      BY <3>2, <3>3
  <2>4. Begun <= Len(sent)
    BY DEF TaskInv, BegunAreFirst
  <2>5. \A i \in 1 .. Len(b) : b[i] = sent[i]
    <3> TAKE i \in 1 .. Len(b)
    <3>1. CASE i <= Len(handled)
      <4>1. i \in 1 .. Len(handled)
        BY <2>3, <3>1 DEF TaskInv
      <4> QED
        BY <2>3, <3>1, <4>1 DEF TaskInv, BegunAreFirst
    <3>2. CASE ~(i <= Len(handled))
      <4>1. inHand # None /\ i = Begun /\ i - Len(handled) = 1
        BY <2>3, <3>2 DEF TaskInv
      <4> QED
        BY <2>2, <2>3, <3>2, <4>1 DEF TaskInv, BegunAreFirst
    <3> QED
      BY <3>1, <3>2
  <2>6. PICK first : first = SubSeq(sent, 1, Len(b))
    OBVIOUS
  <2>7. PICK rest : rest = SubSeq(sent, Len(b) + 1, Len(sent))
    OBVIOUS
  <2>8. \A i \in 1 .. Len(sent) : sent[i] \in LocMsg
    BY LenProperties DEF TaskInv, TaskTypeOK
  <2>9. first \in Seq(LocMsg) /\ Len(first) = Len(b) /\ \A i \in 1 .. Len(b) : first[i] = sent[i]
    <3>1. \A i \in 1 .. Len(b) : sent[i] \in LocMsg
      BY <2>3, <2>4, <2>8 DEF TaskInv
    <3>2. 1 \in Int /\ Len(b) \in Int
      BY <2>3 DEF TaskInv
    <3>3. /\ first \in Seq(LocMsg) /\ Len(first) = IF 1 <= Len(b) THEN Len(b) - 1 + 1 ELSE 0
          /\ \A i \in 1 .. Len(b) - 1 + 1 : first[i] = sent[1 + i - 1]
      BY <2>6, <3>1, <3>2, SubSeqProperties
    <3>4. \A i \in 1 .. Len(b) : i \in 1 .. Len(b) - 1 + 1 /\ 1 + i - 1 = i
      BY <2>3 DEF TaskInv
    <3> QED
      BY <2>3, <3>3, <3>4 DEF TaskInv
  <2>10. /\ rest \in Seq(LocMsg) /\ Len(rest) = Len(sent) - Begun
         /\ \A i \in 1 .. Len(rest) : rest[i] = sent[Begun + i]
    <3>1. \A i \in Len(b) + 1 .. Len(sent) : sent[i] \in LocMsg
      BY <2>3, <2>8 DEF TaskInv
    <3>2. Len(b) + 1 \in Int /\ Len(sent) \in Int
      BY <2>3 DEF TaskInv
    <3>3. /\ rest \in Seq(LocMsg)
          /\ Len(rest) = IF Len(b) + 1 <= Len(sent) THEN Len(sent) - (Len(b) + 1) + 1 ELSE 0
          /\ \A i \in 1 .. Len(sent) - (Len(b) + 1) + 1 : rest[i] = sent[Len(b) + 1 + i - 1]
      BY <2>7, <3>1, <3>2, SubSeqProperties
    <3>4. Len(rest) = Len(sent) - Begun
      BY <2>3, <2>4, <3>3 DEF TaskInv
    <3>5. \A i \in 1 .. Len(rest) :
            i \in 1 .. Len(sent) - (Len(b) + 1) + 1 /\ Len(b) + 1 + i - 1 = Begun + i
      BY <2>3, <3>4 DEF TaskInv
    <3> QED
      BY <3>3, <3>4, <3>5
  <2>11. b = first
    BY <2>3, <2>5, <2>9, SeqEqual
  <2>12. rest = mQ \/ (mQ = <<>> /\ Range(rest) \subseteq dropped)
    <3>1. CASE RestIsQueued
      <4>1. Len(rest) = Len(mQ) /\ \A i \in 1 .. Len(rest) : rest[i] = mQ[i]
        BY <2>10, <3>1 DEF RestIsQueued, TaskInv
      <4> QED
        BY <2>10, <4>1, SeqEqual DEF TaskInv, TaskTypeOK
    <3>2. CASE RestIsDropped
      <4>1. \A i \in 1 .. Len(rest) : Begun + i \in 1 .. Len(sent) /\ Begun < Begun + i
        BY <2>10 DEF TaskInv
      <4>2. \A i \in 1 .. Len(rest) : rest[i] \in dropped
        BY <2>10, <3>2, <4>1 DEF RestIsDropped
      <4>3. Range(rest) = {rest[i] : i \in 1 .. Len(rest)}
        BY <2>10, LenProperties DEF Range
      <4> QED
        BY <3>2, <4>2, <4>3 DEF RestIsDropped
    <3> QED
      BY <3>1, <3>2 DEF TaskInv
  <2>13. Range(b) \cap dropped = {}
    <3>1. \A i \in 1 .. Len(b) : b[i] \notin dropped
      <4> TAKE i \in 1 .. Len(b)
      <4>1. i \in 1 .. Len(sent) /\ ~(Begun < i) /\ b[i] = sent[i]
        BY <2>3, <2>4, <2>5 DEF TaskInv
      <4> QED
        BY <4>1 DEF TaskInv, RestIsQueued, RestIsDropped
    <3>2. Range(b) = {b[i] : i \in 1 .. Len(b)}
      BY <2>3, LenProperties DEF Range
    <3> QED
      BY <3>1, <3>2
  <2> QED
    BY <2>1, <2>6, <2>7, <2>11, <2>12, <2>13 DEF HandledInOrder
<1> QED
  BY <1>1, TaskHolds, PTL

-----------------------------------------------------------------------------
(***************************************************************************)
(* The control path, for any settings and any bound on the adapter's       *)
(* queue: the vote for the modem's power follows the client, and the       *)
(* engine is set to what was asked for last.                               *)
(***************************************************************************)

(* What the state is made of.                                              *)

Values == Settings \cup {NoHost}
Configs == UNION {[D -> Values] : D \in SUBSET ConfigItems}
OfSettings(config) == \A i \in DOMAIN config \ {"server"} : config[i] \in Settings
Stored == {Injected, Always, "lock"}     \* the items that mGps_conf has

PlainOrder == [op : {"setConfig", "callbacks"}]
ConfigOrder == [op : {"config"}, config : {c \in Configs : OfSettings(c)}]
NumberedOrder == [op : {"enable", "disable", "delete"}, id : Nat \ {0}]
Order == PlainOrder \cup ConfigOrder \cup NumberedOrder

NumberedRequest == [kind : {"enable", "disable", "delete"}, id : Nat]
ConfigRequest == [kind : {"config"}, config : Configs]
Queue == [session : Nat, requests : Seq(NumberedRequest \cup ConfigRequest)]

ControlTypeOK ==
  /\ gnss \in [api : BOOLEAN, pending : {c \in Configs : OfSettings(c)}]
  /\ control \in [enabled : BOOLEAN, last : Configs, queues : [Kinds -> Queue]]
  /\ adapter \in [callbacks : BOOLEAN, power : Nat, inject : BOOLEAN, url : Values, host : Values,
                  conf : [Stored -> {ToCode(s) : s \in Settings} \cup {UnknownCode}]]
  /\ engine \in [up : BOOLEAN, set : [ConfigItems -> Values \cup {Unset, NoLock}]]
  /\ orders \in Seq(Order)
  /\ asked \in [wish : [ConfigItems -> Values], missed : SUBSET ConfigItems,
                crossed : BOOLEAN, refused : BOOLEAN]

-----------------------------------------------------------------------------
(* The invariant.  Its parts are said of any queue q of orders, so that    *)
(* what a step appends or takes is treated once.                           *)

IsVote(order) == order.op \in {"enable", "disable"}
IsNumbered(order) == order.op \in {"enable", "disable", "delete"}
Given(vote) == IF vote.op = "enable" THEN vote.id ELSE 0

(* The power that is voted for just before the i-th order, if it is power  *)
(* now.                                                                    *)
PowerBefore(q, power, i, voted) ==
  \/ \E j \in 1 .. (i - 1) :
       /\ IsVote(q[j]) /\ voted = Given(q[j])
       /\ \A k \in (j + 1) .. (i - 1) : ~IsVote(q[k])
  \/ voted = power /\ \A j \in 1 .. (i - 1) : ~IsVote(q[j])

(* An enable comes when nothing is voted for, a disable when its own       *)
(* session is.                                                             *)
VotesFit(q, power, final) ==
  /\ \A i \in 1 .. Len(q) :
       /\ q[i].op = "enable" => PowerBefore(q, power, i, 0)
       /\ q[i].op = "disable" => PowerBefore(q, power, i, q[i].id)
  /\ PowerBefore(q, power, Len(q) + 1, final)

Voted(c) == IF c.enabled THEN c.queues["CONTROL"].session ELSE 0

(* No number is given to two orders of a kind, nor is an enable behind the *)
(* disable of its session.                                                 *)
NumberedOnce(q) ==
  /\ \A i, j \in 1 .. Len(q) :
       IsNumbered(q[i]) /\ q[i].op = q[j].op /\ q[i].id = q[j].id => i = j
  /\ \A i, j \in 1 .. Len(q) :
       q[i].op = "enable" /\ q[j].op = "disable" /\ q[i].id = q[j].id => i < j

Has(q, op, id) == \E i \in 1 .. Len(q) : q[i].op = op /\ q[i].id = id

VoteNumber(q, c, power, n) ==
  n = power \/ n = c.queues["CONTROL"].session \/ Has(q, "enable", n) \/ Has(q, "disable", n)
DeleteNumber(q, c, n) == n = c.queues["DELETEAIDINGDATA"].session \/ Has(q, "delete", n)
NumbersApart(q, c, power) ==
  \A n \in Nat \ {0} : ~(VoteNumber(q, c, power, n) /\ DeleteNumber(q, c, n))

(* A queue of requests awaits just the orders of its session.              *)
Request(kind, id) == [kind |-> kind, id |-> id]
AwaitsVotes(q, id, requests) ==
  requests = IF Has(q, "enable", id)
             THEN IF Has(q, "disable", id) THEN <<Request("enable", id), Request("disable", id)>>
                  ELSE <<Request("enable", id)>>
             ELSE IF Has(q, "disable", id) THEN <<Request("disable", id)>> ELSE <<>>
AwaitsDeletion(q, id, requests) ==
  requests = IF Has(q, "delete", id) THEN <<Request("delete", id)>> ELSE <<>>

(* The k-th request of a configuration is that of the order f[k].          *)
Places(q, requests, f) ==
  /\ f \in [1 .. Len(requests) -> 1 .. Len(q)]
  /\ \A a, b \in 1 .. Len(requests) : a < b => f[a] < f[b]
  /\ \A i \in 1 .. Len(q) : q[i].op = "config" => \E a \in 1 .. Len(requests) : f[a] = i
  /\ \A a \in 1 .. Len(requests) :
       /\ q[f[a]].op = "config"
       /\ requests[a] = [kind |-> "config", config |-> q[f[a]].config]
AwaitsConfigs(q, requests) == \E f \in [1 .. Len(requests) -> 1 .. Len(q)] : Places(q, requests, f)

RequestsAreAwaited(q, c) ==
  /\ AwaitsVotes(q, c.queues["CONTROL"].session, c.queues["CONTROL"].requests)
  /\ AwaitsDeletion(q, c.queues["DELETEAIDINGDATA"].session, c.queues["DELETEAIDINGDATA"].requests)
  /\ AwaitsConfigs(q, c.queues["CONFIG"].requests)
  /\ c.queues["CONFIG"].session \in {0, ConfigSession}
  /\ c.queues["CONFIG"].session = 0 => c.queues["CONFIG"].requests = <<>>

(* The orders q, the control client c and the power voted for go together. *)
Together(q, c, power) ==
  /\ VotesFit(q, power, Voted(c))
  /\ NumberedOnce(q)
  /\ c.enabled => ~Has(q, "disable", c.queues["CONTROL"].session)
  /\ NumbersApart(q, c, power)
  /\ RequestsAreAwaited(q, c)

(* The adapter has its callbacks before any order of a client.             *)
CallbacksFirst(q, callbacks) ==
  \A j \in 1 .. Len(q) :
    q[j].op \notin {"setConfig", "callbacks"} =>
      callbacks \/ \E i \in 1 .. (j - 1) : q[i].op = "callbacks"
Called(q, callbacks) == callbacks \/ \E i \in 1 .. Len(q) : q[i].op = "callbacks"
CallbacksComeFirst ==
  /\ CallbacksFirst(orders, adapter.callbacks)
  /\ gnss.api => Called(orders, adapter.callbacks)
  /\ ~gnss.api => control.last = <<>> /\ \A j \in 1 .. Len(orders) : orders[j].op = "setConfig"

VotesInv ==
  /\ Together(orders, control, adapter.power)
  /\ CallbacksComeFirst
  /\ ~asked.refused /\ ~asked.crossed

(* What the engine has not missed it was set to as mGps_conf has it, but   *)
(* for the lock while a client is enabled.                                 *)
EngineIsSet ==
  /\ \A i \in Stored \ asked.missed :
       engine.set[i] = IF i = "lock" /\ adapter.power > 0 THEN NoLock ELSE FromCode(adapter.conf[i])
  /\ ~adapter.inject => Injected \in asked.missed

(* mGps_conf will have what was asked for last: the last order that says   *)
(* something of an item says that, or none does and mGps_conf has it.      *)
Says(order, i) == order.op = "config" /\ i \in DOMAIN order.config
WillHave(q, i, held, wish) ==
  \/ \E k \in 1 .. Len(q) :
       /\ Says(q[k], i) /\ q[k].config[i] = wish
       /\ \A j \in (k + 1) .. Len(q) : ~Says(q[j], i)
  \/ held = wish /\ \A j \in 1 .. Len(q) : ~Says(q[j], i)
WishesAreKept ==
  \A i \in Stored :
    LET held == FromCode(adapter.conf[i]) IN
    IF gnss.api
    THEN (i = Injected => adapter.inject) => WillHave(orders, i, held, asked.wish[i])
    ELSE asked.wish[i] = IF i \in DOMAIN gnss.pending THEN gnss.pending[i] ELSE held

LastIsWished == \A i \in DOMAIN control.last \ {"server"} : control.last[i] = asked.wish[i]

SettingsInv == EngineIsSet /\ WishesAreKept /\ LastIsWished

-----------------------------------------------------------------------------
(* A queue with one order more, and with one less.                         *)

Longer(q, t) ==
  q \in Seq(Order) /\ t \in Seq(Order) /\ Len(t) = Len(q) + 1 /\ \A i \in 1 .. Len(q) : t[i] = q[i]
Shorter(q, t) ==
  /\ q \in Seq(Order) /\ t \in Seq(Order) /\ Len(q) = Len(t) + 1
  /\ \A i \in 1 .. Len(t) : t[i] = q[i + 1]

LEMMA AppendIsLonger ==
  ASSUME NEW q \in Seq(Order), NEW order \in Order
  PROVE  Longer(q, Append(q, order)) /\ Append(q, order)[Len(Append(q, order))] = order
  BY AppendProperties DEF Longer

LEMMA TailIsShorter ==
  ASSUME NEW q \in Seq(Order), q # <<>>
  PROVE  Shorter(q, Tail(q)) /\ Head(q) = q[1] /\ Head(q) \in Order
<1>1. Head(q) \in Order /\ Tail(q) \in Seq(Order) /\ Len(Tail(q)) = Len(q) - 1
      /\ \A i \in 1 .. Len(Tail(q)) : Tail(q)[i] = q[i + 1]
  BY HeadTailProperties
<1>2. Head(q) = q[1] /\ Len(q) = Len(Tail(q)) + 1
  BY <1>1
<1> QED
  BY <1>1, <1>2 DEF Shorter

LEMMA Lengths ==
  ASSUME NEW q, NEW t
  PROVE  /\ Longer(q, t) => /\ Len(q) \in Nat /\ Len(t) \in Nat /\ Len(t) = Len(q) + 1
                            /\ \A i : i \in 1 .. Len(t) <=> i \in 1 .. Len(q) \/ i = Len(t)
                            /\ \A i \in 1 .. Len(q) : t[i] = q[i] /\ i # Len(t) /\ i < Len(t)
         /\ Shorter(q, t) => /\ Len(q) \in Nat /\ Len(t) \in Nat /\ Len(q) = Len(t) + 1 /\ 1 \in 1 .. Len(q)
                             /\ \A i \in 1 .. Len(t) : i + 1 \in 1 .. Len(q) /\ i + 1 # 1 /\ t[i] = q[i + 1]
                             /\ \A i \in 1 .. Len(q) : i # 1 => i - 1 \in 1 .. Len(t) /\ q[i] = t[i - 1]
<1>1. ASSUME Longer(q, t)
      PROVE  /\ Len(q) \in Nat /\ Len(t) \in Nat /\ Len(t) = Len(q) + 1
             /\ \A i : i \in 1 .. Len(t) <=> i \in 1 .. Len(q) \/ i = Len(t)
             /\ \A i \in 1 .. Len(q) : t[i] = q[i] /\ i # Len(t) /\ i < Len(t)
  BY <1>1 DEF Longer
<1>2. ASSUME Shorter(q, t)
      PROVE  /\ Len(q) \in Nat /\ Len(t) \in Nat /\ Len(q) = Len(t) + 1 /\ 1 \in 1 .. Len(q)
             /\ \A i \in 1 .. Len(t) : i + 1 \in 1 .. Len(q) /\ i + 1 # 1 /\ t[i] = q[i + 1]
             /\ \A i \in 1 .. Len(q) : i # 1 => i - 1 \in 1 .. Len(t) /\ q[i] = t[i - 1]
  <2>1. /\ Len(q) \in Nat /\ Len(t) \in Nat /\ Len(q) = Len(t) + 1 /\ 1 \in 1 .. Len(q)
        /\ \A i \in 1 .. Len(t) : t[i] = q[i + 1]
    BY <1>2 DEF Shorter
  <2>2. \A i \in 1 .. Len(t) : i + 1 \in 1 .. Len(q) /\ i + 1 # 1
    BY <2>1
  <2>3. ASSUME NEW i \in 1 .. Len(q), i # 1
        PROVE  i - 1 \in 1 .. Len(t) /\ q[i] = t[i - 1]
    <3>1. i - 1 \in 1 .. Len(t) /\ (i - 1) + 1 = i
      BY <2>1, <2>3
    <3> QED
      BY <2>1, <3>1
  <2> QED
    BY <2>1, <2>2, <2>3
<1> QED
  BY <1>1, <1>2

-----------------------------------------------------------------------------
(* The votes.                                                              *)

LEMMA PowerStays ==
  ASSUME NEW q, NEW t, Longer(q, t), NEW power, NEW v, NEW i \in 1 .. Len(q) + 1
  PROVE  PowerBefore(t, power, i, v) <=> PowerBefore(q, power, i, v)
<1>1. i \in Nat /\ \A j \in 1 .. (i - 1) : j \in 1 .. Len(q)
  BY Lengths
<1>2. \A j \in 1 .. (i - 1) : t[j] = q[j]
  BY <1>1, Lengths
<1>3. \A j \in 1 .. (i - 1) : \A k \in (j + 1) .. (i - 1) : k \in 1 .. (i - 1)
  BY <1>1
<1> QED
  BY <1>2, <1>3 DEF PowerBefore

LEMMA PowerAfterLast ==
  ASSUME NEW q, NEW t, Longer(q, t), NEW power, NEW v
  PROVE  PowerBefore(t, power, Len(t) + 1, v) <=>
           IF IsVote(t[Len(t)]) THEN v = Given(t[Len(t)]) ELSE PowerBefore(q, power, Len(q) + 1, v)
<1>0. PICK n \in Nat : n = Len(t)
  BY Lengths
<1>1. n \in Nat /\ n >= 1 /\ (n + 1) - 1 = n /\ (Len(q) + 1) - 1 = n - 1 /\ Len(q) + 1 = n
  BY <1>0, Lengths
<1>2. \A j \in 1 .. n : j \in 1 .. (n - 1) \/ j = n
  BY <1>1
<1>3. \A j \in 1 .. (n - 1) : n \in (j + 1) .. n /\ j \in 1 .. n
  BY <1>1
<1>4. n \in 1 .. n /\ (n + 1) .. n = {}
  BY <1>1
<1>5. CASE IsVote(t[n])
  BY <1>0, <1>1, <1>2, <1>3, <1>4, <1>5 DEF PowerBefore
<1>6. CASE ~IsVote(t[n])
  <2>1. \A j \in 1 .. (n - 1) : \A k \in (j + 1) .. n : k \in (j + 1) .. (n - 1) \/ k = n
    BY <1>1
  <2>2. \A j \in 1 .. (n - 1) : \A k \in (j + 1) .. (n - 1) : k \in (j + 1) .. n
    BY <1>1
  <2>3. PowerBefore(t, power, n + 1, v) <=> PowerBefore(t, power, n, v)
    BY <1>1, <1>2, <1>3, <1>6, <2>1, <2>2 DEF PowerBefore
  <2> QED
    BY <1>0, <1>1, <1>6, <2>3, PowerStays
<1> QED
  BY <1>5, <1>6

LEMMA PowerShifts ==
  ASSUME NEW q, NEW t, Shorter(q, t), NEW power, NEW v, NEW i \in 1 .. Len(t) + 1,
         PowerBefore(q, power, i + 1, v)
  PROVE  PowerBefore(t, IF IsVote(q[1]) THEN Given(q[1]) ELSE power, i, v)
<1>1. i \in Nat /\ i >= 1 /\ (i + 1) - 1 = i /\ i <= Len(t) + 1 /\ Len(t) \in Nat
  BY Lengths
<1>2. \A j \in 1 .. (i - 1) : j \in 1 .. Len(t) /\ j + 1 \in 1 .. i
  BY <1>1
<1>3. \A j \in 1 .. (i - 1) : t[j] = q[j + 1]
  BY <1>2, Lengths
<1>4. CASE \A j \in 1 .. i : ~IsVote(q[j])
  <2>1. v = power /\ ~IsVote(q[1])
    BY <1>1, <1>4 DEF PowerBefore
  <2> QED
    BY <1>2, <1>3, <1>4, <2>1 DEF PowerBefore
<1>5. CASE \E j \in 1 .. i : IsVote(q[j])
  <2>1. PICK j \in 1 .. i : IsVote(q[j]) /\ v = Given(q[j]) /\ \A k \in (j + 1) .. i : ~IsVote(q[k])
    BY <1>1, <1>5 DEF PowerBefore
  <2>2. CASE j = 1
    <3>1. \A k \in 1 .. (i - 1) : k + 1 \in (1 + 1) .. i
      BY <1>1
    <3> QED
      BY <1>3, <2>1, <2>2, <3>1 DEF PowerBefore
  <2>3. CASE j # 1
    <3>1. PICK h \in 1 .. (i - 1) : h + 1 = j
      <4>1. j - 1 \in 1 .. (i - 1) /\ (j - 1) + 1 = j
        BY <1>1, <2>1, <2>3
      <4> QED
        BY <4>1
    <3>2. \A k \in (h + 1) .. (i - 1) : k \in 1 .. (i - 1) /\ k + 1 \in (j + 1) .. i
      BY <1>1, <3>1
    <3>3. IsVote(t[h]) /\ v = Given(t[h])
      BY <1>3, <2>1, <3>1
    <3>4. \A k \in (h + 1) .. (i - 1) : ~IsVote(t[k])
      BY <1>3, <2>1, <3>2
    <3> QED
      BY <3>3, <3>4 DEF PowerBefore
  <2> QED
    BY <2>2, <2>3
<1> QED
  BY <1>4, <1>5

LEMMA VotesGrow ==
  ASSUME NEW q, NEW t, Longer(q, t), NEW power, NEW before, NEW after, VotesFit(q, power, before),
         t[Len(t)].op = "enable" => before = 0,
         t[Len(t)].op = "disable" => before = t[Len(t)].id,
         after = IF IsVote(t[Len(t)]) THEN Given(t[Len(t)]) ELSE before
  PROVE  VotesFit(t, power, after)
<1>1. ASSUME NEW i \in 1 .. Len(t)
      PROVE  /\ t[i].op = "enable" => PowerBefore(t, power, i, 0)
             /\ t[i].op = "disable" => PowerBefore(t, power, i, t[i].id)
  <2>1. i \in 1 .. Len(q) + 1
    BY <1>1, Lengths
  <2>2. CASE i = Len(t)
    BY <2>1, <2>2, PowerStays, Lengths DEF VotesFit
  <2>3. CASE i \in 1 .. Len(q)
    BY <2>1, <2>3, PowerStays, Lengths DEF VotesFit
  <2> QED
    BY <2>2, <2>3, Lengths
<1>2. PowerBefore(t, power, Len(t) + 1, after)
  BY PowerAfterLast DEF VotesFit
<1> QED
  BY <1>1, <1>2 DEF VotesFit

LEMMA VotesShrink ==
  ASSUME NEW q, NEW t, Shorter(q, t), NEW power, NEW final, VotesFit(q, power, final)
  PROVE  /\ VotesFit(t, IF IsVote(q[1]) THEN Given(q[1]) ELSE power, final)
         /\ q[1].op = "enable" => power = 0
         /\ q[1].op = "disable" => power = q[1].id
<1> DEFINE p == IF IsVote(q[1]) THEN Given(q[1]) ELSE power
<1>1. \A v : PowerBefore(q, power, 1, v) => v = power
  BY DEF PowerBefore
<1>2. ASSUME NEW i \in 1 .. Len(t)
      PROVE  /\ t[i].op = "enable" => PowerBefore(t, p, i, 0)
             /\ t[i].op = "disable" => PowerBefore(t, p, i, t[i].id)
  <2>1. i \in 1 .. Len(t) + 1 /\ i + 1 \in 1 .. Len(q) /\ t[i] = q[i + 1]
    BY <1>2, Lengths
  <2> QED
    BY <2>1, PowerShifts DEF VotesFit
<1>3. PowerBefore(t, p, Len(t) + 1, final)
  <2>1. Len(t) + 1 \in 1 .. Len(t) + 1 /\ (Len(t) + 1) + 1 = Len(q) + 1
    BY Lengths
  <2> QED
    BY <2>1, PowerShifts DEF VotesFit
<1> QED
  BY <1>1, <1>2, <1>3, Lengths DEF VotesFit

-----------------------------------------------------------------------------
(* The numbers.                                                            *)

LEMMA HasGrows ==
  ASSUME NEW q, NEW t, Longer(q, t), NEW op, NEW id
  PROVE  Has(t, op, id) <=> Has(q, op, id) \/ (t[Len(t)].op = op /\ t[Len(t)].id = id)
  BY Lengths DEF Has

LEMMA HasShrinks ==
  ASSUME NEW q, NEW t, Shorter(q, t), NEW op, NEW id
  PROVE  Has(q, op, id) <=> Has(t, op, id) \/ (q[1].op = op /\ q[1].id = id)
<1>1. Has(q, op, id) => Has(t, op, id) \/ (q[1].op = op /\ q[1].id = id)
  <2> SUFFICES ASSUME NEW i \in 1 .. Len(q), q[i].op = op, q[i].id = id
               PROVE  Has(t, op, id) \/ (q[1].op = op /\ q[1].id = id)
    BY DEF Has
  <2>1. i # 1 => i - 1 \in 1 .. Len(t) /\ t[i - 1] = q[i]
    BY Lengths
  <2> QED
    BY <2>1 DEF Has
<1>2. Has(t, op, id) => Has(q, op, id)
  BY Lengths DEF Has
<1> QED
  BY <1>1, <1>2, Lengths DEF Has

LEMMA OnceGrows ==
  ASSUME NEW q, NEW t, Longer(q, t), NumberedOnce(q),
         IsNumbered(t[Len(t)]) => ~Has(q, t[Len(t)].op, t[Len(t)].id),
         t[Len(t)].op = "enable" => ~Has(q, "disable", t[Len(t)].id)
  PROVE  NumberedOnce(t)
<1>1. ASSUME NEW i \in 1 .. Len(t), NEW j \in 1 .. Len(t),
             IsNumbered(t[i]), t[i].op = t[j].op, t[i].id = t[j].id
      PROVE  i = j
  <2>1. IsNumbered(t[j])
    BY <1>1 DEF IsNumbered
  <2>2. i \in 1 .. Len(q) /\ j \in 1 .. Len(q) => i = j
    BY <1>1, Lengths DEF NumberedOnce
  <2>3. ~(i \in 1 .. Len(q) /\ j = Len(t)) /\ ~(j \in 1 .. Len(q) /\ i = Len(t))
    BY <1>1, <2>1, Lengths DEF Has
  <2> QED
    BY <2>2, <2>3, Lengths
<1>2. ASSUME NEW i \in 1 .. Len(t), NEW j \in 1 .. Len(t),
             t[i].op = "enable", t[j].op = "disable", t[i].id = t[j].id
      PROVE  i < j
  <2>1. i \in 1 .. Len(q) /\ j \in 1 .. Len(q) => i < j
    BY <1>2, Lengths DEF NumberedOnce
  <2>2. ~(j \in 1 .. Len(q) /\ i = Len(t))
    BY <1>2, Lengths DEF Has
  <2>3. i \in 1 .. Len(q) /\ j = Len(t) => i < j
    BY Lengths
  <2>4. ~(i = Len(t) /\ j = Len(t))
    BY <1>2
  <2> QED
    BY <2>1, <2>2, <2>3, <2>4, Lengths
<1> QED
  BY <1>1, <1>2 DEF NumberedOnce

(* The order that is taken was the only one of its kind and session.       *)
LEMMA OnceShrinks ==
  ASSUME NEW q, NEW t, Shorter(q, t), NumberedOnce(q)
  PROVE  /\ NumberedOnce(t)
         /\ IsNumbered(q[1]) => ~Has(t, q[1].op, q[1].id)
         /\ q[1].op = "disable" => ~Has(t, "enable", q[1].id)
<1>1. ASSUME NEW i \in 1 .. Len(t), NEW j \in 1 .. Len(t)
      PROVE  /\ IsNumbered(t[i]) /\ t[i].op = t[j].op /\ t[i].id = t[j].id => i = j
             /\ t[i].op = "enable" /\ t[j].op = "disable" /\ t[i].id = t[j].id => i < j
  <2>1. i + 1 \in 1 .. Len(q) /\ j + 1 \in 1 .. Len(q) /\ t[i] = q[i + 1] /\ t[j] = q[j + 1]
    BY Lengths
  <2>2. i + 1 = j + 1 => i = j
    BY Lengths
  <2>3. i + 1 < j + 1 => i < j
    BY Lengths
  <2> QED
    BY <2>1, <2>2, <2>3 DEF NumberedOnce
<1>2. ASSUME NEW i \in 1 .. Len(t)
      PROVE  /\ ~(IsNumbered(q[1]) /\ t[i].op = q[1].op /\ t[i].id = q[1].id)
             /\ ~(q[1].op = "disable" /\ t[i].op = "enable" /\ t[i].id = q[1].id)
  <2>1. 1 \in 1 .. Len(q) /\ i + 1 \in 1 .. Len(q) /\ t[i] = q[i + 1] /\ 1 # i + 1 /\ ~(i + 1 < 1)
    BY Lengths
  <2> QED
    BY <2>1 DEF NumberedOnce
<1> QED
  BY <1>1, <1>2 DEF NumberedOnce, Has

-----------------------------------------------------------------------------
(* The requests for configurations.                                        *)

LEMMA PlacesAre ==
  ASSUME NEW q, NEW r \in Seq(NumberedRequest \cup ConfigRequest), NEW f, Places(q, r, f)
  PROVE  Len(r) \in Nat /\ \A a \in 1 .. Len(r) : f[a] \in 1 .. Len(q)
  BY DEF Places

LEMMA ConfigsStay ==
  ASSUME NEW q, NEW t, Longer(q, t), t[Len(t)].op # "config",
         NEW r \in Seq(NumberedRequest \cup ConfigRequest), AwaitsConfigs(q, r)
  PROVE  AwaitsConfigs(t, r)
<1>1. PICK f \in [1 .. Len(r) -> 1 .. Len(q)] : Places(q, r, f)
  BY DEF AwaitsConfigs
<1>2. \A a \in 1 .. Len(r) : f[a] \in 1 .. Len(q) /\ f[a] \in 1 .. Len(t) /\ t[f[a]] = q[f[a]]
  BY <1>1, Lengths
<1>3. f \in [1 .. Len(r) -> 1 .. Len(t)]
  BY <1>1, <1>2
<1>4. \A i \in 1 .. Len(t) : t[i].op = "config" => \E a \in 1 .. Len(r) : f[a] = i
  BY <1>1, Lengths DEF Places
<1>5. Places(t, r, f)
  BY <1>1, <1>2, <1>3, <1>4 DEF Places
<1> QED
  BY <1>3, <1>5 DEF AwaitsConfigs

LEMMA ConfigsGrow ==
  ASSUME NEW q, NEW t, Longer(q, t), t[Len(t)].op = "config",
         NEW r \in Seq(NumberedRequest \cup ConfigRequest), AwaitsConfigs(q, r),
         NEW u \in Seq(NumberedRequest \cup ConfigRequest), Len(u) = Len(r) + 1,
         \A a \in 1 .. Len(r) : u[a] = r[a],
         u[Len(u)] = [kind |-> "config", config |-> t[Len(t)].config]
  PROVE  AwaitsConfigs(t, u)
<1>1. PICK f \in [1 .. Len(r) -> 1 .. Len(q)] : Places(q, r, f)
  BY DEF AwaitsConfigs
<1>2. PICK n \in Nat : n = Len(t) /\ n \in 1 .. Len(t) /\ n = Len(q) + 1 /\ Len(q) \in Nat
  BY Lengths
<1>3. PICK m \in Nat : m = Len(u) /\ Len(r) \in Nat /\ m = Len(r) + 1
  OBVIOUS
<1>4. \A a \in 1 .. m : a \in 1 .. Len(r) \/ a = m
  BY <1>3
<1>5. \A a \in 1 .. Len(r) : a \in 1 .. m /\ a # m /\ a < m
  BY <1>3
<1>6. m \in 1 .. m
  BY <1>3
<1> DEFINE g == [a \in 1 .. m |-> IF a = m THEN n ELSE f[a]]
<1>7. \A a \in 1 .. Len(r) : /\ g[a] = f[a] /\ f[a] \in 1 .. Len(q) /\ f[a] \in 1 .. Len(t)
                             /\ t[f[a]] = q[f[a]] /\ f[a] < n
  <2> TAKE a \in 1 .. Len(r)
  <2>1. g[a] = f[a]
    BY <1>5
  <2>2. f[a] \in 1 .. Len(q)
    BY <1>1
  <2>3. f[a] \in 1 .. Len(t) /\ t[f[a]] = q[f[a]] /\ f[a] < n
    BY <1>2, <2>2, Lengths
  <2> QED
    BY <2>1, <2>2, <2>3
<1>8. g[m] = n
  BY <1>6
<1>9. \A a \in 1 .. m : g[a] \in 1 .. Len(t)
  BY <1>2, <1>4, <1>7, <1>8
<1>10. g \in [1 .. m -> 1 .. Len(t)]
  BY <1>9
<1> HIDE DEF g
<1>11. \A a, b \in 1 .. m : a < b => g[a] < g[b]
  <2> SUFFICES ASSUME NEW a \in 1 .. m, NEW b \in 1 .. m, a < b PROVE g[a] < g[b]
    OBVIOUS
  <2>1. a \in 1 .. Len(r)
    BY <1>3
  <2>2. b \in 1 .. Len(r) => f[a] < f[b]
    BY <1>1, <2>1 DEF Places
  <2> QED
    BY <1>4, <1>7, <1>8, <2>1, <2>2
<1>12. \A i \in 1 .. Len(t) : t[i].op = "config" => \E a \in 1 .. m : g[a] = i
  <2> SUFFICES ASSUME NEW i \in 1 .. Len(t), t[i].op = "config"
               PROVE  \E a \in 1 .. m : g[a] = i
    OBVIOUS
  <2>1. CASE i = n
    BY <1>6, <1>8, <2>1
  <2>2. CASE i # n
    <3>1. i \in 1 .. Len(q) /\ q[i].op = "config"
      BY <1>2, <2>2, Lengths
    <3>2. PICK a \in 1 .. Len(r) : f[a] = i
      BY <1>1, <3>1 DEF Places
    <3> QED
      BY <1>5, <1>7, <3>2
  <2> QED
    BY <2>1, <2>2
<1>13. ASSUME NEW a \in 1 .. m
       PROVE  t[g[a]].op = "config" /\ u[a] = [kind |-> "config", config |-> t[g[a]].config]
  <2>1. CASE a = m
    BY <1>2, <1>3, <1>8, <2>1
  <2>2. CASE a \in 1 .. Len(r)
    <3>1. q[f[a]].op = "config" /\ r[a] = [kind |-> "config", config |-> q[f[a]].config]
      BY <1>1, <2>2 DEF Places
    <3>2. t[g[a]] = q[f[a]] /\ u[a] = r[a]
      BY <1>7, <2>2
    <3> QED
      BY <3>1, <3>2
  <2> QED
    BY <1>4, <2>1, <2>2
<1>14. Places(t, u, g)
  BY <1>3, <1>10, <1>11, <1>12, <1>13 DEF Places
<1> QED
  BY <1>3, <1>10, <1>14 DEF AwaitsConfigs

(* A configuration that is taken was the first requested; another order    *)
(* leaves the requests as they are.                                        *)
LEMMA ConfigsShrink ==
  ASSUME NEW q, NEW t, Shorter(q, t), NEW r \in Seq(NumberedRequest \cup ConfigRequest),
         AwaitsConfigs(q, r), q[1].op = "config"
  PROVE  /\ r # <<>> /\ Head(r) = [kind |-> "config", config |-> q[1].config]
         /\ AwaitsConfigs(t, Tail(r))
<1>1. PICK f \in [1 .. Len(r) -> 1 .. Len(q)] : Places(q, r, f)
  BY DEF AwaitsConfigs
<1>2. 1 \in 1 .. Len(q) /\ Len(q) \in Nat /\ Len(t) \in Nat /\ Len(q) = Len(t) + 1 /\ Len(r) \in Nat
  BY Lengths
<1>3. PICK b \in 1 .. Len(r) : f[b] = 1
  BY <1>1, <1>2 DEF Places
<1>4. 1 \in 1 .. Len(r) /\ f[1] \in 1 .. Len(q)
  BY <1>1, <1>2, <1>3
<1>5. ~(1 < b)
  <2>1. 1 < b => f[1] < 1
    BY <1>1, <1>3, <1>4 DEF Places
  <2> QED
    BY <1>2, <1>4, <2>1
<1>6. b = 1
  BY <1>2, <1>5
<1>7. r # <<>> /\ Head(r) = [kind |-> "config", config |-> q[1].config]
  <2>1. r[1] = [kind |-> "config", config |-> q[f[1]].config] /\ f[1] = 1
    BY <1>1, <1>3, <1>4, <1>6 DEF Places
  <2>2. r # <<>> /\ Head(r) = r[1]
    BY <1>4
  <2> QED
    BY <2>1, <2>2
<1>8. PICK u \in Seq(NumberedRequest \cup ConfigRequest) :
        u = Tail(r) /\ Len(r) = Len(u) + 1 /\ \A a \in 1 .. Len(u) : u[a] = r[a + 1]
  <2>1. /\ Tail(r) \in Seq(NumberedRequest \cup ConfigRequest) /\ Len(Tail(r)) = Len(r) - 1
        /\ \A a \in 1 .. Len(Tail(r)) : Tail(r)[a] = r[a + 1]
    BY <1>7, HeadTailProperties
  <2>2. Len(r) = Len(Tail(r)) + 1
    BY <1>2, <2>1
  <2> QED
    BY <2>1, <2>2
<1>9. \A a \in 1 .. Len(u) : /\ a + 1 \in 1 .. Len(r) /\ 1 < a + 1 /\ f[1] < f[a + 1]
                             /\ f[a + 1] \in 1 .. Len(q)
  <2> TAKE a \in 1 .. Len(u)
  <2>1. a + 1 \in 1 .. Len(r) /\ 1 < a + 1
    BY <1>2, <1>8
  <2> QED
    BY <1>1, <1>4, <2>1 DEF Places
<1>10. \A a \in 1 .. Len(u) : f[a + 1] - 1 \in 1 .. Len(t) /\ t[f[a + 1] - 1] = q[f[a + 1]]
  <2> TAKE a \in 1 .. Len(u)
  <2>1. f[a + 1] \in 1 .. Len(q) /\ f[a + 1] # 1
    BY <1>2, <1>3, <1>6, <1>9
  <2>2. \A i \in 1 .. Len(q) : i # 1 => i - 1 \in 1 .. Len(t) /\ (i - 1) + 1 = i
    BY <1>2
  <2>3. \A i \in 1 .. Len(t) : t[i] = q[i + 1]
    BY Lengths
  <2>4. PICK i \in 1 .. Len(q) : i = f[a + 1]
    BY <2>1
  <2>5. i - 1 \in 1 .. Len(t) /\ (i - 1) + 1 = i
    BY <2>1, <2>2, <2>4
  <2>6. t[i - 1] = q[(i - 1) + 1]
    BY <2>3, <2>5
  <2> QED
    BY <2>4, <2>5, <2>6
<1> DEFINE g == [a \in 1 .. Len(u) |-> f[a + 1] - 1]
<1>11. \A a \in 1 .. Len(u) : g[a] = f[a + 1] - 1
  OBVIOUS
<1>12. g \in [1 .. Len(u) -> 1 .. Len(t)]
  BY <1>10
<1> HIDE DEF g
<1>13. \A a, c \in 1 .. Len(u) : a < c => g[a] < g[c]
  <2> SUFFICES ASSUME NEW a \in 1 .. Len(u), NEW c \in 1 .. Len(u), a < c PROVE g[a] < g[c]
    OBVIOUS
  <2>1. a + 1 < c + 1
    BY <1>8
  <2>2. f[a + 1] < f[c + 1]
    BY <1>1, <1>9, <2>1 DEF Places
  <2> QED
    BY <1>2, <1>9, <1>11, <2>2
<1>14. \A i \in 1 .. Len(t) : t[i].op = "config" => \E a \in 1 .. Len(u) : g[a] = i
  <2> SUFFICES ASSUME NEW i \in 1 .. Len(t), t[i].op = "config"
               PROVE  \E a \in 1 .. Len(u) : g[a] = i
    OBVIOUS
  <2>1. i + 1 \in 1 .. Len(q) /\ i + 1 # 1 /\ q[i + 1].op = "config"
    BY Lengths
  <2>2. PICK c \in 1 .. Len(r) : f[c] = i + 1
    BY <1>1, <2>1 DEF Places
  <2>3. c # 1
    BY <1>3, <1>6, <2>1, <2>2
  <2>4. c - 1 \in 1 .. Len(u) /\ (c - 1) + 1 = c
    BY <1>2, <1>8, <2>3
  <2>5. (i + 1) - 1 = i
    BY <1>2
  <2> QED
    BY <1>11, <2>2, <2>4, <2>5
<1>15. \A a \in 1 .. Len(u) :
         t[g[a]].op = "config" /\ u[a] = [kind |-> "config", config |-> t[g[a]].config]
  <2> TAKE a \in 1 .. Len(u)
  <2>1. a + 1 \in 1 .. Len(r) /\ u[a] = r[a + 1] /\ t[g[a]] = q[f[a + 1]]
    BY <1>8, <1>9, <1>10, <1>11
  <2>2. /\ q[f[a + 1]].op = "config"
        /\ r[a + 1] = [kind |-> "config", config |-> q[f[a + 1]].config]
    BY <1>1, <2>1 DEF Places
  <2> QED
    BY <2>1, <2>2
<1>16. Places(t, u, g)
  BY <1>12, <1>13, <1>14, <1>15 DEF Places
<1> QED
  BY <1>7, <1>8, <1>12, <1>16 DEF AwaitsConfigs

LEMMA ConfigsWait ==
  ASSUME NEW q, NEW t, Shorter(q, t), NEW r \in Seq(NumberedRequest \cup ConfigRequest),
         AwaitsConfigs(q, r), q[1].op # "config"
  PROVE  AwaitsConfigs(t, r)
<1>1. PICK f \in [1 .. Len(r) -> 1 .. Len(q)] : Places(q, r, f)
  BY DEF AwaitsConfigs
<1>2. \A a \in 1 .. Len(r) : f[a] \in 1 .. Len(q) /\ f[a] # 1
  BY <1>1 DEF Places
<1>3. \A a \in 1 .. Len(r) : f[a] - 1 \in 1 .. Len(t) /\ t[f[a] - 1] = q[f[a]]
  BY <1>2, Lengths
<1>4. Len(q) \in Nat /\ Len(t) \in Nat
  BY Lengths
<1> DEFINE g == [a \in 1 .. Len(r) |-> f[a] - 1]
<1>5. \A a \in 1 .. Len(r) : g[a] = f[a] - 1
  OBVIOUS
<1>6. g \in [1 .. Len(r) -> 1 .. Len(t)]
  BY <1>3
<1> HIDE DEF g
<1>7. \A a, c \in 1 .. Len(r) : a < c => g[a] < g[c]
  <2> SUFFICES ASSUME NEW a \in 1 .. Len(r), NEW c \in 1 .. Len(r), a < c PROVE g[a] < g[c]
    OBVIOUS
  <2>1. f[a] < f[c]
    BY <1>1 DEF Places
  <2> QED
    BY <1>2, <1>4, <1>5, <2>1
<1>8. \A i \in 1 .. Len(t) : t[i].op = "config" => \E a \in 1 .. Len(r) : g[a] = i
  <2> SUFFICES ASSUME NEW i \in 1 .. Len(t), t[i].op = "config"
               PROVE  \E a \in 1 .. Len(r) : g[a] = i
    OBVIOUS
  <2>1. i + 1 \in 1 .. Len(q) /\ q[i + 1].op = "config" /\ (i + 1) - 1 = i
    BY <1>4, Lengths
  <2>2. PICK a \in 1 .. Len(r) : f[a] = i + 1
    BY <1>1, <2>1 DEF Places
  <2> QED
    BY <1>5, <2>1, <2>2
<1>9. ASSUME NEW a \in 1 .. Len(r)
      PROVE  t[g[a]].op = "config" /\ r[a] = [kind |-> "config", config |-> t[g[a]].config]
  <2>1. q[f[a]].op = "config" /\ r[a] = [kind |-> "config", config |-> q[f[a]].config]
    BY <1>1 DEF Places
  <2>2. t[g[a]] = q[f[a]]
    BY <1>3, <1>5
  <2> QED
    BY <2>1, <2>2
<1> QED
  BY <1>6, <1>7, <1>8, <1>9 DEF AwaitsConfigs, Places

-----------------------------------------------------------------------------
(* An order that a client posts.                                           *)

LEMMA AppendToOne ==
  ASSUME NEW S, NEW e \in S, NEW f \in S
  PROVE  Append(<<e>>, f) = <<e, f>>
<1>1. PICK u \in Seq(S) : u = Append(<<e>>, f) /\ Len(u) = 2 /\ u[1] = e /\ u[2] = f
  <2>1. <<e>> \in Seq(S) /\ Len(<<e>>) = 1 /\ <<e>>[1] = e
    OBVIOUS
  <2>2. Append(<<e>>, f) \in Seq(S) /\ Len(Append(<<e>>, f)) = 2
    BY <2>1
  <2>3. Append(<<e>>, f)[1] = e /\ Append(<<e>>, f)[2] = f
    BY <2>1
  <2> QED
    BY <2>2, <2>3
<1>2. PICK v \in Seq(S) : v = <<e, f>> /\ Len(v) = 2 /\ v[1] = e /\ v[2] = f
  <2>1. <<e, f>> \in Seq(S) /\ Len(<<e, f>>) = 2 /\ <<e, f>>[1] = e /\ <<e, f>>[2] = f
    OBVIOUS
  <2> QED
    BY <2>1
<1>3. u = v
  <2>1. \A i \in 1 .. Len(u) : i = 1 \/ i = 2
    BY <1>1
  <2> QED
    BY <1>1, <1>2, <2>1, SeqEqual
<1> QED
  BY <1>1, <1>2, <1>3

Client == [enabled : BOOLEAN, last : Configs, queues : [Kinds -> Queue]]

LEMMA ClientShape ==
  ASSUME NEW c \in Client, NEW k \in Kinds
  PROVE  /\ c.queues[k].session \in Nat
         /\ c.queues[k].requests \in Seq(NumberedRequest \cup ConfigRequest)
         /\ "CONTROL" \in Kinds /\ "CONFIG" \in Kinds /\ "DELETEAIDINGDATA" \in Kinds
  BY DEF Client, Queue, Kinds

(* A client in which one field or one queue is replaced.                    *)
Turned(c, enabled) == [c EXCEPT !.enabled = enabled]
Remembered(c, last) == [c EXCEPT !.last = last]
With(c, k, shorter) == [c EXCEPT !.queues[k] = shorter]

LEMMA TurnedIs ==
  ASSUME NEW c \in Client, NEW enabled \in BOOLEAN, NEW d, d = Turned(c, enabled)
  PROVE  d \in Client /\ d.last = c.last /\ d.queues = c.queues /\ d.enabled = enabled
<1>1. d \in Client /\ d.last = c.last /\ d.queues = c.queues
  BY DEF Client, Turned
<1>2. d.enabled = enabled
  BY DEF Client, Turned
<1> QED
  BY <1>1, <1>2

LEMMA RememberedIs ==
  ASSUME NEW c \in Client, NEW last \in Configs, NEW d, d = Remembered(c, last)
  PROVE  d \in Client /\ d.last = last /\ d.queues = c.queues /\ d.enabled = c.enabled
<1>1. d \in Client /\ d.last = last /\ d.queues = c.queues
  BY DEF Client, Remembered
<1>2. d.enabled = c.enabled
  BY DEF Client, Remembered
<1> QED
  BY <1>1, <1>2

LEMMA RequestsChange ==
  ASSUME NEW c \in Client, NEW k \in Kinds, NEW shorter \in Queue, NEW d,
         d = With(c, k, shorter)
  PROVE  /\ d \in Client /\ d.last = c.last /\ d.queues[k] = shorter
         /\ d.enabled = c.enabled
         /\ \A j \in Kinds : j # k => d.queues[j] = c.queues[j]
<1>1. c.queues \in [Kinds -> Queue]
  BY DEF Client
<1>2. [c.queues EXCEPT ![k] = shorter] \in [Kinds -> Queue]
  BY <1>1
<1>3. d.queues = [c.queues EXCEPT ![k] = shorter] /\ d.last = c.last
  BY DEF Client, With
<1>4. d.enabled = c.enabled
  BY DEF Client, With
<1>5. d \in Client
  BY <1>2 DEF Client, With
<1>6. d.queues[k] = shorter /\ \A j \in Kinds : j # k => d.queues[j] = c.queues[j]
  BY <1>1, <1>3
<1> QED
  BY <1>3, <1>4, <1>5, <1>6

Changed(c, d, k, session, requests) ==
  /\ d \in Client /\ d.last = c.last
  /\ d.queues[k].session = session /\ d.queues[k].requests = requests
  /\ d.enabled = c.enabled
  /\ \A j \in Kinds \ {k} : d.queues[j] = c.queues[j]

LEMMA RestartedIs ==
  ASSUME NEW c \in Client, NEW k \in Kinds, NEW id \in Nat,
         NEW m \in NumberedRequest \cup ConfigRequest, NEW d, d = Restarted(c, k, id, m)
  PROVE  Changed(c, d, k, id, <<m>>)
<1>1. <<m>> \in Seq(NumberedRequest \cup ConfigRequest)
  OBVIOUS
<1>2. PICK shorter \in Queue : shorter = [session |-> id, requests |-> <<m>>]
  BY <1>1 DEF Queue
<1>3. d = With(c, k, shorter)
  BY <1>2 DEF Restarted, With
<1>4. shorter.session = id /\ shorter.requests = <<m>>
  BY <1>2
<1>5. /\ d \in Client /\ d.last = c.last /\ d.queues[k] = shorter
      /\ \A j \in Kinds : j # k => d.queues[j] = c.queues[j]
  BY <1>3, RequestsChange
<1>6. d.enabled = c.enabled
  BY <1>3, RequestsChange
<1> QED
  BY <1>4, <1>5, <1>6 DEF Changed

LEMMA PushedIs ==
  ASSUME NEW c \in Client, NEW k \in Kinds, NEW m \in NumberedRequest \cup ConfigRequest,
         NEW d, d = Pushed(c, k, m)
  PROVE  Changed(c, d, k, c.queues[k].session, Append(c.queues[k].requests, m))
<1>1. /\ c.queues[k] \in Queue
      /\ c.queues[k].session \in Nat
      /\ c.queues[k].requests \in Seq(NumberedRequest \cup ConfigRequest)
  BY DEF Client, Queue
<1>2. Append(c.queues[k].requests, m) \in Seq(NumberedRequest \cup ConfigRequest)
  BY <1>1
<1>3. PICK shorter \in Queue :
        shorter = [session |-> c.queues[k].session, requests |-> Append(c.queues[k].requests, m)]
  BY <1>1, <1>2 DEF Queue
<1>4. [c.queues[k] EXCEPT !.requests = Append(@, m)] = shorter
  <2>1. PICK s, r : /\ c.queues[k] = [session |-> s, requests |-> r]
                    /\ s = c.queues[k].session /\ r = c.queues[k].requests
    BY <1>1 DEF Queue
  <2> QED
    <3>1. [[session |-> s, requests |-> r] EXCEPT !.requests = Append(@, m)] =
            [session |-> s, requests |-> Append(r, m)]
      OBVIOUS
    <3> QED
      BY <1>3, <2>1, <3>1, Zenon
<1>5. d = With(c, k, shorter)
  BY <1>4 DEF Pushed, Client, With
<1>6. shorter.session = c.queues[k].session /\ shorter.requests = Append(c.queues[k].requests, m)
  BY <1>3
<1>7. /\ d \in Client /\ d.last = c.last /\ d.queues[k] = shorter
      /\ \A j \in Kinds : j # k => d.queues[j] = c.queues[j]
  BY <1>5, RequestsChange
<1>8. d.enabled = c.enabled
  BY <1>5, RequestsChange
<1> QED
  BY <1>6, <1>7, <1>8 DEF Changed

(* Another order leaves the numbers as they are.                           *)
LEMMA NumbersStay ==
  ASSUME NEW q, NEW t, Longer(q, t), ~IsNumbered(t[Len(t)])
  PROVE  \A op \in {"enable", "disable", "delete"} : \A id : Has(t, op, id) <=> Has(q, op, id)
  BY HasGrows DEF IsNumbered

LEMMA PostPlain ==
  ASSUME NEW q, NEW t, Longer(q, t), NEW c \in Client, NEW power, Together(q, c, power),
         t[Len(t)].op \in {"setConfig", "callbacks"}
  PROVE  Together(t, c, power)
<1>1. ~IsNumbered(t[Len(t)]) /\ ~IsVote(t[Len(t)]) /\ t[Len(t)].op # "config"
      /\ t[Len(t)].op # "enable" /\ t[Len(t)].op # "disable"
  BY DEF IsNumbered, IsVote
<1>2. VotesFit(t, power, Voted(c))
  BY <1>1, VotesGrow DEF Together
<1>3. NumberedOnce(t)
  BY <1>1, OnceGrows DEF Together
<1>4. \A op \in {"enable", "disable", "delete"} : \A id : Has(t, op, id) <=> Has(q, op, id)
  BY <1>1, NumbersStay
<1>5. NumbersApart(t, c, power)
  BY <1>4 DEF Together, NumbersApart, VoteNumber, DeleteNumber
<1>6. AwaitsConfigs(t, c.queues["CONFIG"].requests)
  BY <1>1, ConfigsStay, ClientShape DEF Together, RequestsAreAwaited, Kinds
<1>7. RequestsAreAwaited(t, c)
  BY <1>4, <1>6 DEF Together, RequestsAreAwaited, AwaitsVotes, AwaitsDeletion
<1> QED
  BY <1>2, <1>3, <1>4, <1>5, <1>7 DEF Together

LEMMA QueuedIs ==
  ASSUME NEW c \in Client, NEW config \in Configs,
         c.queues["CONFIG"].session \in {0, ConfigSession},
         c.queues["CONFIG"].session = 0 => c.queues["CONFIG"].requests = <<>>
  PROVE  /\ Queued(c, config) \in Client
         /\ Queued(c, config).enabled = c.enabled /\ Queued(c, config).last = config
         /\ Queued(c, config).queues["CONTROL"] = c.queues["CONTROL"]
         /\ Queued(c, config).queues["DELETEAIDINGDATA"] = c.queues["DELETEAIDINGDATA"]
         /\ Queued(c, config).queues["CONFIG"].session = ConfigSession
         /\ Queued(c, config).queues["CONFIG"].requests =
              Append(c.queues["CONFIG"].requests, [kind |-> "config", config |-> config])
<1>1. PICK request \in NumberedRequest \cup ConfigRequest :
        request = [kind |-> "config", config |-> config]
  BY DEF ConfigRequest
<1>2. PICK r \in Seq(NumberedRequest \cup ConfigRequest) : r = c.queues["CONFIG"].requests
  BY ClientShape DEF Kinds
<1>3. ConfigSession \in Nat /\ ConfigSession # 0 /\ "CONFIG" \in Kinds
      /\ "CONTROL" \in Kinds /\ "DELETEAIDINGDATA" \in Kinds
      /\ "CONTROL" # "CONFIG" /\ "DELETEAIDINGDATA" # "CONFIG"
  BY DEF Kinds, ConfigSession
<1>4. PICK b : b = Remembered(c, config)
  OBVIOUS
<1>5. b \in Client /\ b.last = config /\ b.queues = c.queues
  BY <1>4, RememberedIs
<1>6. b.enabled = c.enabled
  BY <1>4, RememberedIs
<1>7. PICK d : d = Queued(c, config)
  OBVIOUS
<1>8. d = IF c.queues["CONFIG"].session # ConfigSession
          THEN Restarted(b, "CONFIG", ConfigSession, request)
          ELSE Pushed(b, "CONFIG", request)
  BY <1>1, <1>4, <1>7 DEF Queued, Remembered
<1>9. CASE c.queues["CONFIG"].session = 0
  <2>1. d = Restarted(b, "CONFIG", ConfigSession, request)
    BY <1>3, <1>8, <1>9
  <2>2. Changed(b, d, "CONFIG", ConfigSession, <<request>>)
    BY <1>3, <1>5, <2>1, RestartedIs
  <2>3. d.enabled = b.enabled
    BY <2>2 DEF Changed
  <2>4. r = <<>>
    BY <1>2, <1>9
  <2>5. Append(r, request) = <<request>>
    BY <2>4
  <2> QED
    BY <1>1, <1>2, <1>3, <1>5, <1>6, <1>7, <2>2, <2>3, <2>5 DEF Changed
<1>10. CASE c.queues["CONFIG"].session = ConfigSession
  <2>1. d = Pushed(b, "CONFIG", request)
    BY <1>8, <1>10
  <2>2. Changed(b, d, "CONFIG", b.queues["CONFIG"].session,
                Append(b.queues["CONFIG"].requests, request))
    BY <1>3, <1>5, <2>1, PushedIs
  <2>3. d.enabled = b.enabled
    BY <2>2 DEF Changed
  <2> QED
    BY <1>1, <1>3, <1>5, <1>6, <1>7, <1>10, <2>2, <2>3 DEF Changed
<1> QED
  BY <1>9, <1>10

LEMMA PostConfig ==
  ASSUME NEW q, NEW t, Longer(q, t), NEW c \in Client, NEW power, Together(q, c, power),
         NEW config \in Configs, t[Len(t)] = [op |-> "config", config |-> config]
  PROVE  Together(t, Queued(c, config), power) /\ Queued(c, config) \in Client
<1>0. PICK d : d = Queued(c, config)
  OBVIOUS
<1>1. /\ d \in Client /\ d.enabled = c.enabled
      /\ d.queues["CONTROL"] = c.queues["CONTROL"]
      /\ d.queues["DELETEAIDINGDATA"] = c.queues["DELETEAIDINGDATA"]
      /\ d.queues["CONFIG"].session = ConfigSession
      /\ d.queues["CONFIG"].requests =
           Append(c.queues["CONFIG"].requests, [kind |-> "config", config |-> config])
  BY <1>0, QueuedIs DEF Together, RequestsAreAwaited
<1>2. ~IsNumbered(t[Len(t)]) /\ ~IsVote(t[Len(t)]) /\ t[Len(t)].op = "config"
      /\ t[Len(t)].op # "enable" /\ t[Len(t)].op # "disable" /\ t[Len(t)].config = config
  BY DEF IsNumbered, IsVote
<1>3. VotesFit(t, power, Voted(d))
  BY <1>1, <1>2, VotesGrow DEF Together, Voted
<1>4. NumberedOnce(t)
  BY <1>2, OnceGrows DEF Together
<1>5. \A op \in {"enable", "disable", "delete"} : \A id : Has(t, op, id) <=> Has(q, op, id)
  BY <1>2, NumbersStay
<1>6. NumbersApart(t, d, power)
  BY <1>1, <1>5 DEF Together, NumbersApart, VoteNumber, DeleteNumber
<1>7. AwaitsConfigs(t, d.queues["CONFIG"].requests)
  <2>1. PICK r \in Seq(NumberedRequest \cup ConfigRequest) : r = c.queues["CONFIG"].requests
    BY ClientShape DEF Kinds
  <2>2. PICK m \in NumberedRequest \cup ConfigRequest : m = [kind |-> "config", config |-> config]
    BY DEF ConfigRequest
  <2>3. PICK u \in Seq(NumberedRequest \cup ConfigRequest) :
          /\ u = Append(r, m) /\ Len(u) = Len(r) + 1
          /\ \A a \in 1 .. Len(r) : u[a] = r[a]
          /\ u[Len(u)] = m
    <3>1. PICK u : u = Append(r, m)
      OBVIOUS
    <3>2. u \in Seq(NumberedRequest \cup ConfigRequest) /\ Len(u) = Len(r) + 1
      BY <3>1
    <3>3. /\ \A a \in 1 .. Len(r) : u[a] = r[a]
          /\ u[Len(r) + 1] = m
      BY <3>1
    <3> QED
      BY <3>1, <3>2, <3>3
  <2>4. AwaitsConfigs(q, r)
    BY <2>1 DEF Together, RequestsAreAwaited
  <2>5. AwaitsConfigs(t, u)
    BY <1>2, <2>2, <2>3, <2>4, ConfigsGrow
  <2> QED
    BY <1>1, <2>1, <2>2, <2>3, <2>5
<1>8. RequestsAreAwaited(t, d)
  <2>1. ConfigSession # 0
    BY DEF ConfigSession
  <2> QED
    BY <1>1, <1>5, <1>7, <2>1 DEF Together, RequestsAreAwaited, AwaitsVotes, AwaitsDeletion
<1>9. d.enabled => ~Has(t, "disable", d.queues["CONTROL"].session)
  BY <1>1, <1>5 DEF Together
<1> QED
  BY <1>0, <1>1, <1>3, <1>4, <1>6, <1>8, <1>9 DEF Together

(* A number that nothing refers to.                                        *)
Fresh(q, c, power, id) ==
  id \in Nat \ {0} /\ ~VoteNumber(q, c, power, id) /\ ~DeleteNumber(q, c, id)

LEMMA PostEnable ==
  ASSUME NEW q, NEW t, Longer(q, t), NEW c \in Client, NEW power, Together(q, c, power),
         NEW id, Fresh(q, c, power, id), ~c.enabled, t[Len(t)] = [op |-> "enable", id |-> id]
  PROVE  Together(t, Enabling(c, id), power) /\ Enabling(c, id) \in Client
<1>1. PICK m \in NumberedRequest \cup ConfigRequest :
        m = Request("enable", id) /\ m = [kind |-> "enable", id |-> id]
  BY DEF Request, NumberedRequest, Fresh
<1>2. id \in Nat /\ id # 0
  BY DEF Fresh
<1>3. PICK b : b = Turned(c, TRUE)
  OBVIOUS
<1>4. PICK d : d = Enabling(c, id)
  OBVIOUS
<1>5. /\ d \in Client /\ d.enabled
      /\ d.queues["CONTROL"].session = id /\ d.queues["CONTROL"].requests = <<Request("enable", id)>>
      /\ d.queues["DELETEAIDINGDATA"] = c.queues["DELETEAIDINGDATA"]
      /\ d.queues["CONFIG"] = c.queues["CONFIG"]
  <2>1. b \in Client /\ b.queues = c.queues
    BY <1>3, TurnedIs
  <2>2. b.enabled = TRUE
    BY <1>3, TurnedIs
  <2>3. d = Restarted(b, "CONTROL", id, m)
    BY <1>1, <1>3, <1>4 DEF Enabling, Turned
  <2>4. "CONTROL" \in Kinds /\ "DELETEAIDINGDATA" \in Kinds /\ "CONFIG" \in Kinds
    BY DEF Kinds
  <2>5. Changed(b, d, "CONTROL", id, <<m>>)
    BY <1>2, <2>1, <2>3, <2>4, RestartedIs
  <2>6. d.enabled = b.enabled
    BY <2>5 DEF Changed
  <2>7. d.enabled
    BY <2>2, <2>6
  <2> QED
    BY <1>1, <2>1, <2>4, <2>5, <2>7 DEF Changed
<1>6. /\ t[Len(t)].op = "enable" /\ t[Len(t)].id = id /\ IsVote(t[Len(t)]) /\ IsNumbered(t[Len(t)])
      /\ Given(t[Len(t)]) = id
  BY DEF IsVote, IsNumbered, Given
<1>7. ~Has(q, "enable", id) /\ ~Has(q, "disable", id) /\ ~Has(q, "delete", id)
      /\ id # c.queues["DELETEAIDINGDATA"].session
  BY DEF Fresh, VoteNumber, DeleteNumber
<1>8. VotesFit(t, power, Voted(d))
  <2>1. Voted(c) = 0 /\ Voted(d) = id
    BY <1>5 DEF Voted
  <2>2. VotesFit(q, power, 0)
    BY <2>1 DEF Together
  <2> QED
    BY <1>6, <2>1, <2>2, VotesGrow
<1>9. NumberedOnce(t)
  BY <1>6, <1>7, OnceGrows DEF Together
<1>10. /\ \A n : Has(t, "enable", n) <=> Has(q, "enable", n) \/ n = id
       /\ \A n : Has(t, "disable", n) <=> Has(q, "disable", n)
       /\ \A n : Has(t, "delete", n) <=> Has(q, "delete", n)
  BY <1>6, HasGrows
<1>11. NumbersApart(t, d, power)
  BY <1>5, <1>7, <1>10 DEF Together, NumbersApart, VoteNumber, DeleteNumber
<1>12. AwaitsConfigs(t, d.queues["CONFIG"].requests)
  BY <1>5, <1>6, ConfigsStay, ClientShape DEF Together, RequestsAreAwaited, Kinds
<1>13. RequestsAreAwaited(t, d)
  BY <1>5, <1>7, <1>10, <1>12 DEF Together, RequestsAreAwaited, AwaitsVotes, AwaitsDeletion
<1> QED
  BY <1>4, <1>5, <1>7, <1>8, <1>9, <1>10, <1>11, <1>13 DEF Together

LEMMA PostDisable ==
  ASSUME NEW q, NEW t, Longer(q, t), NEW c \in Client, NEW power, Together(q, c, power),
         NEW id, id = c.queues["CONTROL"].session, id # 0, Voted(c) = id,
         t[Len(t)].op = "disable", t[Len(t)].id = id, NEW d \in Client, ~d.enabled,
         NEW b, b.queues = d.queues,
         Changed(c, b, "CONTROL", id, Append(c.queues["CONTROL"].requests, Request("disable", id)))
  PROVE  Together(t, d, power)
<1>1. PICK r \in Seq(NumberedRequest \cup ConfigRequest) : r = c.queues["CONTROL"].requests
  BY ClientShape DEF Kinds
<1>2. id \in Nat
  BY ClientShape DEF Kinds
<1>3. Request("disable", id) \in NumberedRequest \cup ConfigRequest
  BY <1>2 DEF Request, NumberedRequest
<1>4. "CONTROL" \in Kinds /\ "DELETEAIDINGDATA" \in Kinds /\ "CONFIG" \in Kinds
  BY DEF Kinds
<1>5. /\ d.queues["CONTROL"].session = id
      /\ d.queues["CONTROL"].requests = Append(r, Request("disable", id))
      /\ d.queues["DELETEAIDINGDATA"] = c.queues["DELETEAIDINGDATA"]
      /\ d.queues["CONFIG"] = c.queues["CONFIG"]
  BY <1>1, <1>4 DEF Changed
<1>6. /\ t[Len(t)].op = "disable" /\ t[Len(t)].id = id /\ IsVote(t[Len(t)]) /\ IsNumbered(t[Len(t)])
      /\ Given(t[Len(t)]) = 0
  BY DEF IsVote, IsNumbered, Given
<1>7. ~Has(q, "disable", id)
  BY DEF Together, Voted
<1>8. VotesFit(t, power, Voted(d))
  <2>1. Voted(d) = 0
    BY DEF Voted
  <2>2. VotesFit(q, power, id)
    BY DEF Together
  <2> QED
    BY <1>6, <2>1, <2>2, VotesGrow
<1>9. NumberedOnce(t)
  BY <1>6, <1>7, OnceGrows DEF Together
<1>10. /\ \A n : Has(t, "disable", n) <=> Has(q, "disable", n) \/ n = id
       /\ \A n : Has(t, "enable", n) <=> Has(q, "enable", n)
       /\ \A n : Has(t, "delete", n) <=> Has(q, "delete", n)
  BY <1>6, HasGrows
<1>11. NumbersApart(t, d, power)
  BY <1>5, <1>10 DEF Together, NumbersApart, VoteNumber, DeleteNumber
<1>12. AwaitsConfigs(t, d.queues["CONFIG"].requests)
  <2>1. AwaitsConfigs(q, c.queues["CONFIG"].requests) /\ t[Len(t)].op # "config"
    BY <1>6 DEF Together, RequestsAreAwaited
  <2>2. c.queues["CONFIG"].requests \in Seq(NumberedRequest \cup ConfigRequest)
    BY <1>4, ClientShape
  <2>3. AwaitsConfigs(t, c.queues["CONFIG"].requests)
    BY <2>1, <2>2, ConfigsStay
  <2> QED
    BY <1>5, <2>3
<1>13. AwaitsVotes(t, id, Append(r, Request("disable", id)))
  <2>1. r = IF Has(q, "enable", id) THEN <<Request("enable", id)>> ELSE <<>>
    BY <1>1, <1>7 DEF Together, RequestsAreAwaited, AwaitsVotes
  <2>2. /\ Append(<<Request("enable", id)>>, Request("disable", id)) =
             <<Request("enable", id), Request("disable", id)>>
        /\ Append(<<>>, Request("disable", id)) = <<Request("disable", id)>>
    <3>1. Request("enable", id) \in NumberedRequest \cup ConfigRequest
      BY <1>2 DEF Request, NumberedRequest
    <3>2. \A e, f \in NumberedRequest \cup ConfigRequest : Append(<<e>>, f) = <<e, f>>
      BY AppendToOne
    <3>3. \A f \in NumberedRequest \cup ConfigRequest : Append(<<>>, f) = <<f>>
      OBVIOUS
    <3> QED
      BY <1>3, <3>1, <3>2, <3>3
  <2>3. Has(t, "disable", id) /\ (Has(t, "enable", id) <=> Has(q, "enable", id))
    BY <1>10
  <2>4. CASE Has(q, "enable", id)
    BY <2>1, <2>2, <2>3, <2>4, Zenon DEF AwaitsVotes
  <2>5. CASE ~Has(q, "enable", id)
    BY <2>1, <2>2, <2>3, <2>5, Zenon DEF AwaitsVotes
  <2> QED
    BY <2>4, <2>5
<1>14. RequestsAreAwaited(t, d)
  BY <1>5, <1>10, <1>12, <1>13 DEF Together, RequestsAreAwaited, AwaitsDeletion
<1> QED
  BY <1>5, <1>8, <1>9, <1>11, <1>14 DEF Together

LEMMA PostDelete ==
  ASSUME NEW q, NEW t, Longer(q, t), NEW c \in Client, NEW power, Together(q, c, power),
         NEW id, Fresh(q, c, power, id), t[Len(t)] = [op |-> "delete", id |-> id], NEW d,
         d = Restarted(c, "DELETEAIDINGDATA", id, [kind |-> "delete", id |-> id])
  PROVE  Together(t, d, power) /\ d \in Client
<1>1. PICK m \in NumberedRequest \cup ConfigRequest :
        m = Request("delete", id) /\ m = [kind |-> "delete", id |-> id]
  BY DEF Request, NumberedRequest, Fresh
<1>2. id \in Nat /\ id # 0
  BY DEF Fresh
<1>3. "CONTROL" \in Kinds /\ "DELETEAIDINGDATA" \in Kinds /\ "CONFIG" \in Kinds
  BY DEF Kinds
<1>4. /\ d \in Client /\ d.enabled = c.enabled
      /\ d.queues["DELETEAIDINGDATA"].session = id
      /\ d.queues["DELETEAIDINGDATA"].requests = <<Request("delete", id)>>
      /\ d.queues["CONTROL"] = c.queues["CONTROL"]
      /\ d.queues["CONFIG"] = c.queues["CONFIG"]
  <2>1. d = Restarted(c, "DELETEAIDINGDATA", id, m)
    BY <1>1
  <2>2. Changed(c, d, "DELETEAIDINGDATA", id, <<m>>)
    BY <1>2, <1>3, <2>1, RestartedIs
  <2>3. d.enabled = c.enabled
    BY <2>2 DEF Changed
  <2> QED
    BY <1>1, <1>3, <2>2, <2>3 DEF Changed
<1>5. /\ t[Len(t)].op = "delete" /\ t[Len(t)].id = id /\ ~IsVote(t[Len(t)]) /\ IsNumbered(t[Len(t)])
  BY DEF IsVote, IsNumbered
<1>6. /\ ~Has(q, "delete", id) /\ id # power /\ id # c.queues["CONTROL"].session
      /\ ~Has(q, "enable", id) /\ ~Has(q, "disable", id)
  BY DEF Fresh, VoteNumber, DeleteNumber
<1>7. VotesFit(t, power, Voted(d))
  BY <1>4, <1>5, VotesGrow DEF Together, Voted
<1>8. NumberedOnce(t)
  BY <1>5, <1>6, OnceGrows DEF Together
<1>9. /\ \A n : Has(t, "delete", n) <=> Has(q, "delete", n) \/ n = id
      /\ \A n : Has(t, "enable", n) <=> Has(q, "enable", n)
      /\ \A n : Has(t, "disable", n) <=> Has(q, "disable", n)
  BY <1>5, HasGrows
<1>10. NumbersApart(t, d, power)
  BY <1>4, <1>6, <1>9 DEF Together, NumbersApart, VoteNumber, DeleteNumber
<1>11. AwaitsConfigs(t, d.queues["CONFIG"].requests)
  BY <1>4, <1>5, ConfigsStay, ClientShape DEF Together, RequestsAreAwaited, Kinds
<1>12. RequestsAreAwaited(t, d)
  BY <1>4, <1>6, <1>9, <1>11 DEF Together, RequestsAreAwaited, AwaitsVotes, AwaitsDeletion
<1>13. d.enabled => ~Has(t, "disable", d.queues["CONTROL"].session)
  BY <1>4, <1>9 DEF Together
<1> QED
  BY <1>4, <1>7, <1>8, <1>10, <1>12, <1>13 DEF Together

-----------------------------------------------------------------------------
(* A number is always found: what is in use is finite.                     *)

LEMMA OrderIs ==
  ASSUME NEW order \in Order
  PROVE  /\ order.op \in {"setConfig", "callbacks", "config", "enable", "disable", "delete"}
         /\ IsNumbered(order) => "id" \in DOMAIN order /\ order.id \in Nat \ {0}
         /\ order.op = "config" => order.config \in Configs /\ OfSettings(order.config)
         /\ ~IsNumbered(order) => "id" \notin DOMAIN order
<1>1. CASE order \in PlainOrder
  BY <1>1 DEF PlainOrder, IsNumbered
<1>2. CASE order \in ConfigOrder
  BY <1>2 DEF ConfigOrder, IsNumbered
<1>3. CASE order \in NumberedOrder
  BY <1>3 DEF NumberedOrder, IsNumbered
<1> QED
  BY <1>1, <1>2, <1>3 DEF Order

LEMMA ImagesAreFinite ==
  ASSUME NEW S, IsFiniteSet(S), NEW f, f = [x \in S |-> f[x]]
  PROVE  IsFiniteSet({f[x] : x \in S})
<1> DEFINE T == {f[x] : x \in S}
<1>1. f \in Surjection(S, T)
  BY DEF Surjection
<1> QED
  BY <1>1, FS_Surjection

LEMMA InUseIsFinite ==
  ASSUME ControlTypeOK
  PROVE  IsFiniteSet(InUse)
<1> DEFINE N == {j \in DOMAIN orders : "id" \in DOMAIN orders[j]}
           ids == [i \in N |-> orders[i].id]
           sessions == [k \in {"CONTROL", "DELETEAIDINGDATA"} |-> control.queues[k].session]
<1>1. IsFiniteSet(N)
  <2>1. orders \in Seq(Order) /\ DOMAIN orders = 1 .. Len(orders) /\ Len(orders) \in Nat
    BY DEF ControlTypeOK
  <2>2. IsFiniteSet(1 .. Len(orders))
    BY <2>1, FS_Interval
  <2>3. N \in SUBSET (1 .. Len(orders))
    BY <2>1
  <2> QED
    BY <2>2, <2>3, FS_Subset
<1>2. IsFiniteSet({ids[i] : i \in N})
  <2>1. ids = [i \in N |-> ids[i]]
    OBVIOUS
  <2> HIDE DEF ids, N
  <2> QED
    BY <1>1, <2>1, ImagesAreFinite
<1>3. IsFiniteSet({"CONTROL", "DELETEAIDINGDATA"})
  <2>1. {"CONTROL", "DELETEAIDINGDATA"} = {"CONTROL"} \cup {"DELETEAIDINGDATA"}
    OBVIOUS
  <2>2. IsFiniteSet({"CONTROL"}) /\ IsFiniteSet({"DELETEAIDINGDATA"})
    BY FS_Singleton
  <2> QED
    BY <2>1, <2>2, FS_Union
<1>4. IsFiniteSet({sessions[k] : k \in {"CONTROL", "DELETEAIDINGDATA"}})
  <2>1. sessions = [k \in {"CONTROL", "DELETEAIDINGDATA"} |-> sessions[k]]
    OBVIOUS
  <2> HIDE DEF sessions
  <2> QED
    BY <1>3, <2>1, ImagesAreFinite
<1>5. InUse = ({sessions[k] : k \in {"CONTROL", "DELETEAIDINGDATA"}} \cup {adapter.power})
                \cup {ids[i] : i \in N}
  BY DEF InUse
<1> HIDE DEF ids, sessions, N
<1>6. IsFiniteSet({sessions[k] : k \in {"CONTROL", "DELETEAIDINGDATA"}} \cup {adapter.power})
  BY <1>4, FS_Singleton, FS_Union
<1> QED
  BY <1>2, <1>5, <1>6, FS_Union

LEMMA NewIdIsFresh ==
  ASSUME ControlTypeOK
  PROVE  Fresh(orders, control, adapter.power, NewId)
<1>1. PICK n \in Nat : n = Cardinality(InUse)
  BY InUseIsFinite, FS_CardinalityType
<1>2. \E i \in 1 .. n + 1 : i \notin InUse
  <2> SUFFICES ASSUME \A i \in 1 .. n + 1 : i \in InUse PROVE FALSE
    OBVIOUS
  <2>1. 1 .. n + 1 \in SUBSET InUse
    OBVIOUS
  <2>2. Cardinality(1 .. n + 1) <= n
    BY <1>1, <2>1, InUseIsFinite, FS_Subset
  <2>3. Cardinality(1 .. n + 1) = n + 1
    BY FS_Interval
  <2> QED
    BY <2>2, <2>3
<1>3. NewId \in 1 .. n + 1 /\ NewId \notin InUse
  BY <1>1, <1>2 DEF NewId
<1>4. NewId \in Nat \ {0}
  BY <1>3
<1>5. /\ NewId # adapter.power
      /\ NewId # control.queues["CONTROL"].session
      /\ NewId # control.queues["DELETEAIDINGDATA"].session
  BY <1>3 DEF InUse
<1>6. ASSUME NEW op \in {"enable", "disable", "delete"}
      PROVE  ~Has(orders, op, NewId)
  <2> SUFFICES ASSUME NEW i \in 1 .. Len(orders), orders[i].op = op, orders[i].id = NewId
               PROVE  FALSE
    BY DEF Has
  <2>1. orders[i] \in Order /\ i \in DOMAIN orders
    BY DEF ControlTypeOK
  <2>2. "id" \in DOMAIN orders[i]
    BY <2>1, OrderIs DEF IsNumbered
  <2> QED
    BY <1>3, <2>1, <2>2 DEF InUse
<1> QED
  BY <1>4, <1>5, <1>6 DEF Fresh, VoteNumber, DeleteNumber

-----------------------------------------------------------------------------
(* An order that the adapter takes, and the answer to it.                  *)

Popped(c, k) == [c EXCEPT !.queues[k].requests = Tail(@)]

LEMMA PoppedIs ==
  ASSUME NEW c \in Client, NEW k \in Kinds, c.queues[k].requests # <<>>, NEW d, d = Popped(c, k)
  PROVE  Changed(c, d, k, c.queues[k].session, Tail(c.queues[k].requests))
<1>1. /\ c.queues[k] \in Queue
      /\ c.queues[k].session \in Nat
      /\ c.queues[k].requests \in Seq(NumberedRequest \cup ConfigRequest)
  BY DEF Client, Queue
<1>2. Tail(c.queues[k].requests) \in Seq(NumberedRequest \cup ConfigRequest)
  BY <1>1, HeadTailProperties
<1>3. PICK shorter \in Queue :
        shorter = [session |-> c.queues[k].session, requests |-> Tail(c.queues[k].requests)]
  BY <1>1, <1>2 DEF Queue
<1>4. [c.queues[k] EXCEPT !.requests = Tail(@)] = shorter
  <2>1. PICK s, r : /\ c.queues[k] = [session |-> s, requests |-> r]
                    /\ s = c.queues[k].session /\ r = c.queues[k].requests
    BY <1>1 DEF Queue
  <2>2. PICK u : u = Tail(r)
    OBVIOUS
  <2>3. [session |-> s, requests |-> r].requests = r
    OBVIOUS
  <2>4. [[session |-> s, requests |-> r] EXCEPT !.requests = u] = [session |-> s, requests |-> u]
    OBVIOUS
  <2> QED
    BY <1>3, <2>1, <2>2, <2>3, <2>4, Zenon
<1>5. d = With(c, k, shorter)
  BY <1>4 DEF Popped, Client, With
<1>6. shorter.session = c.queues[k].session /\ shorter.requests = Tail(c.queues[k].requests)
  BY <1>3
<1>7. /\ d \in Client /\ d.last = c.last /\ d.queues[k] = shorter
      /\ \A j \in Kinds : j # k => d.queues[j] = c.queues[j]
  BY <1>5, RequestsChange
<1>8. d.enabled = c.enabled
  BY <1>5, RequestsChange
<1> QED
  BY <1>6, <1>7, <1>8 DEF Changed

LEMMA FirstIs ==
  ASSUME NEW q, NEW t, Shorter(q, t)
  PROVE  q[1] \in Order /\ 1 \in 1 .. Len(q)
<1>1. 1 \in 1 .. Len(q) /\ q \in Seq(Order)
  BY Lengths DEF Shorter
<1> QED
  BY <1>1

LEMMA TakePlain ==
  ASSUME NEW q, NEW t, Shorter(q, t), NEW c \in Client, NEW power, Together(q, c, power),
         q[1].op \in {"setConfig", "callbacks"}
  PROVE  Together(t, c, power)
<1>1. ~IsVote(q[1]) /\ ~IsNumbered(q[1]) /\ q[1].op # "config"
  BY DEF IsVote, IsNumbered
<1>2. VotesFit(t, power, Voted(c))
  BY <1>1, VotesShrink DEF Together
<1>3. NumberedOnce(t)
  BY OnceShrinks DEF Together
<1>4. \A op \in {"enable", "disable", "delete"} : \A id : Has(t, op, id) <=> Has(q, op, id)
  BY <1>1, HasShrinks DEF IsNumbered
<1>5. NumbersApart(t, c, power)
  BY <1>4 DEF Together, NumbersApart, VoteNumber, DeleteNumber
<1>6. AwaitsConfigs(t, c.queues["CONFIG"].requests)
  BY <1>1, ConfigsWait, ClientShape DEF Together, RequestsAreAwaited, Kinds
<1>7. RequestsAreAwaited(t, c)
  BY <1>4, <1>6 DEF Together, RequestsAreAwaited, AwaitsVotes, AwaitsDeletion
<1> QED
  BY <1>2, <1>3, <1>4, <1>5, <1>7 DEF Together

(* A configuration's answer finds its request at the head of the queue.    *)
LEMMA ConfigIsFirst ==
  ASSUME NEW q, NEW t, Shorter(q, t), NEW c \in Client, NEW power, Together(q, c, power),
         q[1].op = "config"
  PROVE  /\ c.queues["CONFIG"].session = ConfigSession
         /\ c.queues["CONFIG"].requests # <<>>
         /\ Head(c.queues["CONFIG"].requests) = [kind |-> "config", config |-> q[1].config]
         /\ AwaitsConfigs(t, Tail(c.queues["CONFIG"].requests))
<1>1. PICK r \in Seq(NumberedRequest \cup ConfigRequest) : r = c.queues["CONFIG"].requests
  BY ClientShape DEF Kinds
<1>2. AwaitsConfigs(q, r)
  BY <1>1 DEF Together, RequestsAreAwaited
<1>3. r # <<>> /\ Head(r) = [kind |-> "config", config |-> q[1].config] /\ AwaitsConfigs(t, Tail(r))
  BY <1>2, ConfigsShrink
<1> QED
  BY <1>1, <1>3 DEF Together, RequestsAreAwaited

LEMMA TakeConfig ==
  ASSUME NEW q, NEW t, Shorter(q, t), NEW c \in Client, NEW power, Together(q, c, power),
         q[1].op = "config", NEW d,
         Changed(c, d, "CONFIG", c.queues["CONFIG"].session, Tail(c.queues["CONFIG"].requests))
  PROVE  Together(t, d, power)
<1>1. ~IsVote(q[1]) /\ ~IsNumbered(q[1])
  BY DEF IsVote, IsNumbered
<1>2. /\ d.queues["CONTROL"] = c.queues["CONTROL"]
      /\ d.queues["DELETEAIDINGDATA"] = c.queues["DELETEAIDINGDATA"]
      /\ d.queues["CONFIG"].session = ConfigSession
      /\ d.queues["CONFIG"].requests = Tail(c.queues["CONFIG"].requests)
  BY ConfigIsFirst DEF Changed, Kinds
<1>3. d.enabled = c.enabled
  BY DEF Changed
<1>4. Voted(d) = Voted(c)
  BY <1>2, <1>3 DEF Voted
<1>5. VotesFit(t, power, Voted(d))
  BY <1>1, <1>4, VotesShrink DEF Together
<1>6. NumberedOnce(t)
  BY OnceShrinks DEF Together
<1>7. \A op \in {"enable", "disable", "delete"} : \A id : Has(t, op, id) <=> Has(q, op, id)
  BY <1>1, HasShrinks DEF IsNumbered
<1>8. NumbersApart(t, d, power)
  BY <1>2, <1>7 DEF Together, NumbersApart, VoteNumber, DeleteNumber
<1>9. AwaitsConfigs(t, d.queues["CONFIG"].requests)
  BY <1>2, ConfigIsFirst
<1>10. RequestsAreAwaited(t, d)
  <2>1. ConfigSession # 0
    BY DEF ConfigSession
  <2> QED
    BY <1>2, <1>7, <1>9, <2>1 DEF Together, RequestsAreAwaited, AwaitsVotes, AwaitsDeletion
<1>11. d.enabled => ~Has(t, "disable", d.queues["CONTROL"].session)
  BY <1>2, <1>3, <1>7 DEF Together
<1> QED
  BY <1>5, <1>6, <1>8, <1>10, <1>11 DEF Together

(* A vote's answer finds its request at the head of the queue, if the      *)
(* queue is still of its session, and no other queue is.                   *)
LEMMA VoteIsFirst ==
  ASSUME NEW q, NEW t, Shorter(q, t), NEW c \in Client, NEW power, Together(q, c, power),
         IsVote(q[1])
  PROVE  /\ q[1].id \in Nat \ {0}
         /\ c.queues["DELETEAIDINGDATA"].session # q[1].id
         /\ c.queues["CONTROL"].session = q[1].id =>
              /\ c.queues["CONTROL"].requests # <<>>
              /\ Head(c.queues["CONTROL"].requests) = Request(q[1].op, q[1].id)
              /\ AwaitsVotes(t, q[1].id, Tail(c.queues["CONTROL"].requests))
<1>1. PICK id \in Nat \ {0} : id = q[1].id
  BY FirstIs, OrderIs DEF IsVote, IsNumbered
<1>2. IsNumbered(q[1]) /\ (q[1].op = "enable" \/ q[1].op = "disable") /\ ~(q[1].op = "enable" /\ q[1].op = "disable")
  BY DEF IsVote, IsNumbered
<1>3. Has(q, q[1].op, id) /\ ~Has(t, q[1].op, id)
  BY <1>1, <1>2, FirstIs, OnceShrinks DEF Together, Has
<1>4. c.queues["DELETEAIDINGDATA"].session # id
  BY <1>2, <1>3 DEF Together, NumbersApart, VoteNumber, DeleteNumber
<1>5. ASSUME c.queues["CONTROL"].session = id
      PROVE  /\ c.queues["CONTROL"].requests # <<>>
             /\ Head(c.queues["CONTROL"].requests) = Request(q[1].op, id)
             /\ AwaitsVotes(t, id, Tail(c.queues["CONTROL"].requests))
  <2>1. PICK r : r = c.queues["CONTROL"].requests
    OBVIOUS
  <2>2. AwaitsVotes(q, id, r)
    BY <1>5, <2>1 DEF Together, RequestsAreAwaited
  <2>3. \A op : op # q[1].op => (Has(t, op, id) <=> Has(q, op, id))
    BY HasShrinks
  <2>4. \A e, f : /\ <<e>> # <<>> /\ <<e, f>> # <<>> /\ Head(<<e>>) = e /\ Head(<<e, f>>) = e
                  /\ Tail(<<e>>) = <<>>
    OBVIOUS
  <2>5. Tail(<<Request("enable", id), Request("disable", id)>>) = <<Request("disable", id)>>
    OBVIOUS
  <2>6. CASE q[1].op = "enable"
    <3>1. Has(q, "enable", id) /\ ~Has(t, "enable", id) /\ (Has(t, "disable", id) <=> Has(q, "disable", id))
      BY <1>3, <2>3, <2>6
    <3>2. CASE Has(q, "disable", id)
      <4>1. r = <<Request("enable", id), Request("disable", id)>>
        BY <2>2, <3>1, <3>2 DEF AwaitsVotes
      <4> QED
        BY <2>1, <2>4, <2>5, <2>6, <3>1, <3>2, <4>1, Zenon DEF AwaitsVotes
    <3>3. CASE ~Has(q, "disable", id)
      <4>1. r = <<Request("enable", id)>>
        BY <2>2, <3>1, <3>3 DEF AwaitsVotes
      <4> QED
        BY <2>1, <2>4, <2>6, <3>1, <3>3, <4>1, Zenon DEF AwaitsVotes
    <3> QED
      BY <3>2, <3>3
  <2>7. CASE q[1].op = "disable"
    <3>1. Has(q, "disable", id) /\ ~Has(t, "disable", id) /\ ~Has(t, "enable", id)
      BY <1>1, <1>3, <2>7, OnceShrinks DEF Together
    <3>2. ~Has(q, "enable", id)
      BY <2>3, <2>7, <3>1
    <3>3. r = <<Request("disable", id)>>
      BY <2>2, <3>1, <3>2 DEF AwaitsVotes
    <3> QED
      BY <2>1, <2>4, <2>7, <3>1, <3>3, Zenon DEF AwaitsVotes
  <2> QED
    BY <1>2, <2>6, <2>7
<1> QED
  BY <1>1, <1>4, <1>5

LEMMA TakeVote ==
  ASSUME NEW q, NEW t, Shorter(q, t), NEW c \in Client, NEW power, Together(q, c, power),
         IsVote(q[1]), NEW d,
         \/ d = c /\ c.queues["CONTROL"].session # q[1].id
         \/ /\ c.queues["CONTROL"].session = q[1].id
            /\ Changed(c, d, "CONTROL", c.queues["CONTROL"].session,
                       Tail(c.queues["CONTROL"].requests))
  PROVE  Together(t, d, Given(q[1]))
<1>1. PICK id \in Nat \ {0} : id = q[1].id
  BY VoteIsFirst
<1>2. /\ d.queues["CONTROL"].session = c.queues["CONTROL"].session
      /\ d.queues["DELETEAIDINGDATA"] = c.queues["DELETEAIDINGDATA"]
      /\ d.queues["CONFIG"] = c.queues["CONFIG"]
  BY DEF Changed, Kinds
<1>3. d.enabled = c.enabled
  BY DEF Changed
<1>4. Voted(d) = Voted(c)
  BY <1>2, <1>3 DEF Voted
<1>5. VotesFit(t, Given(q[1]), Voted(d))
  BY <1>4, VotesShrink DEF Together
<1>6. NumberedOnce(t)
  BY OnceShrinks DEF Together
<1>7. q[1].op # "delete" /\ q[1].op # "config" /\ (q[1].op = "enable" \/ q[1].op = "disable")
  BY DEF IsVote
<1>8. \A op, n : Has(t, op, n) \/ (q[1].op = op /\ id = n) <=> Has(q, op, n)
  BY <1>1, HasShrinks
<1>9. \A n \in Nat \ {0} : VoteNumber(t, d, Given(q[1]), n) => VoteNumber(q, c, power, n)
  <2>1. Given(q[1]) = 0 \/ Given(q[1]) = id
    BY <1>1 DEF Given
  <2> QED
    BY <1>2, <1>7, <1>8, <2>1 DEF VoteNumber
<1>10. NumbersApart(t, d, Given(q[1]))
  BY <1>2, <1>7, <1>8, <1>9 DEF Together, NumbersApart, DeleteNumber
<1>11. AwaitsConfigs(t, d.queues["CONFIG"].requests)
  BY <1>2, <1>7, ConfigsWait, ClientShape DEF Together, RequestsAreAwaited, Kinds
<1>12. AwaitsVotes(t, d.queues["CONTROL"].session, d.queues["CONTROL"].requests)
  <2>1. CASE c.queues["CONTROL"].session # q[1].id
    <3>1. d = c
      BY <2>1
    <3>2. \A op : Has(t, op, d.queues["CONTROL"].session) <=> Has(q, op, d.queues["CONTROL"].session)
      BY <1>1, <1>8, <2>1, <3>1
    <3> QED
      BY <3>1, <3>2 DEF Together, RequestsAreAwaited, AwaitsVotes
  <2>2. CASE c.queues["CONTROL"].session = q[1].id
    <3>1. d.queues["CONTROL"].requests = Tail(c.queues["CONTROL"].requests)
      BY <2>2 DEF Changed
    <3>2. AwaitsVotes(t, q[1].id, Tail(c.queues["CONTROL"].requests))
      BY <2>2, VoteIsFirst
    <3> QED
      BY <1>2, <2>2, <3>1, <3>2
  <2> QED
    BY <2>1, <2>2
<1>13. AwaitsDeletion(t, d.queues["DELETEAIDINGDATA"].session, d.queues["DELETEAIDINGDATA"].requests)
  BY <1>2, <1>7, <1>8 DEF Together, RequestsAreAwaited, AwaitsDeletion
<1>14. RequestsAreAwaited(t, d)
  BY <1>2, <1>11, <1>12, <1>13 DEF Together, RequestsAreAwaited
<1>15. d.enabled => ~Has(t, "disable", d.queues["CONTROL"].session)
  BY <1>2, <1>3, <1>8 DEF Together
<1> QED
  BY <1>5, <1>6, <1>10, <1>14, <1>15 DEF Together

LEMMA DeletionIsFirst ==
  ASSUME NEW q, NEW t, Shorter(q, t), NEW c \in Client, NEW power, Together(q, c, power),
         q[1].op = "delete"
  PROVE  /\ q[1].id \in Nat \ {0}
         /\ c.queues["CONTROL"].session # q[1].id
         /\ c.queues["DELETEAIDINGDATA"].session = q[1].id =>
              /\ c.queues["DELETEAIDINGDATA"].requests # <<>>
              /\ Head(c.queues["DELETEAIDINGDATA"].requests) = Request("delete", q[1].id)
              /\ AwaitsDeletion(t, q[1].id, Tail(c.queues["DELETEAIDINGDATA"].requests))
<1>1. PICK id \in Nat \ {0} : id = q[1].id
  BY FirstIs, OrderIs DEF IsNumbered
<1>2. Has(q, "delete", id) /\ ~Has(t, "delete", id)
  BY <1>1, FirstIs, OnceShrinks DEF Together, Has, IsNumbered
<1>3. c.queues["CONTROL"].session # id
  BY <1>2 DEF Together, NumbersApart, VoteNumber, DeleteNumber
<1>4. ASSUME c.queues["DELETEAIDINGDATA"].session = id
      PROVE  /\ c.queues["DELETEAIDINGDATA"].requests # <<>>
             /\ Head(c.queues["DELETEAIDINGDATA"].requests) = Request("delete", id)
             /\ AwaitsDeletion(t, id, Tail(c.queues["DELETEAIDINGDATA"].requests))
  <2>1. c.queues["DELETEAIDINGDATA"].requests = <<Request("delete", id)>>
    BY <1>2, <1>4 DEF Together, RequestsAreAwaited, AwaitsDeletion
  <2>2. \A e : <<e>> # <<>> /\ Head(<<e>>) = e /\ Tail(<<e>>) = <<>>
    OBVIOUS
  <2> QED
    BY <1>2, <2>1, <2>2, Zenon DEF AwaitsDeletion
<1> QED
  BY <1>1, <1>3, <1>4

LEMMA TakeDelete ==
  ASSUME NEW q, NEW t, Shorter(q, t), NEW c \in Client, NEW power, Together(q, c, power),
         q[1].op = "delete", NEW d,
         \/ d = c /\ c.queues["DELETEAIDINGDATA"].session # q[1].id
         \/ /\ c.queues["DELETEAIDINGDATA"].session = q[1].id
            /\ Changed(c, d, "DELETEAIDINGDATA", c.queues["DELETEAIDINGDATA"].session,
                       Tail(c.queues["DELETEAIDINGDATA"].requests))
  PROVE  Together(t, d, power)
<1>1. PICK id \in Nat \ {0} : id = q[1].id
  BY DeletionIsFirst
<1>2. /\ d.queues["DELETEAIDINGDATA"].session = c.queues["DELETEAIDINGDATA"].session
      /\ d.queues["CONTROL"] = c.queues["CONTROL"]
      /\ d.queues["CONFIG"] = c.queues["CONFIG"]
  BY DEF Changed, Kinds
<1>3. d.enabled = c.enabled
  BY DEF Changed
<1>4. Voted(d) = Voted(c)
  BY <1>2, <1>3 DEF Voted
<1>5. q[1].op # "enable" /\ q[1].op # "disable" /\ q[1].op # "config" /\ ~IsVote(q[1])
  BY DEF IsVote
<1>6. VotesFit(t, power, Voted(d))
  BY <1>4, <1>5, VotesShrink DEF Together
<1>7. NumberedOnce(t)
  BY OnceShrinks DEF Together
<1>8. \A op, n : Has(t, op, n) \/ (q[1].op = op /\ id = n) <=> Has(q, op, n)
  BY <1>1, HasShrinks
<1>9. NumbersApart(t, d, power)
  BY <1>2, <1>5, <1>8 DEF Together, NumbersApart, VoteNumber, DeleteNumber
<1>10. AwaitsConfigs(t, d.queues["CONFIG"].requests)
  BY <1>2, <1>5, ConfigsWait, ClientShape DEF Together, RequestsAreAwaited, Kinds
<1>11. AwaitsDeletion(t, d.queues["DELETEAIDINGDATA"].session, d.queues["DELETEAIDINGDATA"].requests)
  <2>1. CASE c.queues["DELETEAIDINGDATA"].session # q[1].id
    <3>1. d = c
      BY <2>1
    <3>2. \A op : Has(t, op, d.queues["DELETEAIDINGDATA"].session)
                    <=> Has(q, op, d.queues["DELETEAIDINGDATA"].session)
      BY <1>1, <1>8, <2>1, <3>1
    <3> QED
      BY <3>1, <3>2 DEF Together, RequestsAreAwaited, AwaitsDeletion
  <2>2. CASE c.queues["DELETEAIDINGDATA"].session = q[1].id
    <3>1. d.queues["DELETEAIDINGDATA"].requests = Tail(c.queues["DELETEAIDINGDATA"].requests)
      BY <2>2 DEF Changed
    <3>2. AwaitsDeletion(t, q[1].id, Tail(c.queues["DELETEAIDINGDATA"].requests))
      BY <2>2, DeletionIsFirst
    <3> QED
      BY <1>2, <2>2, <3>1, <3>2
  <2> QED
    BY <2>1, <2>2
<1>12. AwaitsVotes(t, d.queues["CONTROL"].session, d.queues["CONTROL"].requests)
  BY <1>2, <1>5, <1>8 DEF Together, RequestsAreAwaited, AwaitsVotes
<1>13. RequestsAreAwaited(t, d)
  BY <1>2, <1>10, <1>11, <1>12 DEF Together, RequestsAreAwaited
<1>14. d.enabled => ~Has(t, "disable", d.queues["CONTROL"].session)
  BY <1>2, <1>3, <1>8 DEF Together
<1> QED
  BY <1>6, <1>7, <1>9, <1>13, <1>14 DEF Together

-----------------------------------------------------------------------------
(* The callbacks, and what the settings will be.                           *)

LEMMA CallbacksGrow ==
  ASSUME NEW q, NEW t, Longer(q, t), NEW callbacks, CallbacksFirst(q, callbacks),
         t[Len(t)].op \in {"setConfig", "callbacks"} \/ Called(q, callbacks)
  PROVE  /\ CallbacksFirst(t, callbacks)
         /\ Called(q, callbacks) \/ t[Len(t)].op = "callbacks" => Called(t, callbacks)
<1>1. /\ Len(q) \in Nat /\ Len(t) \in Nat /\ Len(t) = Len(q) + 1
      /\ \A i : i \in 1 .. Len(t) <=> i \in 1 .. Len(q) \/ i = Len(t)
      /\ \A i \in 1 .. Len(q) : t[i] = q[i]
  BY Lengths
<1>2. \A j \in 1 .. Len(t) : \A i \in 1 .. (j - 1) : i \in 1 .. Len(q)
  BY <1>1
<1>3. \A i : i \in 1 .. Len(q) <=> i \in 1 .. (Len(t) - 1)
  BY <1>1
<1>4. ASSUME NEW j \in 1 .. Len(t), t[j].op \notin {"setConfig", "callbacks"}
      PROVE  callbacks \/ \E i \in 1 .. (j - 1) : t[i].op = "callbacks"
  <2>1. CASE j \in 1 .. Len(q)
    BY <1>1, <1>2, <1>4, <2>1 DEF CallbacksFirst
  <2>2. CASE j = Len(t)
    BY <1>1, <1>3, <1>4, <2>2 DEF Called
  <2> QED
    BY <1>1, <2>1, <2>2
<1>5. CallbacksFirst(t, callbacks)
  BY <1>4 DEF CallbacksFirst
<1>6. Called(q, callbacks) \/ t[Len(t)].op = "callbacks" => Called(t, callbacks)
  BY <1>1 DEF Called
<1> QED
  BY <1>5, <1>6

LEMMA CallbacksShrink ==
  ASSUME NEW q, NEW t, Shorter(q, t), NEW callbacks, CallbacksFirst(q, callbacks),
         NEW after, callbacks => after, q[1].op = "callbacks" => after
  PROVE  /\ CallbacksFirst(t, after)
         /\ Called(q, callbacks) => Called(t, after)
         /\ q[1].op \notin {"setConfig", "callbacks"} => callbacks
<1>1. /\ Len(q) \in Nat /\ Len(t) \in Nat /\ Len(q) = Len(t) + 1 /\ 1 \in 1 .. Len(q)
      /\ \A i \in 1 .. Len(t) : i + 1 \in 1 .. Len(q) /\ t[i] = q[i + 1]
      /\ \A i \in 1 .. Len(q) : i # 1 => i - 1 \in 1 .. Len(t) /\ q[i] = t[i - 1]
  BY Lengths
<1>2. ASSUME NEW j \in 1 .. Len(t), t[j].op \notin {"setConfig", "callbacks"}
      PROVE  after \/ \E i \in 1 .. (j - 1) : t[i].op = "callbacks"
  <2>1. j + 1 \in 1 .. Len(q) /\ q[j + 1].op \notin {"setConfig", "callbacks"} /\ (j + 1) - 1 = j
    BY <1>1, <1>2
  <2>2. callbacks \/ \E i \in 1 .. j : q[i].op = "callbacks"
    BY <2>1 DEF CallbacksFirst
  <2>3. ASSUME NEW i \in 1 .. j, q[i].op = "callbacks", i # 1
        PROVE  \E h \in 1 .. (j - 1) : t[h].op = "callbacks"
    <3>1. i \in 1 .. Len(q) /\ i - 1 \in 1 .. (j - 1)
      BY <1>1, <2>3
    <3> QED
      BY <1>1, <2>3, <3>1
  <2> QED
    BY <2>2, <2>3
<1>3. CallbacksFirst(t, after)
  BY <1>2 DEF CallbacksFirst
<1>4. Called(q, callbacks) => Called(t, after)
  <2>1. ASSUME NEW i \in 1 .. Len(q), q[i].op = "callbacks", i # 1
        PROVE  \E h \in 1 .. Len(t) : t[h].op = "callbacks"
    BY <1>1, <2>1
  <2> QED
    BY <2>1 DEF Called
<1>5. q[1].op \notin {"setConfig", "callbacks"} => callbacks
  BY <1>1 DEF CallbacksFirst
<1> QED
  BY <1>3, <1>4, <1>5

LEMMA WillHaveGrows ==
  ASSUME NEW q, NEW t, Longer(q, t), NEW i, NEW held, NEW wish, NEW new,
         \/ Says(t[Len(t)], i) /\ new = t[Len(t)].config[i]
         \/ ~Says(t[Len(t)], i) /\ new = wish /\ WillHave(q, i, held, wish)
  PROVE  WillHave(t, i, held, new)
<1>1. PICK n \in Nat : n = Len(t) /\ n \in 1 .. n /\ (n + 1) .. n = {}
  BY Lengths
<1>2. CASE Says(t[n], i)
  BY <1>1, <1>2 DEF WillHave
<1>3. CASE ~Says(t[n], i)
  <2>1. WillHave(q, i, held, new) /\ Len(q) \in Nat /\ n = Len(q) + 1
    BY <1>1, <1>3, Lengths
  <2>2. \A j : j \in 1 .. n <=> j \in 1 .. Len(q) \/ j = n
    BY <2>1
  <2>3. \A j \in 1 .. Len(q) : t[j] = q[j]
    BY Lengths
  <2>4. CASE new = held /\ \A j \in 1 .. Len(q) : ~Says(q[j], i)
    BY <1>1, <1>3, <2>2, <2>3, <2>4 DEF WillHave
  <2>5. ASSUME NEW k \in 1 .. Len(q), Says(q[k], i), q[k].config[i] = new,
               \A j \in (k + 1) .. Len(q) : ~Says(q[j], i)
        PROVE  WillHave(t, i, held, new)
    <3>1. \A j \in (k + 1) .. n : (j \in (k + 1) .. Len(q) /\ j \in 1 .. Len(q)) \/ j = n
      BY <2>1
    <3>2. \A j \in (k + 1) .. n : ~Says(t[j], i)
      BY <1>3, <2>3, <2>5, <3>1
    <3> QED
      BY <1>1, <2>2, <2>3, <2>5, <3>2 DEF WillHave
  <2> QED
    BY <2>1, <2>4, <2>5 DEF WillHave
<1> QED
  BY <1>2, <1>3

LEMMA WillHaveShrinks ==
  ASSUME NEW q, NEW t, Shorter(q, t), NEW i, NEW held, NEW wish, NEW after,
         WillHave(q, i, held, wish),
         \/ Says(q[1], i) /\ after = q[1].config[i]
         \/ ~Says(q[1], i) /\ after = held
  PROVE  WillHave(t, i, after, wish)
<1>1. /\ Len(q) \in Nat /\ Len(t) \in Nat /\ Len(q) = Len(t) + 1 /\ 1 \in 1 .. Len(q)
      /\ \A j \in 1 .. Len(t) : j + 1 \in 1 .. Len(q) /\ t[j] = q[j + 1]
  BY Lengths
<1>2. CASE held = wish /\ \A j \in 1 .. Len(q) : ~Says(q[j], i)
  BY <1>1, <1>2 DEF WillHave
<1>3. ASSUME NEW k \in 1 .. Len(q), Says(q[k], i), q[k].config[i] = wish,
             \A j \in (k + 1) .. Len(q) : ~Says(q[j], i)
      PROVE  WillHave(t, i, after, wish)
  <2>1. CASE k = 1
    <3>1. \A j \in 1 .. Len(t) : j + 1 \in (1 + 1) .. Len(q)
      BY <1>1
    <3> QED
      BY <1>1, <1>3, <2>1, <3>1 DEF WillHave
  <2>2. CASE k # 1
    <3>1. PICK h \in 1 .. Len(t) : h + 1 = k /\ t[h] = q[k]
      <4>1. k - 1 \in 1 .. Len(t) /\ (k - 1) + 1 = k
        BY <1>1, <2>2
      <4> QED
        BY <1>1, <4>1
    <3>2. \A j \in (h + 1) .. Len(t) : j \in 1 .. Len(t) /\ j + 1 \in (k + 1) .. Len(q)
      BY <1>1, <3>1
    <3>3. \A j \in (h + 1) .. Len(t) : ~Says(t[j], i)
      BY <1>1, <1>3, <3>2
    <3> QED
      BY <1>3, <3>1, <3>3 DEF WillHave
  <2> QED
    BY <2>1, <2>2
<1> QED
  BY <1>2, <1>3 DEF WillHave

LEMMA CodesAreRead ==
  /\ \A s \in Settings : FromCode(ToCode(s)) = s
  /\ \A c \in {ToCode(s) : s \in Settings} \cup {UnknownCode} : FromCode(c) \in Settings
  BY SettingsAssumption DEF FromCode, ToCode, UnknownCode

-----------------------------------------------------------------------------
(* The parts of a step.                                                    *)

ControlInv == ControlTypeOK /\ VotesInv /\ SettingsInv

Asked == [wish : [ConfigItems -> Values], missed : SUBSET ConfigItems,
          crossed : BOOLEAN, refused : BOOLEAN]
Engine == [up : BOOLEAN, set : [ConfigItems -> Values \cup {Unset, NoLock}]]
Codes == {ToCode(s) : s \in Settings} \cup {UnknownCode}
Adapter == [callbacks : BOOLEAN, power : Nat, inject : BOOLEAN, url : Values, host : Values,
            conf : [Stored -> Codes]]
Gnss == [api : BOOLEAN, pending : {c \in Configs : OfSettings(c)}]

LEMMA StateShape ==
  ControlTypeOK <=> /\ gnss \in Gnss /\ control \in Client /\ adapter \in Adapter
                    /\ engine \in Engine /\ orders \in Seq(Order) /\ asked \in Asked
  BY DEF ControlTypeOK, Gnss, Client, Adapter, Codes, Engine, Asked

LEMMA StateShapeNext ==
  ControlTypeOK' <=> /\ gnss' \in Gnss /\ control' \in Client /\ adapter' \in Adapter
                     /\ engine' \in Engine /\ orders' \in Seq(Order) /\ asked' \in Asked
  BY DEF ControlTypeOK, Gnss, Client, Adapter, Codes, Engine, Asked

LEMMA HandlingTakes ==
  ASSUME ControlTypeOK, NEW op, Handling(op)
  PROVE  /\ Shorter(orders, orders') /\ Head(orders) = orders[1] /\ orders[1].op = op
         /\ orders[1] \in Order /\ orders' \in Seq(Order)
<1>1. orders \in Seq(Order) /\ orders # <<>> /\ Head(orders).op = op /\ orders' = Tail(orders)
  BY StateShape DEF Handling
<1>2. Shorter(orders, Tail(orders)) /\ Head(orders) = orders[1] /\ Head(orders) \in Order
  BY <1>1, TailIsShorter
<1> QED
  BY <1>1, <1>2 DEF Shorter

(* What an answer that finds its request does.                             *)
Reported(missed) ==
  /\ asked' \in Asked /\ asked'.wish = asked.wish /\ asked'.missed = missed
  /\ ~asked'.crossed /\ ~asked'.refused

LEMMA Answered ==
  ASSUME ControlTypeOK, ~asked.refused, ~asked.crossed, adapter.callbacks,
         NEW answer, NEW missed \in SUBSET ConfigItems, Answer(answer, FALSE, missed),
         NEW k \in Kinds, \A j \in QueueFor(answer) : j = k,
         k \in QueueFor(answer) => /\ control.queues[k].requests # <<>>
                                   /\ Head(control.queues[k].requests) = answer
  PROVE  /\ k \in QueueFor(answer) => control' = Popped(control, k)
         /\ k \notin QueueFor(answer) => control' = control
         /\ Reported(missed)
<1>1. asked \in Asked
  BY StateShape
<1>2. CASE k \in QueueFor(answer)
  <2>1. {j \in QueueFor(answer) : control.queues[j].requests # <<>>} = {k}
    BY <1>2
  <2>2. /\ control' = [control EXCEPT !.queues[k].requests = Tail(@)]
        /\ asked' = [asked EXCEPT !.crossed = @ \/ Head(control.queues[k].requests) # answer,
                                  !.refused = @ \/ FALSE, !.missed = missed]
    BY <2>1 DEF Answer
  <2>3. control' = Popped(control, k)
    BY <2>2 DEF Popped
  <2>4. asked' = [asked EXCEPT !.crossed = FALSE, !.refused = FALSE, !.missed = missed]
    BY <1>2, <2>2
  <2> QED
    BY <1>1, <1>2, <2>3, <2>4 DEF Reported, Asked
<1>3. CASE k \notin QueueFor(answer)
  <2>1. {j \in QueueFor(answer) : control.queues[j].requests # <<>>} = {}
    BY <1>3
  <2>2. /\ control' = control
        /\ asked' = [asked EXCEPT !.refused = @ \/ FALSE, !.missed = missed]
    BY <2>1 DEF Answer
  <2>3. asked' = [asked EXCEPT !.refused = FALSE, !.missed = missed]
    BY <2>2
  <2> QED
    BY <1>1, <1>3, <2>2, <2>3 DEF Reported, Asked
<1> QED
  BY <1>2, <1>3

(* The engine takes no item but those sent.                                *)
LEMMA EngineTakes ==
  ASSUME NEW items, NEW taken \in Taken(items)
  PROVE  taken \subseteq items
  BY DEF Taken

LEMMA EngineSet ==
  ASSUME engine \in Engine, NEW items \in SUBSET ConfigItems, NEW value,
         \A i \in items : value[i] \in Values \cup {Unset, NoLock}, engine' = Set(items, value)
  PROVE  /\ engine' \in Engine
         /\ \A i \in items : engine'.set[i] = value[i]
         /\ \A i \in ConfigItems \ items : engine'.set[i] = engine.set[i]
<1>1. engine.set \in [ConfigItems -> Values \cup {Unset, NoLock}]
  BY DEF Engine
<1> DEFINE m == [i \in items |-> value[i]]
           new == Over(m, engine.set)
<1>2. new \in [ConfigItems -> Values \cup {Unset, NoLock}]
  BY <1>1 DEF Over
<1>3. /\ \A i \in items : new[i] = value[i]
      /\ \A i \in ConfigItems \ items : new[i] = engine.set[i]
  BY <1>1 DEF Over
<1>4. engine' = [engine EXCEPT !.set = new]
  BY DEF Set
<1> HIDE DEF new
<1>5. engine' \in Engine /\ engine'.set = new
  BY <1>2, <1>4 DEF Engine
<1> QED
  BY <1>3, <1>5

(* An order that is no configuration leaves the wishes to be kept.         *)
LEMMA WishesWait ==
  ASSUME WishesAreKept, gnss' = gnss, adapter'.conf = adapter.conf,
         adapter'.inject = adapter.inject, asked'.wish = asked.wish,
         \/ orders' = orders
         \/ Shorter(orders, orders') /\ orders[1].op # "config"
         \/ Longer(orders, orders') /\ orders'[Len(orders')].op # "config"
  PROVE  WishesAreKept'
<1>1. \A i \in Stored :
        WillHave(orders, i, FromCode(adapter.conf[i]), asked.wish[i]) =>
          WillHave(orders', i, FromCode(adapter.conf[i]), asked.wish[i])
  <2> SUFFICES ASSUME NEW i \in Stored,
                      WillHave(orders, i, FromCode(adapter.conf[i]), asked.wish[i])
               PROVE  WillHave(orders', i, FromCode(adapter.conf[i]), asked.wish[i])
    OBVIOUS
  <2>1. CASE orders' = orders
    BY <2>1
  <2>2. CASE Shorter(orders, orders') /\ orders[1].op # "config"
    BY <2>2, WillHaveShrinks DEF Says
  <2>3. CASE Longer(orders, orders') /\ orders'[Len(orders')].op # "config"
    BY <2>3, WillHaveGrows DEF Says
  <2> QED
    BY <2>1, <2>2, <2>3
<1>2. ASSUME gnss.api, NEW i \in Stored, i = Injected => adapter'.inject
      PROVE  WillHave(orders', i, FromCode(adapter'.conf[i]), asked'.wish[i])
  BY <1>1, <1>2 DEF WishesAreKept
<1>3. ASSUME ~gnss.api, NEW i \in Stored
      PROVE  asked'.wish[i] = IF i \in DOMAIN gnss'.pending THEN gnss'.pending[i]
                              ELSE FromCode(adapter'.conf[i])
  BY <1>3 DEF WishesAreKept
<1> QED
  BY <1>2, <1>3 DEF WishesAreKept

-----------------------------------------------------------------------------
(* The adapter's steps.                                                    *)

LEMMA CallbacksStill ==
  ASSUME CallbacksComeFirst, Shorter(orders, orders'), gnss' = gnss, control'.last = control.last,
         adapter.callbacks => adapter'.callbacks,
         orders[1].op = "callbacks" => adapter'.callbacks
  PROVE  /\ CallbacksComeFirst'
         /\ orders[1].op \notin {"setConfig", "callbacks"} => adapter.callbacks
<1>1. /\ CallbacksFirst(orders', adapter'.callbacks)
      /\ Called(orders, adapter.callbacks) => Called(orders', adapter'.callbacks)
      /\ orders[1].op \notin {"setConfig", "callbacks"} => adapter.callbacks
  BY CallbacksShrink DEF CallbacksComeFirst
<1>2. ASSUME ~gnss.api, NEW j \in 1 .. Len(orders')
      PROVE  orders'[j].op = "setConfig"
  BY <1>2, Lengths DEF CallbacksComeFirst
<1> QED
  BY <1>1, <1>2 DEF CallbacksComeFirst

LEMMA LastStays ==
  ASSUME LastIsWished, control'.last = control.last, asked'.wish = asked.wish
  PROVE  LastIsWished'
  BY DEF LastIsWished

LEMMA SetControlCallbacksHolds ==
  ASSUME ControlInv, SetControlCallbacks
  PROVE  ControlInv'
<1> USE DEF ControlInv, VotesInv, SettingsInv
<1>1. /\ Shorter(orders, orders') /\ orders[1].op = "callbacks" /\ orders' \in Seq(Order)
      /\ gnss' = gnss /\ control' = control /\ engine' = engine /\ asked' = asked
      /\ adapter' = [adapter EXCEPT !.callbacks = TRUE]
  BY HandlingTakes DEF SetControlCallbacks
<1>2. /\ adapter' \in Adapter /\ adapter'.power = adapter.power /\ adapter'.conf = adapter.conf
      /\ adapter'.inject = adapter.inject
  BY <1>1, StateShape DEF Adapter
<1>3. adapter'.callbacks
  BY <1>1, StateShape DEF Adapter
<1>4. ControlTypeOK'
  BY <1>1, <1>2, StateShape, StateShapeNext
<1>5. Together(orders', control', adapter'.power)
  BY <1>1, <1>2, TakePlain, StateShape
<1>6. CallbacksComeFirst'
  BY <1>1, <1>3, CallbacksStill
<1>7. EngineIsSet'
  BY <1>1, <1>2 DEF EngineIsSet
<1>8. WishesAreKept'
  BY <1>1, <1>2, WishesWait
<1>9. LastIsWished'
  BY <1>1, LastStays
<1> QED
  BY <1>1, <1>4, <1>5, <1>6, <1>7, <1>8, <1>9

(* A vote that is taken, and its answer.                                   *)
LEMMA VoteIsAnswered ==
  ASSUME ControlInv, NEW op \in {"enable", "disable"}, Handling(op), gnss' = gnss,
         NEW power, power = Given(orders[1]), NEW lock, lock \in Settings \cup {NoLock},
         Vote(op, Head(orders).id, power, lock)
  PROVE  /\ ControlTypeOK' /\ VotesInv' /\ WishesAreKept' /\ LastIsWished'
         /\ adapter'.power = power /\ adapter'.conf = adapter.conf
         /\ adapter'.inject = adapter.inject
         /\ \A i \in Stored \ asked'.missed :
              engine'.set[i] = IF i = "lock" THEN lock ELSE engine.set[i]
         /\ asked.missed \ {"lock"} \subseteq asked'.missed /\ asked'.missed \subseteq asked.missed \cup {"lock"}
<1> USE DEF ControlInv, VotesInv, SettingsInv
<1>1. /\ Shorter(orders, orders') /\ Head(orders) = orders[1] /\ orders[1].op = op
      /\ orders' \in Seq(Order)
  BY HandlingTakes
<1>2. PICK id : id = orders[1].id
  OBVIOUS
<1>3. PICK taken \in Taken({"lock"}) :
        /\ engine' = Set(taken, [i \in taken |-> lock])
        /\ adapter' = [adapter EXCEPT !.power = power]
        /\ Answer([kind |-> op, id |-> id], FALSE, StillMissed({"lock"}, taken))
  BY <1>1, <1>2 DEF Vote
<1>4. IsVote(orders[1]) /\ orders[1].op \notin {"setConfig", "callbacks"} /\ orders[1].op # "config"
  BY <1>1 DEF IsVote
<1>5. id \in Nat \ {0}
  BY <1>1, <1>2, <1>4, VoteIsFirst, StateShape
<1>6. power \in Nat
  BY <1>2, <1>5 DEF Given
<1>7. /\ adapter' \in Adapter /\ adapter'.power = power /\ adapter'.conf = adapter.conf
      /\ adapter'.inject = adapter.inject
  BY <1>3, <1>6, StateShape DEF Adapter
<1>8. adapter'.callbacks = adapter.callbacks
  BY <1>3, StateShape DEF Adapter
<1>9. taken \subseteq {"lock"} /\ {"lock"} \subseteq ConfigItems
  BY <1>3, EngineTakes DEF ConfigItems
<1>10. PICK missed \in SUBSET ConfigItems :
         missed = StillMissed({"lock"}, taken) /\ missed = (asked.missed \cup {"lock"}) \ taken
  BY <1>9, StateShape DEF StillMissed, Asked
<1>11. adapter.callbacks
  <2>1. orders[1].op # "callbacks"
    BY <1>4
  <2>2. CallbacksFirst(orders, adapter.callbacks)
    BY DEF CallbacksComeFirst
  <2> QED
    BY <1>1, <1>4, <2>1, <2>2, CallbacksShrink
<1>12. PICK answer : answer = [kind |-> op, id |-> id] /\ answer = Request(op, id)
  BY DEF Request
<1>13. \A j : j \in QueueFor(answer) <=>
                 j \in {"CONTROL", "DELETEAIDINGDATA"} /\ control.queues[j].session = id
  BY <1>12 DEF QueueFor
<1>14. control.queues["DELETEAIDINGDATA"].session # id
  BY <1>1, <1>2, <1>4, VoteIsFirst, StateShape
<1>15. "CONTROL" \in QueueFor(answer) <=> control.queues["CONTROL"].session = id
  BY <1>13
<1>16. control.queues["CONTROL"].session = id =>
         /\ control.queues["CONTROL"].requests # <<>>
         /\ Head(control.queues["CONTROL"].requests) = answer
  BY <1>1, <1>2, <1>4, <1>12, VoteIsFirst, StateShape
<1>17. \A j \in QueueFor(answer) : j = "CONTROL"
  BY <1>13, <1>14
<1>18. Answer(answer, FALSE, missed)
  BY <1>3, <1>10, <1>12
<1>19. "CONTROL" \in Kinds
  BY DEF Kinds
<1>20. /\ control.queues["CONTROL"].session = id => control' = Popped(control, "CONTROL")
       /\ control.queues["CONTROL"].session # id => control' = control
       /\ Reported(missed)
  BY <1>11, <1>15, <1>16, <1>17, <1>18, <1>19, Answered
<1>21. \/ control' = control /\ control.queues["CONTROL"].session # orders[1].id
       \/ /\ control.queues["CONTROL"].session = orders[1].id
          /\ Changed(control, control', "CONTROL", control.queues["CONTROL"].session,
                     Tail(control.queues["CONTROL"].requests))
  BY <1>2, <1>16, <1>19, <1>20, PoppedIs, StateShape
<1>22. Together(orders', control', adapter'.power)
  BY <1>1, <1>4, <1>7, <1>21, TakeVote, StateShape
<1>23. control' \in Client /\ control'.last = control.last
  BY <1>21, StateShape DEF Changed
<1>24. asked' \in Asked /\ asked'.wish = asked.wish /\ asked'.missed = missed
       /\ ~asked'.crossed /\ ~asked'.refused
  BY <1>20 DEF Reported
<1>25. CallbacksComeFirst'
  BY <1>1, <1>4, <1>8, <1>23, CallbacksStill
<1>26. /\ engine' \in Engine
       /\ \A i \in taken : engine'.set[i] = lock
       /\ \A i \in ConfigItems \ taken : engine'.set[i] = engine.set[i]
  <2>1. PICK value : value = [i \in taken |-> lock]
    OBVIOUS
  <2>2. \A i \in taken : value[i] \in Values \cup {Unset, NoLock} /\ value[i] = lock
    BY <2>1 DEF Values
  <2>3. engine' = Set(taken, value) /\ taken \in SUBSET ConfigItems
    BY <1>3, <1>9, <2>1
  <2> QED
    BY <2>2, <2>3, EngineSet, StateShape
<1>27. ControlTypeOK'
  BY <1>1, <1>7, <1>23, <1>24, <1>26, StateShape, StateShapeNext
<1>28. WishesAreKept'
  BY <1>1, <1>4, <1>7, <1>24, WishesWait
<1>29. LastIsWished'
  BY <1>23, <1>24, LastStays
<1>30. \A i \in Stored \ asked'.missed :
         engine'.set[i] = IF i = "lock" THEN lock ELSE engine.set[i]
  BY <1>9, <1>10, <1>24, <1>26 DEF Stored, ConfigItems
<1>31. /\ asked.missed \ {"lock"} \subseteq asked'.missed
       /\ asked'.missed \subseteq asked.missed \cup {"lock"}
  BY <1>9, <1>10, <1>24
<1> QED
  BY <1>7, <1>22, <1>24, <1>25, <1>27, <1>28, <1>29, <1>30, <1>31

LEMMA EnableHolds ==
  ASSUME ControlInv, Enable
  PROVE  ControlInv'
<1> USE DEF ControlInv, VotesInv, SettingsInv
<1>1. /\ Handling("enable") /\ gnss' = gnss /\ Shorter(orders, orders')
      /\ Head(orders) = orders[1] /\ orders[1].op = "enable"
  BY HandlingTakes DEF Enable
<1>2. PICK id : id = orders[1].id /\ id \in Nat \ {0}
  BY <1>1, VoteIsFirst, StateShape DEF IsVote
<1>3. adapter.power = 0
  BY <1>1, VotesShrink DEF Together
<1>4. Vote("enable", Head(orders).id, id, NoLock)
  BY <1>1, <1>2, <1>3 DEF Enable
<1>5. id = Given(orders[1])
  BY <1>1, <1>2 DEF Given
<1>6. /\ ControlTypeOK' /\ VotesInv' /\ WishesAreKept' /\ LastIsWished'
      /\ adapter'.power = id /\ adapter'.conf = adapter.conf
      /\ adapter'.inject = adapter.inject
      /\ \A i \in Stored \ asked'.missed :
           engine'.set[i] = IF i = "lock" THEN NoLock ELSE engine.set[i]
      /\ asked.missed \ {"lock"} \subseteq asked'.missed
      /\ asked'.missed \subseteq asked.missed \cup {"lock"}
  BY <1>1, <1>4, <1>5, VoteIsAnswered
<1>7. EngineIsSet'
  <2>1. \A i \in Stored \ asked'.missed :
          engine'.set[i] = IF i = "lock" /\ adapter'.power > 0 THEN NoLock
                           ELSE FromCode(adapter'.conf[i])
    <3> TAKE i \in Stored \ asked'.missed
    <3>1. CASE i = "lock"
      BY <1>2, <1>6, <3>1
    <3>2. CASE i # "lock"
      BY <1>6, <3>2 DEF EngineIsSet
    <3> QED
      BY <3>1, <3>2
  <2>2. ~adapter'.inject => Injected \in asked'.missed
    BY <1>6 DEF EngineIsSet, Injected
  <2> QED
    BY <2>1, <2>2 DEF EngineIsSet
<1> QED
  BY <1>6, <1>7

LEMMA DisableHolds ==
  ASSUME ControlInv, Disable
  PROVE  ControlInv'
<1> USE DEF ControlInv, VotesInv, SettingsInv
<1>1. /\ Handling("disable") /\ gnss' = gnss /\ Shorter(orders, orders')
      /\ Head(orders) = orders[1] /\ orders[1].op = "disable"
  BY HandlingTakes DEF Disable
<1>2. PICK lock \in Settings : lock = FromCode(adapter.conf["lock"])
  BY CodesAreRead, StateShape DEF Adapter, Codes, Stored
<1>3. adapter.power = Head(orders).id
  BY <1>1, VotesShrink DEF Together
<1>4. Vote("disable", Head(orders).id, 0, lock)
  BY <1>1, <1>2, <1>3 DEF Disable
<1>5. 0 = Given(orders[1])
  BY <1>1 DEF Given
<1>6. /\ ControlTypeOK' /\ VotesInv' /\ WishesAreKept' /\ LastIsWished'
      /\ adapter'.power = 0 /\ adapter'.conf = adapter.conf
      /\ adapter'.inject = adapter.inject
      /\ \A i \in Stored \ asked'.missed :
           engine'.set[i] = IF i = "lock" THEN lock ELSE engine.set[i]
      /\ asked.missed \ {"lock"} \subseteq asked'.missed
      /\ asked'.missed \subseteq asked.missed \cup {"lock"}
  BY <1>1, <1>4, <1>5, VoteIsAnswered
<1>7. EngineIsSet'
  <2>1. \A i \in Stored \ asked'.missed :
          engine'.set[i] = IF i = "lock" /\ adapter'.power > 0 THEN NoLock
                           ELSE FromCode(adapter'.conf[i])
    <3> TAKE i \in Stored \ asked'.missed
    <3>1. CASE i = "lock"
      BY <1>2, <1>6, <3>1
    <3>2. CASE i # "lock"
      BY <1>6, <3>2 DEF EngineIsSet
    <3> QED
      BY <3>1, <3>2
  <2>2. ~adapter'.inject => Injected \in asked'.missed
    BY <1>6 DEF EngineIsSet, Injected
  <2> QED
    BY <2>1, <2>2 DEF EngineIsSet
<1> QED
  BY <1>6, <1>7

LEMMA HandleDeleteHolds ==
  ASSUME ControlInv, HandleDelete
  PROVE  ControlInv'
<1> USE DEF ControlInv, VotesInv, SettingsInv
<1>1. /\ Shorter(orders, orders') /\ Head(orders) = orders[1] /\ orders[1].op = "delete"
      /\ orders' \in Seq(Order) /\ gnss' = gnss /\ adapter' = adapter /\ engine' = engine
  BY HandlingTakes DEF HandleDelete
<1>2. PICK id : id = orders[1].id
  OBVIOUS
<1>3. PICK missed \in SUBSET ConfigItems : missed = asked.missed
  BY StateShape DEF Asked
<1>4. PICK answer : answer = [kind |-> "delete", id |-> id] /\ answer = Request("delete", id)
  BY DEF Request
<1>5. Answer(answer, FALSE, missed)
  BY <1>1, <1>2, <1>3, <1>4 DEF HandleDelete
<1>6. adapter.callbacks
  <2>1. CallbacksFirst(orders, adapter.callbacks)
    BY DEF CallbacksComeFirst
  <2> QED
    BY <1>1, <2>1, CallbacksShrink
<1>7. \A j : j \in QueueFor(answer) <=>
                j \in {"CONTROL", "DELETEAIDINGDATA"} /\ control.queues[j].session = id
  BY <1>4 DEF QueueFor
<1>8. control.queues["CONTROL"].session # id
  BY <1>1, <1>2, DeletionIsFirst, StateShape
<1>9. "DELETEAIDINGDATA" \in QueueFor(answer) <=> control.queues["DELETEAIDINGDATA"].session = id
  BY <1>7
<1>10. control.queues["DELETEAIDINGDATA"].session = id =>
         /\ control.queues["DELETEAIDINGDATA"].requests # <<>>
         /\ Head(control.queues["DELETEAIDINGDATA"].requests) = answer
  BY <1>1, <1>2, <1>4, DeletionIsFirst, StateShape
<1>11. \A j \in QueueFor(answer) : j = "DELETEAIDINGDATA"
  BY <1>7, <1>8
<1>12. "DELETEAIDINGDATA" \in Kinds
  BY DEF Kinds
<1>13. /\ control.queues["DELETEAIDINGDATA"].session = id =>
            control' = Popped(control, "DELETEAIDINGDATA")
       /\ control.queues["DELETEAIDINGDATA"].session # id => control' = control
       /\ Reported(missed)
  BY <1>5, <1>6, <1>9, <1>10, <1>11, <1>12, Answered
<1>14. \/ control' = control /\ control.queues["DELETEAIDINGDATA"].session # orders[1].id
       \/ /\ control.queues["DELETEAIDINGDATA"].session = orders[1].id
          /\ Changed(control, control', "DELETEAIDINGDATA",
                     control.queues["DELETEAIDINGDATA"].session,
                     Tail(control.queues["DELETEAIDINGDATA"].requests))
  BY <1>2, <1>10, <1>12, <1>13, PoppedIs, StateShape
<1>15. Together(orders', control', adapter'.power)
  BY <1>1, <1>14, TakeDelete, StateShape
<1>16. control' \in Client /\ control'.last = control.last
  BY <1>14, StateShape DEF Changed
<1>17. asked' \in Asked /\ asked'.wish = asked.wish /\ asked'.missed = asked.missed
       /\ ~asked'.crossed /\ ~asked'.refused
  BY <1>3, <1>13 DEF Reported
<1>18. CallbacksComeFirst'
  BY <1>1, <1>6, <1>16, CallbacksStill
<1>19. ControlTypeOK'
  BY <1>1, <1>16, <1>17, StateShape, StateShapeNext
<1>20. WishesAreKept'
  BY <1>1, <1>17, WishesWait
<1>21. LastIsWished'
  BY <1>16, <1>17, LastStays
<1>22. EngineIsSet'
  BY <1>1, <1>17 DEF EngineIsSet
<1> QED
  BY <1>15, <1>17, <1>18, <1>19, <1>20, <1>21, <1>22

LEMMA SetConfigHolds ==
  ASSUME ControlInv, SetConfig
  PROVE  ControlInv'
<1> USE DEF ControlInv, VotesInv, SettingsInv
<1>1. /\ Shorter(orders, orders') /\ orders[1].op = "setConfig" /\ orders' \in Seq(Order)
      /\ gnss' = gnss /\ control' = control
      /\ adapter' = [adapter EXCEPT !.url = Url(OwnConfig, ConfigSent)]
  BY HandlingTakes DEF SetConfig
<1>2. PICK taken \in Taken(ConfigSent) :
        /\ engine' = Set(taken, OwnConfig)
        /\ asked' = [asked EXCEPT !.missed = StillMissed(ConfigSent, taken)]
  BY DEF SetConfig
<1>3. /\ ConfigSent \subseteq ConfigItems /\ "lock" \notin ConfigSent
      /\ ~adapter.inject => Injected \notin ConfigSent
  BY DEF ConfigSent, ConfigItems, Always, Injected
<1>4. taken \subseteq ConfigSent
  BY <1>2, EngineTakes
<1>5. \A i \in Stored : FromCode(adapter.conf[i]) \in Settings
  BY CodesAreRead, StateShape DEF Adapter, Codes
<1>6. \A i \in ConfigItems : i # "server" => i \in Stored
  BY DEF ConfigItems, Stored
<1>7. /\ \A i \in ConfigItems : OwnConfig[i] \in Values
      /\ \A i \in Stored : OwnConfig[i] = FromCode(adapter.conf[i])
  <2>1. adapter.host \in Values
    BY StateShape DEF Adapter
  <2>2. \A i \in Stored : i \in ConfigItems /\ i # "server"
    BY DEF ConfigItems, Stored, Injected, Always
  <2>3. \A i \in ConfigItems : OwnConfig[i] = IF i = "server" THEN adapter.host ELSE FromCode(adapter.conf[i])
    BY DEF OwnConfig
  <2> QED
    BY <1>5, <1>6, <2>1, <2>2, <2>3 DEF Values
<1>8. Url(OwnConfig, ConfigSent) \in Values
  <2>1. adapter.url \in Values
    BY StateShape DEF Adapter
  <2>2. "server" \in ConfigItems
    BY DEF ConfigItems
  <2> QED
    BY <1>7, <2>1, <2>2 DEF Url
<1>9. /\ adapter' \in Adapter /\ adapter'.power = adapter.power /\ adapter'.conf = adapter.conf
      /\ adapter'.inject = adapter.inject
  BY <1>1, <1>8, StateShape DEF Adapter
<1>10. adapter'.callbacks = adapter.callbacks
  BY <1>1, StateShape DEF Adapter
<1>11. PICK missed \in SUBSET ConfigItems :
         missed = StillMissed(ConfigSent, taken) /\ missed = (asked.missed \cup ConfigSent) \ taken
  BY <1>3, StateShape DEF StillMissed, Asked
<1>12. asked' \in Asked /\ asked'.wish = asked.wish /\ asked'.missed = missed
  BY <1>2, <1>11, StateShape DEF Asked
<1>13. ~asked'.crossed /\ ~asked'.refused
  BY <1>2, StateShape DEF Asked
<1>14. /\ engine' \in Engine
       /\ \A i \in taken : engine'.set[i] = OwnConfig[i]
       /\ \A i \in ConfigItems \ taken : engine'.set[i] = engine.set[i]
  <2>1. PICK value : value = OwnConfig
    OBVIOUS
  <2>2. engine' = Set(taken, value) /\ taken \in SUBSET ConfigItems
    BY <1>2, <1>3, <1>4, <2>1
  <2>3. \A i \in taken : value[i] \in Values \cup {Unset, NoLock}
    BY <1>7, <2>1, <2>2
  <2> QED
    BY <2>1, <2>2, <2>3, EngineSet, StateShape
<1>15. ControlTypeOK'
  BY <1>1, <1>9, <1>12, <1>14, StateShape, StateShapeNext
<1>16. Together(orders', control', adapter'.power)
  BY <1>1, <1>9, TakePlain, StateShape
<1>17. CallbacksComeFirst'
  BY <1>1, <1>10, CallbacksStill
<1>18. EngineIsSet'
  <2>1. \A i \in Stored \ asked'.missed :
          engine'.set[i] = IF i = "lock" /\ adapter'.power > 0 THEN NoLock
                           ELSE FromCode(adapter'.conf[i])
    <3> TAKE i \in Stored \ asked'.missed
    <3>1. i \in ConfigItems
      BY DEF Stored, ConfigItems
    <3>2. CASE i \in taken
      BY <1>3, <1>4, <1>7, <1>9, <1>14, <3>2
    <3>3. CASE i \notin taken
      BY <1>9, <1>11, <1>12, <1>14, <3>1, <3>3 DEF EngineIsSet
    <3> QED
      BY <3>2, <3>3
  <2>2. ~adapter'.inject => Injected \in asked'.missed
    BY <1>3, <1>4, <1>9, <1>11, <1>12 DEF EngineIsSet
  <2> QED
    BY <2>1, <2>2 DEF EngineIsSet
<1>19. WishesAreKept'
  BY <1>1, <1>9, <1>12, WishesWait
<1>20. LastIsWished'
  BY <1>1, <1>12, LastStays
<1> QED
  BY <1>13, <1>15, <1>16, <1>17, <1>18, <1>19, <1>20

LEMMA ConfigsAre ==
  ASSUME NEW config \in Configs, OfSettings(config)
  PROVE  /\ DOMAIN config \subseteq ConfigItems
         /\ \A i \in DOMAIN config : config[i] \in Values
         /\ \A i \in DOMAIN config : i # "server" => config[i] \in Settings /\ i \in Stored
         /\ \A i \in Stored : i \in ConfigItems /\ i # "server"
  BY DEF Configs, OfSettings, ConfigItems, Stored, Injected, Always

LEMMA HandleConfigHolds ==
  ASSUME ControlInv, HandleConfig
  PROVE  ControlInv'
<1> USE DEF ControlInv, VotesInv, SettingsInv
<1>1. /\ Shorter(orders, orders') /\ Head(orders) = orders[1] /\ orders[1].op = "config"
      /\ orders' \in Seq(Order) /\ orders[1] \in Order /\ gnss' = gnss
  BY HandlingTakes DEF HandleConfig
<1>2. PICK config \in Configs : config = orders[1].config /\ OfSettings(config)
  BY <1>1, OrderIs
<1>3. PICK toSend : toSend = Sends(config)
  OBVIOUS
<1>4. PICK conf : conf = Over([i \in Keeps(config) |-> ToCode(config[i])], adapter.conf)
  OBVIOUS
<1>5. adapter' = [adapter EXCEPT !.url = Url(config, toSend), !.conf = conf]
  BY <1>1, <1>2, <1>3, <1>4 DEF HandleConfig
<1>6. PICK taken \in Taken(toSend) :
        /\ engine' = Set(taken, config)
        /\ Answer([kind |-> "config", config |-> config], FALSE, StillMissed(toSend, taken))
  BY <1>1, <1>2, <1>3 DEF HandleConfig
<1>7. taken \subseteq toSend /\ toSend \subseteq DOMAIN config
  BY <1>3, <1>6, EngineTakes DEF Sends
<1>8. /\ DOMAIN config \subseteq ConfigItems
      /\ \A i \in DOMAIN config : config[i] \in Values
      /\ \A i \in DOMAIN config : i # "server" => config[i] \in Settings /\ i \in Stored
      /\ \A i \in Stored : i \in ConfigItems /\ i # "server"
  BY <1>2, ConfigsAre
<1>9. \A i \in Stored : i \in toSend <=>
        /\ i \in DOMAIN config
        /\ \/ i = "lock" /\ adapter.power = 0
           \/ i = Injected /\ adapter.inject /\ ToCode(config[i]) # adapter.conf[i]
           \/ i = Always /\ ToCode(config[i]) # adapter.conf[i]
  BY <1>3, <1>8 DEF Sends
<1>10. Injected # "lock" /\ Always # "lock" /\ Injected # Always /\ Stored = {Injected, Always, "lock"}
  BY DEF Injected, Always, Stored
<1>11. \A i : i \in Keeps(config) <=>
         i \in DOMAIN config /\ (i \in {"lock", Always} \/ (i = Injected /\ adapter.inject))
  BY DEF Keeps
<1>12. /\ conf \in [Stored -> Codes]
       /\ \A i \in Stored : conf[i] = IF i \in Keeps(config) THEN ToCode(config[i]) ELSE adapter.conf[i]
  <2>1. adapter.conf \in [Stored -> Codes]
    BY StateShape DEF Adapter
  <2>2. Keeps(config) \subseteq Stored
    BY <1>10, <1>11
  <2>3. \A i \in Keeps(config) : ToCode(config[i]) \in Codes
    BY <1>8, <1>10, <1>11, <2>2 DEF Codes
  <2> QED
    BY <1>4, <2>1, <2>2, <2>3 DEF Over
<1>13. Url(config, toSend) \in Values
  <2>1. adapter.url \in Values
    BY StateShape DEF Adapter
  <2> QED
    BY <1>7, <1>8, <2>1 DEF Url
<1>14. /\ adapter' \in Adapter /\ adapter'.power = adapter.power /\ adapter'.conf = conf
       /\ adapter'.inject = adapter.inject
  BY <1>5, <1>12, <1>13, StateShape DEF Adapter
<1>15. adapter'.callbacks = adapter.callbacks
  BY <1>5, StateShape DEF Adapter
<1>16. PICK missed \in SUBSET ConfigItems :
         missed = StillMissed(toSend, taken) /\ missed = (asked.missed \cup toSend) \ taken
  BY <1>7, <1>8, StateShape DEF StillMissed, Asked
<1>17. adapter.callbacks
  <2>1. CallbacksFirst(orders, adapter.callbacks)
    BY DEF CallbacksComeFirst
  <2> QED
    BY <1>1, <2>1, CallbacksShrink
<1>18. PICK answer : answer = [kind |-> "config", config |-> config]
  OBVIOUS
<1>19. Answer(answer, FALSE, missed)
  BY <1>6, <1>16, <1>18
<1>20. /\ control.queues["CONFIG"].session = ConfigSession
       /\ control.queues["CONFIG"].requests # <<>>
       /\ Head(control.queues["CONFIG"].requests) = answer
  BY <1>1, <1>2, <1>18, ConfigIsFirst, StateShape
<1>21. QueueFor(answer) = {"CONFIG"} /\ "CONFIG" \in Kinds
  BY <1>18, <1>20 DEF QueueFor, Kinds
<1>22. control' = Popped(control, "CONFIG") /\ Reported(missed)
  BY <1>17, <1>19, <1>20, <1>21, Answered
<1>23. Changed(control, control', "CONFIG", control.queues["CONFIG"].session,
               Tail(control.queues["CONFIG"].requests))
  BY <1>20, <1>21, <1>22, PoppedIs, StateShape
<1>24. Together(orders', control', adapter'.power)
  BY <1>1, <1>14, <1>23, TakeConfig, StateShape
<1>25. control' \in Client /\ control'.last = control.last
  BY <1>23 DEF Changed
<1>26. asked' \in Asked /\ asked'.wish = asked.wish /\ asked'.missed = missed
       /\ ~asked'.crossed /\ ~asked'.refused
  BY <1>22 DEF Reported
<1>27. CallbacksComeFirst'
  BY <1>1, <1>15, <1>25, CallbacksStill
<1>28. /\ engine' \in Engine
       /\ \A i \in taken : engine'.set[i] = config[i]
       /\ \A i \in ConfigItems \ taken : engine'.set[i] = engine.set[i]
  <2>1. taken \in SUBSET ConfigItems /\ \A i \in taken : config[i] \in Values \cup {Unset, NoLock}
    BY <1>7, <1>8
  <2> QED
    BY <1>6, <2>1, EngineSet, StateShape
<1>29. ControlTypeOK'
  BY <1>1, <1>14, <1>12, <1>25, <1>26, <1>28, StateShape, StateShapeNext
<1>30. \A i \in Stored \cap Keeps(config) : FromCode(conf[i]) = config[i]
  BY <1>8, <1>11, <1>12, CodesAreRead
<1>31. EngineIsSet'
  <2>1. ~adapter'.inject => Injected \in asked'.missed
    BY <1>7, <1>9, <1>10, <1>14, <1>16, <1>26 DEF EngineIsSet
  <2>2. ASSUME NEW i \in Stored \ asked'.missed
        PROVE  engine'.set[i] = IF i = "lock" /\ adapter.power > 0 THEN NoLock ELSE FromCode(conf[i])
    <3>1. CASE i \in taken
      <4>1. i \in toSend /\ engine'.set[i] = config[i] /\ i \in DOMAIN config
        BY <1>7, <1>28, <3>1
      <4>2. i \in Keeps(config) /\ ~(i = "lock" /\ adapter.power > 0)
        BY <1>9, <1>10, <1>11, <2>2, <4>1
      <4> QED
        BY <1>30, <2>2, <4>1, <4>2
    <3>2. CASE i \notin taken
      <4>1. i \notin asked.missed /\ i \notin toSend /\ i \in ConfigItems
        BY <1>8, <1>16, <1>26, <2>2, <3>2
      <4>2. engine'.set[i] = IF i = "lock" /\ adapter.power > 0 THEN NoLock
                             ELSE FromCode(adapter.conf[i])
        BY <1>28, <2>2, <3>2, <4>1 DEF EngineIsSet
      <4>3. CASE i \notin Keeps(config)
        BY <1>12, <2>2, <4>2, <4>3
      <4>4. CASE i \in Keeps(config) /\ i = "lock"
        <5>1. adapter.power \in Nat /\ adapter.power # 0
          BY <1>9, <1>11, <2>2, <4>1, <4>4, StateShape DEF Adapter
        <5> QED
          BY <4>2, <4>4, <5>1
      <4>5. CASE i \in Keeps(config) /\ i # "lock"
        <5>1. ToCode(config[i]) = adapter.conf[i]
          BY <1>9, <1>10, <1>11, <2>2, <4>1, <4>5
        <5> QED
          BY <1>12, <2>2, <4>2, <4>5, <5>1
      <4> QED
        BY <4>3, <4>4, <4>5
    <3> QED
      BY <3>1, <3>2
  <2> QED
    BY <1>14, <2>1, <2>2 DEF EngineIsSet
<1>32. WishesAreKept'
  <2>1. gnss.api
    BY <1>1, FirstIs DEF CallbacksComeFirst
  <2>2. ASSUME NEW i \in Stored, i = Injected => adapter.inject
        PROVE  WillHave(orders', i, FromCode(conf[i]), asked.wish[i])
    <3>1. WillHave(orders, i, FromCode(adapter.conf[i]), asked.wish[i])
      BY <2>1, <2>2 DEF WishesAreKept
    <3>2. CASE i \in DOMAIN config
      <4>1. i \in Keeps(config)
        BY <1>10, <1>11, <2>2, <3>2
      <4>2. FromCode(conf[i]) = config[i]
        BY <1>30, <2>2, <4>1
      <4>3. Says(orders[1], i) /\ orders[1].config[i] = config[i]
        BY <1>1, <1>2, <3>2 DEF Says
      <4> QED
        BY <1>1, <3>1, <4>2, <4>3, WillHaveShrinks
    <3>3. CASE i \notin DOMAIN config
      <4>1. conf[i] = adapter.conf[i]
        BY <1>11, <1>12, <2>2, <3>3
      <4>2. ~Says(orders[1], i)
        BY <1>2, <3>3 DEF Says
      <4> QED
        BY <1>1, <3>1, <4>1, <4>2, WillHaveShrinks
    <3> QED
      BY <3>2, <3>3
  <2>3. \A i \in Stored : (i = Injected => adapter'.inject) =>
          WillHave(orders', i, FromCode(adapter'.conf[i]), asked'.wish[i])
    BY <1>14, <1>26, <2>2
  <2> QED
    BY <1>1, <2>1, <2>3 DEF WishesAreKept
<1>33. LastIsWished'
  BY <1>25, <1>26, LastStays
<1> QED
  BY <1>24, <1>26, <1>27, <1>29, <1>31, <1>32, <1>33

-----------------------------------------------------------------------------
(* The engine's restarts and the calls of the services.                    *)

LEMMA StutterHolds ==
  ASSUME ControlInv, UNCHANGED controlVars
  PROVE  ControlInv'
<1>1. /\ gnss' = gnss /\ control' = control /\ adapter' = adapter /\ engine' = engine
      /\ orders' = orders /\ asked' = asked
  BY DEF controlVars
<1>2. ControlTypeOK'
  BY <1>1, StateShape, StateShapeNext DEF ControlInv
<1>3. VotesInv'
  BY <1>1 DEF ControlInv, VotesInv, CallbacksComeFirst
<1>4. SettingsInv'
  BY <1>1 DEF ControlInv, SettingsInv, EngineIsSet, WishesAreKept, LastIsWished
<1> QED
  BY <1>2, <1>3, <1>4 DEF ControlInv

LEMMA EngineDownHolds ==
  ASSUME ControlInv, EngineDown
  PROVE  ControlInv'
<1> USE DEF ControlInv, VotesInv, SettingsInv
<1>1. /\ gnss' = gnss /\ control' = control /\ adapter' = adapter /\ orders' = orders
      /\ engine' = [up |-> FALSE, set |-> [i \in ConfigItems |-> Unset]]
      /\ asked' = [asked EXCEPT !.missed = ConfigItems]
  BY DEF EngineDown
<1>2. asked' \in Asked /\ asked'.wish = asked.wish /\ asked'.missed = ConfigItems
  BY <1>1, StateShape DEF Asked
<1>3. ~asked'.crossed /\ ~asked'.refused
  BY <1>1, StateShape DEF Asked
<1>4. engine' \in Engine
  BY <1>1 DEF Engine
<1>5. ControlTypeOK'
  BY <1>1, <1>2, <1>4, StateShape, StateShapeNext
<1>6. VotesInv'
  BY <1>1, <1>3 DEF CallbacksComeFirst
<1>7. EngineIsSet'
  BY <1>2 DEF EngineIsSet, Stored, ConfigItems
<1>8. WishesAreKept'
  BY <1>1, <1>2, WishesWait
<1>9. LastIsWished'
  BY <1>1, <1>2, LastStays
<1> QED
  BY <1>5, <1>6, <1>7, <1>8, <1>9

LEMMA CallbacksKept ==
  ASSUME CallbacksComeFirst, Longer(orders, orders'), adapter' = adapter, gnss'.api = gnss.api,
         gnss.api \/ orders'[Len(orders')].op = "setConfig",
         ~gnss.api => control'.last = control.last
  PROVE  CallbacksComeFirst'
<1>1. orders'[Len(orders')].op \in {"setConfig", "callbacks"} \/ Called(orders, adapter.callbacks)
  BY DEF CallbacksComeFirst
<1>2. /\ CallbacksFirst(orders', adapter.callbacks)
      /\ Called(orders, adapter.callbacks) => Called(orders', adapter.callbacks)
  BY <1>1, CallbacksGrow DEF CallbacksComeFirst
<1>3. ASSUME ~gnss.api, NEW j \in 1 .. Len(orders')
      PROVE  orders'[j].op = "setConfig"
  BY <1>3, Lengths DEF CallbacksComeFirst
<1> QED
  BY <1>2, <1>3 DEF CallbacksComeFirst

LEMMA EngineUpHolds ==
  ASSUME ControlInv, EngineUp
  PROVE  ControlInv'
<1> USE DEF ControlInv, VotesInv, SettingsInv
<1>1. /\ gnss' = gnss /\ control' = control /\ adapter' = adapter /\ asked' = asked
      /\ engine' = [engine EXCEPT !.up = TRUE]
      /\ orders' = Append(orders, [op |-> "setConfig"])
  BY DEF EngineUp
<1>2. PICK order \in Order : order = [op |-> "setConfig"]
  BY DEF Order, PlainOrder
<1>3. orders' = Append(orders, order) /\ orders \in Seq(Order)
  BY <1>1, <1>2, StateShape
<1>4. Longer(orders, orders') /\ orders'[Len(orders')] = order
  BY <1>3, AppendIsLonger
<1>5. order.op = "setConfig"
  BY <1>2
<1>6. orders' \in Seq(Order)
  BY <1>4 DEF Longer
<1>7. engine' \in Engine /\ engine'.set = engine.set
  BY <1>1, StateShape DEF Engine
<1>8. ControlTypeOK'
  BY <1>1, <1>6, <1>7, StateShape, StateShapeNext
<1>9. Together(orders', control', adapter'.power)
  BY <1>1, <1>4, <1>5, PostPlain, StateShape
<1>10. CallbacksComeFirst'
  BY <1>1, <1>4, <1>5, CallbacksKept
<1>11. EngineIsSet'
  BY <1>1, <1>7 DEF EngineIsSet
<1>12. WishesAreKept'
  BY <1>1, <1>4, <1>5, WishesWait
<1>13. LastIsWished'
  BY <1>1, LastStays
<1> QED
  BY <1>1, <1>8, <1>9, <1>10, <1>11, <1>12, <1>13

LEMMA CleanupHolds ==
  ASSUME ControlInv, Cleanup
  PROVE  ControlInv'
<1> USE DEF ControlInv, VotesInv, SettingsInv
<1>1. PICK id : id = control.queues["CONTROL"].session
  OBVIOUS
<1>2. /\ gnss' = gnss /\ adapter' = adapter /\ engine' = engine /\ asked' = asked
      /\ gnss.api /\ control.enabled /\ id # 0
      /\ orders' = Append(orders, [op |-> "disable", id |-> id])
  BY <1>1 DEF Cleanup
<1>3. control' = Turned(Pushed(control, "CONTROL", Request("disable", id)), FALSE)
  BY <1>1 DEF Cleanup, Turned, Request
<1>4. id \in Nat
  BY <1>1, StateShape, ClientShape DEF Kinds
<1>5. PICK order \in Order : order = [op |-> "disable", id |-> id]
  BY <1>2, <1>4 DEF Order, NumberedOrder
<1>6. orders' = Append(orders, order) /\ orders \in Seq(Order)
  BY <1>2, <1>5, StateShape
<1>7. Longer(orders, orders') /\ orders'[Len(orders')] = order
  BY <1>6, AppendIsLonger
<1>8. orders' \in Seq(Order)
  BY <1>7 DEF Longer
<1>9. PICK d : d = control'
  OBVIOUS
<1>10. control \in Client
  BY StateShape
<1>11. PICK b : b = Pushed(control, "CONTROL", Request("disable", id))
  OBVIOUS
<1>12. Changed(control, b, "CONTROL", id,
               Append(control.queues["CONTROL"].requests, Request("disable", id)))
  <2>1. Request("disable", id) \in NumberedRequest \cup ConfigRequest
    BY <1>4 DEF Request, NumberedRequest
  <2> QED
    BY <1>1, <1>10, <1>11, <2>1, PushedIs DEF Kinds
<1>13. d \in Client /\ d.last = control.last /\ d.queues = b.queues
  <2>1. b \in Client /\ b.last = control.last
    BY <1>12 DEF Changed
  <2>2. d = Turned(b, FALSE)
    BY <1>3, <1>9, <1>11
  <2> QED
    BY <2>1, <2>2, TurnedIs
<1>14. ~d.enabled
  BY <1>3, <1>9, <1>11, <1>12, TurnedIs DEF Changed
<1>15. orders'[Len(orders')].op = "disable" /\ orders'[Len(orders')].id = id
  BY <1>5, <1>7
<1>16. Together(orders', d, adapter.power)
  <2>1. Voted(control) = id
    BY <1>1, <1>2 DEF Voted
  <2> QED
    BY <1>1, <1>2, <1>7, <1>10, <1>12, <1>13, <1>14, <1>15, <2>1, PostDisable
<1>17. ControlTypeOK'
  BY <1>2, <1>8, <1>9, <1>13, StateShape, StateShapeNext
<1>18. Together(orders', control', adapter'.power)
  BY <1>2, <1>9, <1>16
<1>19. CallbacksComeFirst'
  BY <1>2, <1>7, <1>9, <1>13, CallbacksKept
<1>20. EngineIsSet'
  BY <1>2 DEF EngineIsSet
<1>21. WishesAreKept'
  BY <1>2, <1>7, <1>15, WishesWait
<1>22. LastIsWished'
  BY <1>2, <1>9, <1>13, LastStays
<1> QED
  BY <1>2, <1>17, <1>18, <1>19, <1>20, <1>21, <1>22

LEMMA DeleteAidingDataHolds ==
  ASSUME ControlInv, DeleteAidingData
  PROVE  ControlInv'
<1> USE DEF ControlInv, VotesInv, SettingsInv
<1>1. PICK id : id = NewId
  OBVIOUS
<1>2. Fresh(orders, control, adapter.power, id)
  BY <1>1, NewIdIsFresh
<1>3. /\ gnss' = gnss /\ adapter' = adapter /\ engine' = engine /\ asked' = asked /\ gnss.api
      /\ orders' = Append(orders, [op |-> "delete", id |-> id])
      /\ control' = Restarted(control, "DELETEAIDINGDATA", id, [kind |-> "delete", id |-> id])
  BY <1>1 DEF DeleteAidingData
<1>4. PICK order \in Order : order = [op |-> "delete", id |-> id]
  BY <1>2 DEF Order, NumberedOrder, Fresh
<1>5. orders' = Append(orders, order) /\ orders \in Seq(Order)
  BY <1>3, <1>4, StateShape
<1>6. Longer(orders, orders') /\ orders'[Len(orders')] = [op |-> "delete", id |-> id]
  BY <1>4, <1>5, AppendIsLonger
<1>7. orders' \in Seq(Order)
  BY <1>6 DEF Longer
<1>8. PICK d : d = control'
  OBVIOUS
<1>9. control \in Client
  BY StateShape
<1>10. Together(orders', d, adapter.power) /\ d \in Client
  BY <1>2, <1>3, <1>6, <1>8, <1>9, PostDelete
<1>11. d.last = control.last
  <2>1. PICK m \in NumberedRequest \cup ConfigRequest : m = [kind |-> "delete", id |-> id]
    BY <1>2 DEF NumberedRequest, Fresh
  <2>2. d = Restarted(control, "DELETEAIDINGDATA", id, m) /\ id \in Nat
    BY <1>2, <1>3, <1>8, <2>1 DEF Fresh
  <2>3. Changed(control, d, "DELETEAIDINGDATA", id, <<m>>)
    BY <1>9, <2>2, RestartedIs DEF Kinds
  <2> QED
    BY <2>3 DEF Changed
<1>12. orders'[Len(orders')].op = "delete"
  BY <1>6
<1>13. ControlTypeOK'
  BY <1>3, <1>7, <1>8, <1>10, StateShape, StateShapeNext
<1>14. Together(orders', control', adapter'.power)
  BY <1>3, <1>8, <1>10
<1>15. CallbacksComeFirst'
  BY <1>3, <1>6, CallbacksKept
<1>16. EngineIsSet'
  BY <1>3 DEF EngineIsSet
<1>17. WishesAreKept'
  BY <1>3, <1>6, <1>12, WishesWait
<1>18. LastIsWished'
  BY <1>3, <1>8, <1>11, LastStays
<1> QED
  BY <1>3, <1>13, <1>14, <1>15, <1>16, <1>17, <1>18

LEMMA GatheredIs ==
  ASSUME NEW pending \in Configs, OfSettings(pending), NEW config \in Configs, OfSettings(config)
  PROVE  /\ Gathered(pending, config) \in Configs
         /\ OfSettings(Gathered(pending, config))
         /\ DOMAIN Gathered(pending, config) = DOMAIN config \cup DOMAIN pending
         /\ \A i \in Stored : i \in DOMAIN config => Gathered(pending, config)[i] = config[i]
         /\ \A i \in Stored : i \in DOMAIN pending /\ i \notin DOMAIN config =>
                                Gathered(pending, config)[i] = pending[i]
<1> DEFINE kept == Kept(config)
           new == Gathered(pending, config)
<1>1. /\ DOMAIN kept = DOMAIN config
      /\ \A i \in DOMAIN config : kept[i] = IF i = "server" THEN NoHost ELSE config[i]
  BY DEF Kept
<1>2. \A i \in Stored : i # "server"
  BY DEF Stored, Injected, Always
<1>3. new = [i \in DOMAIN kept \cup DOMAIN pending |->
               IF i \in DOMAIN kept THEN kept[i] ELSE pending[i]]
  BY DEF Gathered, Over
<1> HIDE DEF kept
<1>4. /\ DOMAIN new = DOMAIN config \cup DOMAIN pending
      /\ \A i \in DOMAIN new : new[i] = IF i \in DOMAIN config THEN kept[i] ELSE pending[i]
  BY <1>1, <1>3
<1>5. /\ DOMAIN config \subseteq ConfigItems /\ DOMAIN pending \subseteq ConfigItems
      /\ \A i \in DOMAIN config : config[i] \in Values
      /\ \A i \in DOMAIN pending : pending[i] \in Values
  BY ConfigsAre
<1>6. \A i \in DOMAIN new : new[i] \in Values
  BY <1>1, <1>4, <1>5 DEF Values
<1>7. new \in [DOMAIN new -> Values]
  BY <1>3, <1>6
<1>8. new \in Configs
  BY <1>4, <1>5, <1>7 DEF Configs
<1>9. OfSettings(new)
  BY <1>1, <1>4 DEF OfSettings
<1>10. /\ \A i \in Stored : i \in DOMAIN config => new[i] = config[i]
       /\ \A i \in Stored : i \in DOMAIN pending /\ i \notin DOMAIN config => new[i] = pending[i]
  BY <1>1, <1>2, <1>4
<1> QED
  BY <1>4, <1>8, <1>9, <1>10

(* What was wished for, with a configuration that is asked for.            *)
LEMMA WishesAre ==
  ASSUME asked \in Asked, NEW config \in Configs, asked' = [asked EXCEPT !.wish = Over(config, @)]
  PROVE  /\ asked' \in Asked /\ asked'.missed = asked.missed
         /\ \A i \in ConfigItems :
              asked'.wish[i] = IF i \in DOMAIN config THEN config[i] ELSE asked.wish[i]
<1>1. asked.wish \in [ConfigItems -> Values]
  BY DEF Asked
<1>2. DOMAIN config \subseteq ConfigItems /\ \A i \in DOMAIN config : config[i] \in Values
  BY DEF Configs
<1>3. PICK new : new = Over(config, asked.wish)
  OBVIOUS
<1>4. new = [i \in ConfigItems |-> IF i \in DOMAIN config THEN config[i] ELSE asked.wish[i]]
  <2>1. DOMAIN config \cup ConfigItems = ConfigItems /\ DOMAIN asked.wish = ConfigItems
    BY <1>1, <1>2
  <2> QED
    BY <1>3, <2>1 DEF Over
<1>5. new \in [ConfigItems -> Values]
  BY <1>1, <1>2, <1>4
<1>6. asked' = [asked EXCEPT !.wish = new]
  BY <1>3
<1> QED
  BY <1>4, <1>5, <1>6 DEF Asked

LEMMA UpdateConfigurationHolds ==
  ASSUME ControlInv, NEW config \in Configs, OfSettings(config), UpdateConfiguration(config)
  PROVE  ControlInv'
<1> USE DEF ControlInv, VotesInv, SettingsInv
<1>1. /\ adapter' = adapter /\ engine' = engine
      /\ asked' = [asked EXCEPT !.wish = Over(config, @)]
  BY DEF UpdateConfiguration
<1>2. /\ asked' \in Asked /\ asked'.missed = asked.missed
      /\ \A i \in ConfigItems :
           asked'.wish[i] = IF i \in DOMAIN config THEN config[i] ELSE asked.wish[i]
  BY <1>1, WishesAre, StateShape
<1>3. ~asked'.crossed /\ ~asked'.refused
  BY <1>1, StateShape DEF Asked
<1>4. EngineIsSet'
  BY <1>1, <1>2 DEF EngineIsSet
<1>5. \A i \in Stored : i \in ConfigItems /\ i # "server"
  BY ConfigsAre
<1>6. DOMAIN control.last \subseteq ConfigItems /\ DOMAIN config \subseteq ConfigItems
  BY StateShape DEF Client, Configs
<1>7. CASE ~gnss.api
  <2>1. /\ gnss' = [gnss EXCEPT !.pending = Gathered(@, config)]
        /\ control' = control /\ orders' = orders
    BY <1>7 DEF UpdateConfiguration
  <2>2. PICK pending \in Configs : pending = gnss.pending /\ OfSettings(pending)
    BY StateShape DEF Gnss
  <2>3. PICK new \in Configs :
          /\ new = Gathered(pending, config) /\ OfSettings(new)
          /\ DOMAIN new = DOMAIN config \cup DOMAIN pending
          /\ \A i \in Stored : i \in DOMAIN config => new[i] = config[i]
          /\ \A i \in Stored : i \in DOMAIN pending /\ i \notin DOMAIN config => new[i] = pending[i]
    <3>1. /\ Gathered(pending, config) \in Configs /\ OfSettings(Gathered(pending, config))
          /\ DOMAIN Gathered(pending, config) = DOMAIN config \cup DOMAIN pending
      BY <2>2, GatheredIs
    <3>2. /\ \A i \in Stored : i \in DOMAIN config => Gathered(pending, config)[i] = config[i]
          /\ \A i \in Stored : i \in DOMAIN pending /\ i \notin DOMAIN config =>
                                 Gathered(pending, config)[i] = pending[i]
      BY <2>2, GatheredIs
    <3> QED
      BY <3>1, <3>2
  <2>4. gnss' = [gnss EXCEPT !.pending = new]
    BY <2>1, <2>2, <2>3
  <2>5. gnss' \in Gnss /\ gnss'.pending = new
    BY <2>3, <2>4, StateShape DEF Gnss
  <2>6. ~gnss'.api
    BY <1>7, <2>4, StateShape DEF Gnss
  <2>7. ControlTypeOK'
    BY <1>1, <1>2, <2>1, <2>5, StateShape, StateShapeNext
  <2>8. CallbacksComeFirst'
    BY <1>1, <1>7, <2>1, <2>6 DEF CallbacksComeFirst
  <2>9. WishesAreKept'
    <3>1. \A i \in Stored : asked.wish[i] = IF i \in DOMAIN pending THEN pending[i]
                                            ELSE FromCode(adapter.conf[i])
      BY <1>7, <2>2 DEF WishesAreKept
    <3>2. \A i \in Stored : asked'.wish[i] = IF i \in DOMAIN new THEN new[i]
                                             ELSE FromCode(adapter'.conf[i])
      BY <1>1, <1>2, <1>5, <2>3, <3>1
    <3> QED
      BY <2>5, <2>6, <3>2 DEF WishesAreKept
  <2>10. LastIsWished'
    <3>1. control'.last = <<>>
      BY <1>7, <2>1 DEF CallbacksComeFirst
    <3> QED
      BY <3>1 DEF LastIsWished
  <2> QED
    BY <1>1, <1>3, <1>4, <2>1, <2>7, <2>8, <2>9, <2>10
<1>8. CASE gnss.api /\ Updates(control, config)
  <2>1. /\ control' = Queued(control, config) /\ gnss' = gnss
        /\ orders' = Append(orders, [op |-> "config", config |-> config])
    BY <1>8 DEF UpdateConfiguration
  <2>2. PICK order \in Order : order = [op |-> "config", config |-> config]
    BY DEF Order, ConfigOrder
  <2>3. orders' = Append(orders, order) /\ orders \in Seq(Order)
    BY <2>1, <2>2, StateShape
  <2>4. Longer(orders, orders') /\ orders'[Len(orders')] = [op |-> "config", config |-> config]
    BY <2>2, <2>3, AppendIsLonger
  <2>5. orders' \in Seq(Order)
    BY <2>4 DEF Longer
  <2>6. Together(orders', control', adapter'.power) /\ control' \in Client
    BY <1>1, <2>1, <2>4, PostConfig, StateShape
  <2>7. control'.last = config
    BY <2>1, QueuedIs, StateShape DEF Together, RequestsAreAwaited
  <2>8. ControlTypeOK'
    BY <1>1, <1>2, <2>1, <2>5, <2>6, StateShape, StateShapeNext
  <2>9. CallbacksComeFirst'
    BY <1>1, <1>8, <2>1, <2>4, CallbacksKept
  <2>10. WishesAreKept'
    <3>1. ASSUME NEW i \in Stored, i = Injected => adapter.inject
          PROVE  WillHave(orders', i, FromCode(adapter.conf[i]), asked'.wish[i])
      <4>1. WillHave(orders, i, FromCode(adapter.conf[i]), asked.wish[i])
        BY <1>8, <3>1 DEF WishesAreKept
      <4>2. orders'[Len(orders')].op = "config" /\ orders'[Len(orders')].config = config
        BY <2>4
      <4>3. i \in DOMAIN config => /\ Says(orders'[Len(orders')], i)
                                   /\ asked'.wish[i] = orders'[Len(orders')].config[i]
        BY <1>2, <1>5, <3>1, <4>2 DEF Says
      <4>4. i \notin DOMAIN config => ~Says(orders'[Len(orders')], i) /\ asked'.wish[i] = asked.wish[i]
        BY <1>2, <1>5, <3>1, <4>2 DEF Says
      <4> QED
        BY <2>4, <4>1, <4>3, <4>4, WillHaveGrows
    <3>2. \A i \in Stored : (i = Injected => adapter'.inject) =>
            WillHave(orders', i, FromCode(adapter'.conf[i]), asked'.wish[i])
      BY <1>1, <3>1
    <3> QED
      BY <1>8, <2>1, <3>2 DEF WishesAreKept
  <2>11. LastIsWished'
    BY <1>2, <1>6, <2>7 DEF LastIsWished
  <2> QED
    BY <1>3, <1>4, <2>6, <2>8, <2>9, <2>10, <2>11
<1>9. CASE gnss.api /\ ~Updates(control, config)
  <2>1. control' = control /\ gnss' = gnss /\ orders' = orders
    BY <1>9 DEF UpdateConfiguration
  <2>2. config = control.last /\ "server" \notin DOMAIN config
    BY <1>9 DEF Updates
  <2>3. \A i \in ConfigItems : asked'.wish[i] = asked.wish[i]
    <3>1. \A i \in DOMAIN config : config[i] = asked.wish[i]
      BY <2>2 DEF LastIsWished
    <3> QED
      BY <1>2, <3>1
  <2>4. ControlTypeOK'
    BY <1>1, <1>2, <2>1, StateShape, StateShapeNext
  <2>5. CallbacksComeFirst'
    BY <1>1, <2>1 DEF CallbacksComeFirst
  <2>6. WishesAreKept'
    BY <1>1, <1>5, <2>1, <2>3 DEF WishesAreKept
  <2>7. LastIsWished'
    BY <1>6, <2>1, <2>3 DEF LastIsWished
  <2> QED
    BY <1>1, <1>3, <1>4, <2>1, <2>4, <2>5, <2>6, <2>7
<1> QED
  BY <1>7, <1>8, <1>9

LEMMA EmptyConfig == <<>> \in Configs /\ OfSettings(<<>>) /\ DOMAIN <<>> = {}
<1>1. <<>> \in [{} -> Values]
  OBVIOUS
<1>2. DOMAIN <<>> = {}
  OBVIOUS
<1> QED
  BY <1>1, <1>2 DEF Configs, OfSettings

(* A client with its orders, ready to be enabled.                          *)
Ready(q, c) ==
  /\ q \in Seq(Order) /\ c \in Client
  /\ Together(q, c, adapter.power) /\ Fresh(q, c, adapter.power, NewId)
  /\ CallbacksFirst(q, adapter.callbacks) /\ Called(q, adapter.callbacks)
  /\ \A i \in Stored : (i = Injected => adapter.inject) =>
       WillHave(q, i, FromCode(adapter.conf[i]), asked.wish[i])
  /\ \A i \in DOMAIN c.last \ {"server"} : c.last[i] = asked.wish[i]

(* The client's creation posts the callbacks and what is pending.          *)
LEMMA CreatedIsReady ==
  ASSUME ControlInv
  PROVE  Ready(orders \o (IF gnss.api THEN <<>> ELSE CreateOrders),
               IF gnss.api THEN control ELSE Created(control))
<1> USE DEF ControlInv, VotesInv, SettingsInv
<1>1. PICK q : q = orders \o (IF gnss.api THEN <<>> ELSE CreateOrders)
  OBVIOUS
<1>2. PICK c : c = IF gnss.api THEN control ELSE Created(control)
  OBVIOUS
<1>3. orders \in Seq(Order) /\ control \in Client
  BY StateShape
<1>4. Fresh(orders, control, adapter.power, NewId)
  BY NewIdIsFresh
<1>5. \A i \in Stored : i \in ConfigItems /\ i # "server"
  BY DEF Stored, ConfigItems, Injected, Always
<1>6. CASE gnss.api
  <2>1. q = orders /\ c = control
    BY <1>1, <1>2, <1>3, <1>6, ConcatEmptySeq
  <2>2. CallbacksFirst(q, adapter.callbacks) /\ Called(q, adapter.callbacks)
    BY <1>6, <2>1 DEF CallbacksComeFirst
  <2>3. \A i \in Stored : (i = Injected => adapter.inject) =>
          WillHave(q, i, FromCode(adapter.conf[i]), asked.wish[i])
    BY <1>6, <2>1 DEF WishesAreKept
  <2>4. \A i \in DOMAIN c.last \ {"server"} : c.last[i] = asked.wish[i]
    BY <2>1 DEF LastIsWished
  <2>5. Ready(q, c)
    BY <1>3, <1>4, <2>1, <2>2, <2>3, <2>4 DEF Ready
  <2> QED
    BY <1>1, <1>2, <2>5
<1>7. CASE ~gnss.api
  <2>1. PICK order \in Order : order = [op |-> "callbacks"]
    BY DEF Order, PlainOrder
  <2>2. order.op = "callbacks"
    BY <2>1
  <2>3. PICK p \in Seq(Order) : p = Append(orders, order) /\ p = orders \o <<order>>
    BY <1>3, AppendIsConcat, AppendProperties
  <2>4. Longer(orders, p) /\ p[Len(p)] = order
    BY <1>3, <2>3, AppendIsLonger
  <2>5. Together(p, control, adapter.power)
    BY <1>3, <2>2, <2>4, PostPlain
  <2>6. \A op \in {"enable", "disable", "delete"} : \A id : Has(p, op, id) <=> Has(orders, op, id)
    BY <2>2, <2>4, NumbersStay DEF IsNumbered
  <2>7. Fresh(p, control, adapter.power, NewId)
    BY <1>4, <2>6 DEF Fresh, VoteNumber, DeleteNumber
  <2>8. CallbacksFirst(p, adapter.callbacks) /\ Called(p, adapter.callbacks)
    BY <2>2, <2>4, CallbacksGrow DEF CallbacksComeFirst
  <2>9. PICK pending \in Configs : pending = gnss.pending /\ OfSettings(pending)
    BY StateShape DEF Gnss
  <2>10. \A i \in Stored : asked.wish[i] = IF i \in DOMAIN pending THEN pending[i]
                                           ELSE FromCode(adapter.conf[i])
    BY <1>7, <2>9 DEF WishesAreKept
  <2>11. \A j \in 1 .. Len(p) : p[j].op # "config"
    BY <1>7, <2>2, <2>4, Lengths DEF CallbacksComeFirst
  <2>12. \A i, v : WillHave(p, i, v, v)
    BY <2>11 DEF WillHave, Says
  <2>13. CASE gnss.pending = <<>>
    <3>1. orders \o CreateOrders = p
      <4>1. CreateOrders = <<order>> \o <<>>
        BY <2>1, <2>13 DEF CreateOrders
      <4>2. <<order>> \in Seq(Order)
        OBVIOUS
      <4> QED
        BY <2>3, <4>1, <4>2, ConcatEmptySeq
    <3>2. q = p /\ c = control
      BY <1>1, <1>2, <1>7, <2>13, <3>1 DEF Created
    <3>3. \A i \in Stored : WillHave(p, i, FromCode(adapter.conf[i]), asked.wish[i])
      BY <2>9, <2>10, <2>12, <2>13, EmptyConfig
    <3>4. \A i \in DOMAIN control.last \ {"server"} : control.last[i] = asked.wish[i]
      BY DEF LastIsWished
    <3>5. Ready(p, control)
      BY <1>3, <2>5, <2>7, <2>8, <3>3, <3>4 DEF Ready
    <3> QED
      BY <1>1, <1>2, <3>2, <3>5
  <2>14. CASE gnss.pending # <<>>
    <3>1. PICK last \in Order : last = [op |-> "config", config |-> pending]
      BY <2>9 DEF Order, ConfigOrder
    <3>2. last.op = "config" /\ last.config = pending
      BY <3>1
    <3>3. PICK r \in Seq(Order) : r = Append(p, last) /\ r = p \o <<last>>
      BY <2>3, AppendIsConcat, AppendProperties
    <3>4. Longer(p, r) /\ r[Len(r)] = last
      BY <2>3, <3>3, AppendIsLonger
    <3>5. orders \o CreateOrders = r
      <4>1. CreateOrders = <<order>> \o <<last>>
        BY <2>1, <2>9, <2>14, <3>1 DEF CreateOrders
      <4>2. <<order>> \in Seq(Order) /\ <<last>> \in Seq(Order)
        OBVIOUS
      <4> QED
        BY <1>3, <2>3, <3>3, <4>1, <4>2, ConcatAssociative
    <3>6. PICK d : d = Queued(control, pending)
      OBVIOUS
    <3>7. q = r /\ c = d
      BY <1>1, <1>2, <1>7, <2>9, <2>14, <3>5, <3>6 DEF Created
    <3>8. Together(r, d, adapter.power) /\ d \in Client
      BY <1>3, <2>5, <2>9, <3>1, <3>4, <3>6, PostConfig
    <3>9. /\ d.last = pending /\ d.queues["CONTROL"] = control.queues["CONTROL"]
          /\ d.queues["DELETEAIDINGDATA"] = control.queues["DELETEAIDINGDATA"]
      <4>1. /\ control.queues["CONFIG"].session \in {0, ConfigSession}
            /\ control.queues["CONFIG"].session = 0 => control.queues["CONFIG"].requests = <<>>
        BY <2>5 DEF Together, RequestsAreAwaited
      <4> QED
        BY <1>3, <2>9, <3>6, <4>1, QueuedIs
    <3>10. \A op \in {"enable", "disable", "delete"} : \A id : Has(r, op, id) <=> Has(p, op, id)
      BY <3>2, <3>4, NumbersStay DEF IsNumbered
    <3>11. Fresh(r, d, adapter.power, NewId)
      BY <2>7, <3>9, <3>10 DEF Fresh, VoteNumber, DeleteNumber
    <3>12. CallbacksFirst(r, adapter.callbacks) /\ Called(r, adapter.callbacks)
      BY <2>8, <3>4, CallbacksGrow
    <3>13. \A i \in Stored : WillHave(r, i, FromCode(adapter.conf[i]), asked.wish[i])
      <4> TAKE i \in Stored
      <4>1. CASE i \in DOMAIN pending
        <5>1. Says(r[Len(r)], i) /\ asked.wish[i] = r[Len(r)].config[i]
          BY <2>10, <3>2, <3>4, <4>1 DEF Says
        <5> QED
          BY <3>4, <5>1, WillHaveGrows
      <4>2. CASE i \notin DOMAIN pending
        <5>1. ~Says(r[Len(r)], i) /\ asked.wish[i] = FromCode(adapter.conf[i])
          BY <2>10, <3>2, <3>4, <4>2 DEF Says
        <5>2. WillHave(p, i, FromCode(adapter.conf[i]), asked.wish[i])
          BY <2>12, <5>1
        <5> QED
          BY <3>4, <5>1, <5>2, WillHaveGrows
      <4> QED
        BY <4>1, <4>2
    <3>14. \A i \in DOMAIN d.last \ {"server"} : d.last[i] = asked.wish[i]
      BY <2>9, <2>10, <3>9, ConfigsAre
    <3>15. Ready(r, d)
      BY <3>3, <3>8, <3>11, <3>12, <3>13, <3>14 DEF Ready
    <3> QED
      BY <1>1, <1>2, <3>7, <3>15
  <2> QED
    BY <2>13, <2>14
<1> QED
  BY <1>6, <1>7

LEMMA SetCallbackHolds ==
  ASSUME ControlInv, NEW enable \in BOOLEAN, SetCallback(enable)
  PROVE  ControlInv'
<1> USE DEF ControlInv, VotesInv, SettingsInv
<1>1. PICK q : q = orders \o (IF gnss.api THEN <<>> ELSE CreateOrders)
  OBVIOUS
<1>2. PICK c : c = IF gnss.api THEN control ELSE Created(control)
  OBVIOUS
<1>3. Ready(q, c)
  BY <1>1, <1>2, CreatedIsReady
<1>4. PICK id : id = NewId
  OBVIOUS
<1>5. /\ gnss' = [api |-> TRUE, pending |-> <<>>]
      /\ adapter' = adapter /\ engine' = engine /\ asked' = asked
  BY DEF SetCallback
<1>6. /\ q \in Seq(Order) /\ c \in Client
      /\ Together(q, c, adapter.power) /\ Fresh(q, c, adapter.power, id)
      /\ CallbacksFirst(q, adapter.callbacks) /\ Called(q, adapter.callbacks)
      /\ \A i \in Stored : (i = Injected => adapter.inject) =>
           WillHave(q, i, FromCode(adapter.conf[i]), asked.wish[i])
      /\ \A i \in DOMAIN c.last \ {"server"} : c.last[i] = asked.wish[i]
  BY <1>3, <1>4 DEF Ready
<1>7. gnss' \in Gnss /\ gnss'.api
  BY <1>5, EmptyConfig DEF Gnss
<1>8. /\ orders' \in Seq(Order) /\ control' \in Client
      /\ Together(orders', control', adapter.power)
      /\ CallbacksFirst(orders', adapter.callbacks) /\ Called(orders', adapter.callbacks)
      /\ \A i \in Stored : (i = Injected => adapter.inject) =>
           WillHave(orders', i, FromCode(adapter.conf[i]), asked.wish[i])
      /\ control'.last = c.last
  <2>1. CASE enable /\ ~c.enabled
    <3>1. control' = Enabling(c, id) /\ orders' = q \o <<[op |-> "enable", id |-> id]>>
      BY <1>1, <1>2, <1>4, <2>1 DEF SetCallback
    <3>2. PICK order \in Order : order = [op |-> "enable", id |-> id]
      BY <1>6 DEF Order, NumberedOrder, Fresh
    <3>3. orders' = Append(q, order)
      BY <1>6, <3>1, <3>2, AppendIsConcat
    <3>4. Longer(q, orders') /\ orders'[Len(orders')] = [op |-> "enable", id |-> id]
      BY <1>6, <3>2, <3>3, AppendIsLonger
    <3>5. orders' \in Seq(Order)
      BY <3>4 DEF Longer
    <3>6. Together(orders', control', adapter.power) /\ control' \in Client
      BY <1>6, <2>1, <3>1, <3>4, PostEnable
    <3>7. orders'[Len(orders')].op = "enable"
      BY <3>4
    <3>8. CallbacksFirst(orders', adapter.callbacks) /\ Called(orders', adapter.callbacks)
      BY <1>6, <3>4, CallbacksGrow
    <3>9. ~ \E i : Says(orders'[Len(orders')], i)
      BY <3>7 DEF Says
    <3>10. \A i \in Stored : (i = Injected => adapter.inject) =>
             WillHave(orders', i, FromCode(adapter.conf[i]), asked.wish[i])
      BY <1>6, <3>4, <3>9, WillHaveGrows
    <3>11. control'.last = c.last
      <4>1. PICK b : b = Turned(c, TRUE)
        OBVIOUS
      <4>2. b \in Client /\ b.last = c.last
        BY <1>6, <4>1, TurnedIs
      <4>3. PICK m \in NumberedRequest \cup ConfigRequest : m = [kind |-> "enable", id |-> id]
        BY <1>6 DEF NumberedRequest, Fresh
      <4>4. PICK d : d = Restarted(b, "CONTROL", id, m)
        OBVIOUS
      <4>5. d = control'
        BY <3>1, <4>1, <4>3, <4>4 DEF Enabling, Turned
      <4>6. id \in Nat /\ "CONTROL" \in Kinds
        BY <1>6 DEF Fresh, Kinds
      <4>7. Changed(b, d, "CONTROL", id, <<m>>)
        BY <4>2, <4>4, <4>6, RestartedIs
      <4> QED
        BY <4>2, <4>5, <4>7 DEF Changed
    <3> QED
      BY <3>5, <3>6, <3>8, <3>10, <3>11
  <2>2. CASE ~(enable /\ ~c.enabled)
    <3>1. control' = c /\ orders' = q \o <<>>
      BY <1>1, <1>2, <2>2 DEF SetCallback
    <3>2. orders' = q
      BY <1>6, <3>1, ConcatEmptySeq
    <3> QED
      BY <1>6, <3>1, <3>2
  <2> QED
    BY <2>1, <2>2
<1>9. ControlTypeOK'
  BY <1>5, <1>7, <1>8, StateShape, StateShapeNext
<1>10. VotesInv'
  BY <1>5, <1>7, <1>8 DEF CallbacksComeFirst
<1>11. EngineIsSet'
  BY <1>5 DEF EngineIsSet
<1>12. WishesAreKept'
  BY <1>5, <1>7, <1>8 DEF WishesAreKept
<1>13. LastIsWished'
  BY <1>5, <1>6, <1>8 DEF LastIsWished
<1> QED
  BY <1>9, <1>10, <1>11, <1>12, <1>13

-----------------------------------------------------------------------------
(* The theorems.                                                           *)

LEMMA PowerAtFirst ==
  ASSUME NEW q, NEW power, NEW v, PowerBefore(q, power, 1, v)
  PROVE  v = power
  BY DEF PowerBefore

LEMMA InitHolds ==
  ASSUME ControlInit
  PROVE  ControlInv
<1>1. /\ gnss = [api |-> FALSE, pending |-> <<>>]
      /\ control = [enabled |-> FALSE, last |-> <<>>, queues |-> [k \in Kinds |-> NoRequests]]
      /\ engine = [up |-> TRUE, set |-> [i \in ConfigItems |-> Unset]]
      /\ orders = <<[op |-> "setConfig"]>>
      /\ asked = [wish |-> [i \in ConfigItems |-> Default], missed |-> ConfigItems,
                  crossed |-> FALSE, refused |-> FALSE]
  BY DEF ControlInit
<1>2. PICK inject \in BOOLEAN, file \in {ToCode(Default), UnknownCode} :
        adapter = [callbacks |-> FALSE, power |-> 0, inject |-> inject, url |-> NoHost,
                   host |-> Default, conf |-> [i \in Stored |-> file]]
  BY DEF ControlInit, Stored
<1>3. gnss \in Gnss /\ ~gnss.api /\ gnss.pending = <<>>
  BY <1>1, EmptyConfig DEF Gnss
<1>4. /\ control.last = <<>>
      /\ \A k \in Kinds : control.queues[k].session = 0 /\ control.queues[k].requests = <<>>
  BY <1>1 DEF NoRequests
<1>5. ~control.enabled
  BY <1>1
<1>6. control \in Client
  <2>1. NoRequests \in Queue
    BY DEF NoRequests, Queue
  <2> QED
    BY <1>1, <2>1, EmptyConfig DEF Client
<1>7. adapter \in Adapter /\ adapter.power = 0 /\ \A i \in Stored : adapter.conf[i] = file
  BY <1>2, SettingsAssumption DEF Adapter, Values, Codes
<1>8. engine \in Engine
  BY <1>1 DEF Engine
<1>9. /\ asked \in Asked /\ asked.missed = ConfigItems
      /\ \A i \in ConfigItems : asked.wish[i] = Default
  BY <1>1, SettingsAssumption DEF Asked, Values
<1>10. ~asked.refused /\ ~asked.crossed
  BY <1>1
<1>11. /\ orders \in Seq(Order) /\ Len(orders) = 1 /\ orders[1].op = "setConfig"
       /\ \A i \in 1 .. Len(orders) : orders[i].op = "setConfig"
  <2>1. PICK order \in Order : order = [op |-> "setConfig"]
    BY DEF Order, PlainOrder
  <2>2. order.op = "setConfig" /\ orders = <<order>>
    BY <1>1, <2>1
  <2> QED
    BY <2>2
<1>12. ControlTypeOK
  BY <1>3, <1>6, <1>7, <1>8, <1>9, <1>11, StateShape
<1>13. \A op : op # "setConfig" => \A id : ~Has(orders, op, id)
  BY <1>11 DEF Has
<1>14. "CONTROL" \in Kinds /\ "CONFIG" \in Kinds /\ "DELETEAIDINGDATA" \in Kinds
  BY DEF Kinds
<1>15. Together(orders, control, adapter.power)
  <2>1. VotesFit(orders, 0, 0)
    <3>1. \A j \in 1 .. ((Len(orders) + 1) - 1) : ~IsVote(orders[j])
      BY <1>11 DEF IsVote
    <3>2. PowerBefore(orders, 0, Len(orders) + 1, 0)
      BY <3>1 DEF PowerBefore
    <3> QED
      BY <1>11, <3>2 DEF VotesFit
  <2>2. Voted(control) = 0
    BY <1>5 DEF Voted
  <2>3. NumberedOnce(orders)
    BY <1>11 DEF NumberedOnce, IsNumbered
  <2>4. NumbersApart(orders, control, adapter.power)
    BY <1>4, <1>7, <1>13, <1>14 DEF NumbersApart, DeleteNumber
  <2>5. AwaitsConfigs(orders, <<>>)
    <3> DEFINE f == [a \in 1 .. 0 |-> 1]
    <3>1. Len(<<>>) = 0 /\ 1 .. 0 = {}
      OBVIOUS
    <3>2. f \in [1 .. 0 -> 1 .. Len(orders)]
      BY <3>1
    <3>3. Places(orders, <<>>, f)
      BY <1>11, <3>1, <3>2 DEF Places
    <3> QED
      BY <3>1, <3>2, <3>3 DEF AwaitsConfigs
  <2>6. RequestsAreAwaited(orders, control)
    BY <1>4, <1>13, <1>14, <2>5 DEF RequestsAreAwaited, AwaitsVotes, AwaitsDeletion
  <2> QED
    BY <1>5, <1>7, <2>1, <2>2, <2>3, <2>4, <2>6 DEF Together
<1>16. CallbacksComeFirst
  BY <1>3, <1>4, <1>11 DEF CallbacksComeFirst, CallbacksFirst
<1>17. EngineIsSet
  BY <1>9 DEF EngineIsSet, Stored, ConfigItems
<1>18. WishesAreKept
  <2>1. FromCode(file) = Default
    BY CodesAreRead, SettingsAssumption DEF FromCode, ToCode, UnknownCode
  <2>2. \A i \in Stored : i \in ConfigItems
    BY DEF Stored, ConfigItems
  <2> QED
    BY <1>3, <1>7, <1>9, <2>1, <2>2, EmptyConfig DEF WishesAreKept
<1>19. LastIsWished
  BY <1>4, EmptyConfig DEF LastIsWished
<1> QED
  BY <1>10, <1>12, <1>15, <1>16, <1>17, <1>18, <1>19 DEF ControlInv, VotesInv, SettingsInv

LEMMA ServiceCallHolds ==
  ASSUME ControlInv, ServiceCall(ConfigItems)
  PROVE  ControlInv'
<1>1. ASSUME NEW enable \in BOOLEAN, SetCallback(enable) PROVE ControlInv'
  BY <1>1, SetCallbackHolds
<1>2. CASE Cleanup
  BY <1>2, CleanupHolds
<1>3. ASSUME NEW i \in ConfigItems, NEW v \in Settings, UpdateConfiguration([j \in {i} |-> v])
      PROVE  ControlInv'
  <2>1. PICK config : config = [j \in {i} |-> v]
    OBVIOUS
  <2>2. config \in [{i} -> Values]
    BY <2>1 DEF Values
  <2>3. config \in Configs
    BY <2>2 DEF Configs
  <2>4. OfSettings(config)
    BY <2>1 DEF OfSettings
  <2>5. UpdateConfiguration(config)
    BY <1>3, <2>1
  <2> QED
    BY <2>3, <2>4, <2>5, UpdateConfigurationHolds
<1> QED
  BY <1>1, <1>2, <1>3 DEF ServiceCall

(* Whatever the service is asked to do, and however the engine fails, the  *)
(* state is of its type, the votes follow the client and the settings what *)
(* was asked for.                                                          *)
THEOREM ControlHolds == ControlSpec => [](ControlTypeOK /\ VotesInv /\ SettingsInv)
<1>1. ControlInit => ControlInv
  BY InitHolds
<1>2. ControlInv /\ [ControlNext]_controlVars => ControlInv'
  <2> SUFFICES ASSUME ControlInv, [ControlNext]_controlVars PROVE ControlInv'
    OBVIOUS
  <2>1. CASE ServiceCall(ConfigItems)
    BY <2>1, ServiceCallHolds
  <2>2. CASE DeleteAidingData
    BY <2>2, DeleteAidingDataHolds
  <2>3. CASE HandleOrder
    BY <2>3, SetControlCallbacksHolds, EnableHolds, DisableHolds, HandleConfigHolds,
       HandleDeleteHolds, SetConfigHolds DEF HandleOrder
  <2>4. CASE EngineDown
    BY <2>4, EngineDownHolds
  <2>5. CASE EngineUp
    BY <2>5, EngineUpHolds
  <2>6. CASE UNCHANGED controlVars
    BY <2>6, StutterHolds
  <2> QED
    BY <2>1, <2>2, <2>3, <2>4, <2>5, <2>6 DEF ControlNext
<1>3. ControlInv => ControlTypeOK /\ VotesInv /\ SettingsInv
  BY DEF ControlInv
<1> QED
  BY <1>1, <1>2, <1>3, PTL DEF ControlSpec

(* With no message waiting the adapter votes for power exactly while the   *)
(* client is enabled, under the session that its disable will name; no     *)
(* enable or disable is ever refused, and no answer is taken for another's.*)
THEOREM VotesFollowClients == ControlSpec => []PowerFollowsClient
<1>1. ControlTypeOK /\ VotesInv /\ SettingsInv => PowerFollowsClient
  <2> SUFFICES ASSUME ControlTypeOK, VotesInv PROVE PowerFollowsClient
    OBVIOUS
  <2>1. ~asked.refused /\ ~asked.crossed
    BY DEF VotesInv
  <2>2. ASSUME Quiet PROVE adapter.power = Voted(control)
    <3>1. Len(orders) = 0 /\ Len(orders) + 1 = 1
      BY <2>2 DEF Quiet
    <3>2. PowerBefore(orders, adapter.power, 1, Voted(control))
      BY <3>1 DEF VotesInv, Together, VotesFit
    <3> QED
      BY <3>2, PowerAtFirst
  <2> QED
    BY <2>1, <2>2 DEF PowerFollowsClient, Voted
<1> QED
  BY <1>1, ControlHolds, PTL

(* With no message waiting, every setting the engine has not missed is the *)
(* last one asked for; the lock is off while power is voted for.           *)
THEOREM SettingsAreObeyed == ControlSpec => []EngineObeys
<1>1. ControlTypeOK /\ VotesInv /\ SettingsInv => EngineObeys
  <2> SUFFICES ASSUME SettingsInv, Quiet, gnss.api,
                      NEW i \in ConfigItems \ ({"server"} \cup asked.missed)
               PROVE  engine.set[i] = IF i = "lock" /\ adapter.power > 0 THEN NoLock
                                      ELSE asked.wish[i]
    BY DEF EngineObeys
  <2>1. i \in Stored \ asked.missed
    BY DEF ConfigItems, Stored
  <2>2. engine.set[i] = IF i = "lock" /\ adapter.power > 0 THEN NoLock
                        ELSE FromCode(adapter.conf[i])
    BY <2>1 DEF SettingsInv, EngineIsSet
  <2>3. i = Injected => adapter.inject
    BY <2>1 DEF SettingsInv, EngineIsSet
  <2>4. WillHave(orders, i, FromCode(adapter.conf[i]), asked.wish[i])
    BY <2>1, <2>3 DEF SettingsInv, WishesAreKept
  <2>5. 1 .. Len(orders) = {}
    BY DEF Quiet
  <2>6. FromCode(adapter.conf[i]) = asked.wish[i]
    BY <2>4, <2>5 DEF WillHave
  <2> QED
    BY <2>2, <2>6
<1> QED
  BY <1>1, ControlHolds, PTL
=============================================================================
