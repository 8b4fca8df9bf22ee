------------------------------- MODULE BiDict -------------------------------
(***************************************************************************)
(* BiDict of the client library: the owner's ids and the session numbers,  *)
(* mapped both ways, and what is kept with a session.  Each operation      *)
(* holds the lock of the dictionary.  As in the code, setting an id again  *)
(* leaves its session of before, reading what is kept for an unknown id    *)
(* adds the id, and 0 stands for an unknown number.                        *)
(***************************************************************************)
EXTENDS Integers, Functions, Maps

EmptyDict == [forward |-> << >>, backward |-> << >>, ext |-> << >>]
Without(f, S) == Restrict(f, DOMAIN f \ S)
Set(d, id, s, ext) ==
  [forward |-> Over([i \in {id} |-> s], d.forward),
   backward |-> Over([i \in {s} |-> id], d.backward), ext |-> Over([i \in {s} |-> ext], d.ext)]
RmBySession(d, s) ==
  [forward |-> Without(d.forward, {d.backward[s]}), backward |-> Without(d.backward, {s}),
   ext |-> Without(d.ext, {s})]

RmById(d, id) ==
  [forward |-> Without(d.forward, {id}), backward |-> Without(d.backward, {d.forward[id]}),
   ext |-> Without(d.ext, {d.forward[id]})]
HasId(d, id) == id \in DOMAIN d.forward
HasSession(d, s) == s \in DOMAIN d.backward
Touch(d, id) == IF HasId(d, id) THEN d ELSE [d EXCEPT !.forward = Over([i \in {id} |-> 0], @)]
GetExtById(d, id, default) ==
  IF HasId(d, id) /\ d.forward[id] > 0 /\ d.forward[id] \in DOMAIN d.ext
  THEN d.ext[d.forward[id]] ELSE default

GetId(d, s) == IF HasSession(d, s) THEN d.backward[s] ELSE 0
GetSession(d, id) == IF HasId(d, id) THEN d.forward[id] ELSE 0
GetExtBySession(d, s, default) == IF s \in DOMAIN d.ext THEN d.ext[s] ELSE default
=============================================================================
