------------------------------- MODULE SetMap -------------------------------
(***************************************************************************)
(* LocUnorderedSetMap: a map from keys to sets of values that never keeps  *)
(* an empty set.  A map is a function from all keys; a key without an      *)
(* entry is one whose set is empty.                                        *)
(***************************************************************************)

EmptyMap(keys) == [k \in keys |-> {}]

Entries(m) == {k \in DOMAIN m : m[k] # {}}

AddVals(m, keys, vals) == [k \in DOMAIN m |-> IF k \in keys THEN m[k] \cup vals ELSE m[k]]

\* What add() reports in newKeys: the keys that had no entry before.
NewKeys(m, keys) == keys \ Entries(m)

TrimOrRemove(m, keys, vals) ==
    [k \in DOMAIN m |-> IF k \in keys THEN m[k] \ vals ELSE m[k]]

\* Mutant: every entry that anything was trimmed from is reported.
TrimmedKeys(m, keys, vals) == {k \in keys \cap Entries(m) : m[k] \cap vals # {}}

\* What trimOrRemove() means to report in goneKeys: the entries it removed.
GoneKeys(m, keys, vals) == {k \in keys \cap Entries(m) : m[k] \subseteq vals}

\* What trimOrRemove() reports in goneVals: the values it took out.
GoneVals(m, keys, vals) == UNION {m[k] \cap vals : k \in keys}

Update(m, key, vals) == [m EXCEPT ![key] = vals]

\* What update() returns, and takes out of its argument: the values that the
\* old set and the new one share.
Interset(m, key, vals) == m[key] \cap vals

=============================================================================
