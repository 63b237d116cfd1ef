----------------------------- MODULE Dictionary ------------------------------
(***************************************************************************)
(* What hashtable.h promises to the caller of a table: a partial function  *)
(* from keys to data that refuses to insert a key twice.                   *)
(***************************************************************************)
CONSTANTS Key, Data, NULL

VARIABLES
  dict,      (* the data stored for each key that was inserted *)
  reply,     (* what the last call returned *)
  usable     (* until the table is destroyed or memory is exhausted *)

dictVars == <<dict, reply, usable>>

Says(code, data) == reply' = [code |-> code, data |-> data]

Init ==
  /\ dict = [k \in {} |-> NULL]
  /\ reply = [code |-> "HASH_NO_ERROR", data |-> NULL]
  /\ usable = TRUE

Insert(k, d) ==
  /\ k \notin DOMAIN dict
  /\ dict' = [x \in DOMAIN dict \cup {k} |-> IF x = k THEN d ELSE dict[x]]
  /\ Says("HASH_NO_ERROR", NULL)

InsertRefused(k) ==
  /\ k \in DOMAIN dict
  /\ Says("HASH_EXIST", NULL)
  /\ UNCHANGED dict

Replace(k, d) ==
  /\ k \in DOMAIN dict
  /\ dict' = [dict EXCEPT ![k] = d]
  /\ Says("HASH_NO_ERROR", NULL)

Find(k) ==
  /\ k \in DOMAIN dict
  /\ Says("HASH_NO_ERROR", dict[k])
  /\ UNCHANGED dict

Miss(k) ==
  /\ k \notin DOMAIN dict
  /\ Says("HASH_NOT_FOUND", NULL)
  /\ UNCHANGED dict

Call ==
  /\ usable
  /\ \E k \in Key : \/ \E d \in Data : Insert(k, d) \/ Replace(k, d)
                    \/ InsertRefused(k)
                    \/ Find(k)
                    \/ Miss(k)
  /\ UNCHANGED usable

Close ==
  /\ usable
  /\ usable' = FALSE
  /\ UNCHANGED <<dict, reply>>

Next == Call \/ Close

Spec == Init /\ [][Next]_dictVars
=============================================================================
