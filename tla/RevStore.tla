------------------------------ MODULE RevStore ------------------------------
(***************************************************************************)
(* What a store with optimistic locking promises its clients, without a    *)
(* revision number: a client reads a row and later commits a change of it  *)
(* only if nobody has changed or deleted the row in between; of two        *)
(* clients that have read the same row the first to commit wins.           *)
(***************************************************************************)
CONSTANTS Keys, Clients, Data,
          NoKey        \* no row

VARIABLES row,         \* the stored rows
          intent       \* what each client has read and means to change

storeVars == <<row, intent>>

Row == [state : {"fresh", "stored", "deleted"}, data : Data]
Intent == [key : Keys \union {NoKey}, current : BOOLEAN]
NoIntent == [key |-> NoKey, current |-> FALSE]

StoreInit ==
    /\ row \in [Keys -> Row]
    /\ \A k \in Keys : row[k].state # "deleted"
    /\ intent = [c \in Clients |-> NoIntent]

\* The row of k, and no other, becomes st, with any data.
Becomes(k, st) ==
    /\ row'[k] \in Row /\ row'[k].state = st
    /\ row' = [row EXCEPT ![k] = row'[k]]

\* The change of k by c leaves no other intent on k current.
Outdates(c, k) ==
    intent' = [x \in Clients |->
        IF x = c THEN NoIntent
        ELSE IF intent[x].key = k THEN [key |-> k, current |-> FALSE] ELSE intent[x]]

\* A client reads a row that it means to change.
ReadRow(c, k) ==
    /\ intent[c] = NoIntent /\ row[k].state = "stored"
    /\ intent' = [intent EXCEPT ![c] = [key |-> k, current |-> TRUE]]
    /\ UNCHANGED row

GiveUp(c) == intent' = [intent EXCEPT ![c] = NoIntent] /\ UNCHANGED row

\* A row is stored under a key that nobody has used before.
Insert(c, k) ==
    /\ row[k].state = "fresh" /\ intent[c] = NoIntent
    /\ Becomes(k, "stored")
    /\ UNCHANGED intent

\* Only what is still as it was read is changed.
Commit(c, k) ==
    /\ intent[c] = [key |-> k, current |-> TRUE] /\ row[k].state = "stored"
    /\ Becomes(k, "stored")
    /\ Outdates(c, k)

\* A deletion asks for no revision; the key is never used again.
Drop(c, k) ==
    /\ row[k].state # "fresh" /\ intent[c] = NoIntent
    /\ Becomes(k, "deleted")
    /\ Outdates(c, k)

StoreNext ==
    \E c \in Clients :
        \/ GiveUp(c)
        \/ \E k \in Keys : ReadRow(c, k) \/ Insert(c, k) \/ Commit(c, k) \/ Drop(c, k)

StoreSpec == StoreInit /\ [][StoreNext]_storeVars
=============================================================================
