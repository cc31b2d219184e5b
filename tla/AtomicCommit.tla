----------------------------- MODULE AtomicCommit -----------------------------
(***************************************************************************)
(* What a collection promises of a transaction ("Commits the transaction    *)
(* atomically", DbTransaction::commit): its writes to all documents take    *)
(* effect in one step, or none of them ever does.  A crash decides every     *)
(* transaction that is open at the time, one way or the other.               *)
(***************************************************************************)
EXTENDS Integers

CONSTANTS Docs, Txs

None == 0        \* the document does not exist
Keep == -1       \* the transaction does not write the document

VARIABLES value,   \* the version each document has
          writes,  \* what each transaction writes to each document
          outcome  \* what has become of each transaction

vars == <<value, writes, outcome>>

Init ==
    /\ value = [d \in Docs |-> None]
    /\ writes = [t \in Txs |-> [d \in Docs |-> Keep]]
    /\ outcome = [t \in Txs |-> "open"]

Write(t, d, v) ==
    /\ outcome[t] = "open"
    /\ writes' = [writes EXCEPT ![t][d] = v]
    /\ UNCHANGED <<value, outcome>>

\* The transactions in C take effect, those in A never will; no two of C write the
\* same document.
Decide(C, A) ==
    /\ C \intersect A = {}
    /\ \A t \in C \union A : outcome[t] = "open"
    /\ outcome' = [t \in Txs |-> IF t \in C THEN "committed"
                                 ELSE IF t \in A THEN "aborted" ELSE outcome[t]]
    /\ \A d \in Docs :
         IF \E t \in C : writes[t][d] # Keep
         THEN \E t \in C : /\ writes[t][d] # Keep
                           /\ \A u \in C \ {t} : writes[u][d] = Keep
                           /\ value'[d] = writes[t][d]
         ELSE value'[d] = value[d]
    /\ DOMAIN value' = Docs
    /\ UNCHANGED writes

Next == \/ \E t \in Txs, d \in Docs : \E v \in {t, None} : Write(t, d, v)
        \/ \E C, A \in SUBSET Txs : Decide(C, A)

Spec == Init /\ [][Next]_vars
=============================================================================
