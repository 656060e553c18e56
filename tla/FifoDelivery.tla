---------------------------- MODULE FifoDelivery ----------------------------
(***************************************************************************)
(* What the transaction FIFO and its drainer promise (spec.md 4.2): an     *)
(* at-least-once queue.  A request is appended when a direct call fails,   *)
(* only the head is ever sent from the queue, and the head leaves only      *)
(* after it reached the central system or after Attempts + 1 sends.  A     *)
(* direct call of a request that is not queued may reach the central      *)
(* system at any time.                                                     *)
(***************************************************************************)
EXTENDS Naturals, Sequences, SequencesExt

CONSTANTS
    Requests,   \* request identities
    Attempts    \* TransactionMessageAttempts

VARIABLES
    q,          \* the queued requests, oldest first
    done,       \* requests that reached the central system at least once
    tries       \* sends of each request from the queue

Init == q = <<>> /\ done = {} /\ tries = [i \in Requests |-> 0]

\* A call with the queue attached: it may reach the central system, and if
\* it was not answered the request is appended.
DirectCall(i) ==
    /\ ~Contains(q, i)
    /\ done' \in {done, done \cup {i}}
    /\ q' \in {q, Append(q, i)}
    /\ UNCHANGED tries

\* One send of the head: counted, and it may reach the central system.
SendHead ==
    LET h == Head(q) IN
    /\ q # <<>>
    /\ tries[h] <= Attempts
    /\ tries' = [tries EXCEPT ![h] = @ + 1]
    /\ done' \in {done, done \cup {h}}
    /\ UNCHANGED q

\* The head leaves the queue only once it was delivered or has used up its
\* attempts.
RemoveHead ==
    /\ q # <<>>
    /\ Head(q) \in done \/ tries[Head(q)] > Attempts
    /\ q' = Tail(q)
    /\ UNCHANGED <<done, tries>>

Next == (\E i \in Requests : DirectCall(i)) \/ SendHead \/ RemoveHead

Spec == Init /\ [][Next]_<<q, done, tries>>

=============================================================================
