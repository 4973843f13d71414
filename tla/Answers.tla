------------------------------ MODULE Answers ------------------------------
(***************************************************************************)
(* What the event loop and the scheduler thread promise each other over    *)
(* request_queue_, response_queue_ and the uv_async handle: a request is   *)
(* handed over once; it is answered at most MAX_NEW_TOKENS times and never *)
(* after the response marked finished; and a response in the queue always  *)
(* has a wakeup behind it.  Scheduler and Server are each checked to be    *)
(* the one side and to ask no more of the other.                           *)
(***************************************************************************)
EXTENDS Integers

CONSTANTS Requests, MAX_NEW_TOKENS

VARIABLES asked,     \* the requests handed over
          answered,  \* answered[r]: responses pushed for r
          finals,    \* the requests whose last response was pushed
          unread,    \* response_queue_ is not empty
          woken      \* the loop is reading it or is bound to

vars == <<asked, answered, finals, unread, woken>>

Init ==
    /\ asked = {} /\ answered = [r \in Requests |-> 0] /\ finals = {}
    /\ unread = FALSE /\ woken = FALSE

Ask(r) ==
    /\ r \notin asked
    /\ asked' = asked \cup {r}
    /\ UNCHANGED <<answered, finals, unread, woken>>

Answer(r) ==
    /\ r \in asked \ finals
    /\ answered' = [answered EXCEPT ![r] = @ + 1]
    /\ finals' \in {finals, finals \cup {r}}
    /\ answered'[r] >= MAX_NEW_TOKENS => r \in finals'
    /\ unread' = TRUE /\ woken' = TRUE
    /\ UNCHANGED asked

\* The loop takes responses, and goes back to sleep only when none is left.
Read ==
    /\ woken /\ woken' \in BOOLEAN
    /\ unread' \in {unread, FALSE}
    /\ unread' => woken'
    /\ UNCHANGED <<asked, answered, finals>>

Next == Read \/ \E r \in Requests : Ask(r) \/ Answer(r)

Spec == Init /\ [][Next]_vars
=============================================================================
