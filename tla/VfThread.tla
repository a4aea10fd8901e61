------------------------------ MODULE VfThread ------------------------------
(***************************************************************************)
(* The primitives of vf_thread.h the thread pool is built from: one mutex, *)
(* the condition variables used with it, and the vf_thread_t objects of    *)
(* the threads started (Windows branch, the one that compiles).  Each      *)
(* operator is the part of an action that makes the call; the effect of    *)
(* the Win32 function under it is taken from how the wrapper uses it.      *)
(***************************************************************************)
EXTENDS Naturals

CONSTANT NoThread     \* the owner of a mutex nobody holds

VARIABLES
    mutex,            \* the thread inside the critical section, or NoThread
    waiting,          \* condition variable -> the threads asleep on it
    handle            \* vf_thread_t slot -> what its handle field holds

\* A handle is "garbage" until CreateThread stores its result, "live" or "null".
HandleState == {"garbage", "null", "live", "closed"}

vf_mutex_lock(t) == mutex = NoThread /\ mutex' = t

vf_mutex_unlock(t) == mutex = t /\ mutex' = NoThread

\* Releasing the mutex and falling asleep is one step: no signal slips between.
vf_cond_wait(t, c) == /\ vf_mutex_unlock(t)
                      /\ waiting' = [waiting EXCEPT ![c] = @ \cup {t}]

\* The second half of the call: a thread that was woken takes the mutex again.
vf_cond_wait_returns(t, c) == t \notin waiting[c] /\ vf_mutex_lock(t)

vf_cond_signal(c) ==
    \/ waiting[c] = {} /\ UNCHANGED waiting
    \/ \E t \in waiting[c] : waiting' = [waiting EXCEPT ![c] = @ \ {t}]

\* A broadcast on every condition variable of the set C.
vf_cond_broadcast(C) ==
    waiting' = [c \in DOMAIN waiting |-> IF c \in C THEN {} ELSE waiting[c]]

\* A condition variable may also let a sleeper go that nobody signalled.
SpuriousWakeup(t, c) == /\ t \in waiting[c]
                        /\ waiting' = [waiting EXCEPT ![c] = @ \ {t}]

vf_thread_create(k, result) == handle' = [handle EXCEPT ![k] = result]

vf_thread_join_detaches(k, exited) ==           \* mutant
    IF handle[k] = "live" THEN handle' = [handle EXCEPT ![k] = "closed"]
                          ELSE UNCHANGED handle

\* Joining a live thread waits for its exit.  The wait on a null handle fails
\* at once and is not reported further; so may the wait on a garbage handle.
vf_thread_join(k, exited) ==
    \/ /\ handle[k] = "live"
       /\ exited
       /\ handle' = [handle EXCEPT ![k] = "closed"]
    \/ /\ handle[k] \in {"null", "garbage"}
       /\ UNCHANGED handle

\* Waiting on a handle that was never written may instead never return.
vf_thread_join_hangs(k) == handle[k] = "garbage" /\ UNCHANGED handle
=============================================================================
