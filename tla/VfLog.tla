-------------------------------- MODULE VfLog --------------------------------
(***************************************************************************)
(* vf_log.h: one global logger without locks.  An owner thread calls init, *)
(* shutdown, and closes the file it gave to init; other threads log.  A    *)
(* message is four calls of fprintf, each of which reads the handle again  *)
(* and is atomic by the lock of its stream.  Levels, colours and the       *)
(* options that init copies and nobody reads are left out.                 *)
(***************************************************************************)
EXTENDS Integers, Sequences, FiniteSets

CONSTANTS LogThreads,     \* threads that log
          LogFiles,       \* what the owner logs to, one after the other
          LogNull,        \* NULL
          MaxMessages     \* bound: messages in one behaviour

ASSUME LogAssumption == LogNull \notin LogFiles /\ MaxMessages \in Nat

VARIABLES vf_log_initialized,
          log_handle,       \* _vf_log_internal_state.handle
          log_owner,        \* the file whose handle init has yet to copy, or LogNull
          log_open, log_closed,   \* files that are open; that were closed
          log_at,           \* thread -> the part of its message to be written, or 0
          log_text,         \* file -> what was written: [by, part]
          log_messages,     \* messages begun
          log_bad,          \* a part was written to no file, or to a closed one
          log_raced, log_mixed    \* history: a message met init or shutdown; another one

log_vars == <<vf_log_initialized, log_handle, log_owner, log_open, log_closed, log_at,
              log_text, log_messages, log_bad, log_raced, log_mixed>>

Parts == 1..4        \* level, text, place, newline

LogInit == /\ vf_log_initialized = FALSE /\ log_handle = LogNull /\ log_owner = LogNull
           /\ log_open = {} /\ log_closed = {}
           /\ log_at = [t \in LogThreads |-> 0]
           /\ log_text = [f \in LogFiles |-> <<>>]
           /\ log_messages = 0 /\ log_bad = FALSE
           /\ log_raced = FALSE /\ log_mixed = FALSE

Logging == \E t \in LogThreads : log_at[t] # 0
-----------------------------------------------------------------------------
(* The owner *)

\* vf_log_init announces the logger before it has copied anything.
InitAnnounces(f) ==
    /\ ~log_bad /\ log_owner = LogNull
    /\ f \notin log_open \cup log_closed
    /\ ~vf_log_initialized
    /\ vf_log_initialized' = TRUE
    /\ log_owner' = f /\ log_open' = log_open \cup {f}
    /\ UNCHANGED <<log_handle, log_closed, log_at, log_text, log_messages, log_bad,
                   log_raced, log_mixed>>

InitCopiesHandle(f) ==
    /\ ~log_bad /\ log_owner = f
    /\ log_handle' = f
    /\ log_owner' = LogNull
    /\ UNCHANGED <<vf_log_initialized, log_open, log_closed, log_at, log_text,
                   log_messages, log_bad, log_raced, log_mixed>>

vf_log_init(f) == InitAnnounces(f) \/ InitCopiesHandle(f)

\* The handle stays where it is; afterwards the owner closes its file.
vf_log_shutdown ==
    /\ ~log_bad /\ log_owner = LogNull
    /\ vf_log_initialized
    /\ vf_log_initialized' = FALSE
    /\ log_raced' = (log_raced \/ Logging)
    /\ UNCHANGED <<log_handle, log_owner, log_open, log_closed, log_at, log_text,
                   log_messages, log_bad, log_mixed>>

OwnerCloses ==
    /\ ~log_bad /\ ~vf_log_initialized
    /\ log_open # {}
    /\ log_open' = {} /\ log_closed' = log_closed \cup log_open
    /\ UNCHANGED <<vf_log_initialized, log_handle, log_owner, log_at, log_text,
                   log_messages, log_bad, log_raced, log_mixed>>
-----------------------------------------------------------------------------
(* _vf_log_message *)

MayLogAlways == TRUE                            \* mutant
MayLog == vf_log_initialized

MessageBegins(t) ==
    /\ ~log_bad /\ log_at[t] = 0
    /\ log_messages < MaxMessages /\ MayLog
    /\ log_at' = [log_at EXCEPT ![t] = 1]
    /\ log_messages' = log_messages + 1
    /\ log_raced' = (log_raced \/ log_owner # LogNull)
    /\ log_mixed' = (log_mixed \/ Logging)
    /\ UNCHANGED <<vf_log_initialized, log_handle, log_owner, log_open, log_closed,
                   log_text, log_bad>>

MessageWrites(t) ==
    /\ ~log_bad /\ log_at[t] # 0
    /\ \/ /\ log_handle \in log_open
          /\ log_text' = [log_text EXCEPT ![log_handle] =
                             Append(@, [by |-> t, part |-> log_at[t]])]
          /\ UNCHANGED log_bad
       \/ /\ log_handle \notin log_open
          /\ log_bad' = TRUE
          /\ UNCHANGED log_text
    /\ log_at' = [log_at EXCEPT ![t] = (@ + 1) % (Cardinality(Parts) + 1)]
    /\ UNCHANGED <<vf_log_initialized, log_handle, log_owner, log_open, log_closed,
                   log_messages, log_raced, log_mixed>>

_vf_log_message(t) == MessageBegins(t) \/ MessageWrites(t)

LogNext == \/ \E f \in LogFiles : vf_log_init(f)
           \/ vf_log_shutdown \/ OwnerCloses
           \/ \E t \in LogThreads : _vf_log_message(t)

LogSpec == LogInit /\ [][LogNext]_log_vars
-----------------------------------------------------------------------------
(* Properties *)

\* Every variable has its type.
LogTypeOK == /\ vf_log_initialized \in BOOLEAN
             /\ {log_handle, log_owner} \subseteq LogFiles \cup {LogNull}
             /\ log_open \cup log_closed \subseteq LogFiles
             /\ log_at \in [LogThreads -> Parts \cup {0}]
             /\ log_text \in [LogFiles -> Seq([by : LogThreads, part : Parts])]
             /\ log_messages \in 0..MaxMessages
             /\ {log_bad, log_raced, log_mixed} \subseteq BOOLEAN

\* Line k of file f: four parts in a row, of which only the last line of the
\* open file may still lack some.
Whole(f) == \A k \in DOMAIN log_text[f] :
               /\ log_text[f][k].part = ((k - 1) % Cardinality(Parts)) + 1
               /\ log_text[f][k].part > 1 => log_text[f][k].by = log_text[f][k - 1].by

\* No part of a message goes to a closed or missing file, also after the logger
\* was shut down and set up again for another file, and every line of every
\* file is one whole message: unless a message met an init or a shutdown, or
\* another message.
LogLinesWhole ==
    /\ LogTypeOK
    /\ log_bad => log_raced
    /\ ~log_raced /\ ~log_mixed => \A f \in LogFiles :
          /\ Whole(f)
          /\ f # log_handle \/ ~Logging => Len(log_text[f]) % Cardinality(Parts) = 0
=============================================================================
