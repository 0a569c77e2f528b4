------------------------------ MODULE KeyValue -----------------------------
(***************************************************************************)
(* What a Client promises to the program that uses it, without buffers,    *)
(* RESP or connections: a call on a map from keys to values takes effect   *)
(* while it lasts, and its answer tells what the effect was.  A call that  *)
(* is given up may take effect later.                                      *)
(***************************************************************************)
EXTENDS Integers

CONSTANTS
    Calls,      \* what the program may call: records with fields name, key, value, duration
    Absent,     \* not a value
    Millisecond \* the shortest time a value can be stored for

VARIABLES
    store,      \* the value of each key, or Absent
    mortal,     \* the keys whose value expires
    call,       \* the call that lasts, or NoCall
    effect,     \* what its last execution was worth, or NoEffect
    answer,     \* what the last call returned
    late,       \* calls that have returned and may still take effect
    excused     \* environment: the answer need not be true

vars == <<store, mortal, call, effect, answer, late, excused>>

NoCall == [name |-> "none"]
NoEffect == [err |-> "none", text |-> <<>>]
Result(err, text) == [err |-> err, text |-> text]

Init ==
    /\ \A k \in DOMAIN store : store[k] = Absent
    /\ mortal = {}
    /\ call = NoCall /\ effect = NoEffect
    /\ late = {}

Invoke ==
    /\ call = NoCall /\ call' \in Calls
    /\ effect' = NoEffect
    /\ UNCHANGED <<store, mortal, answer, late>>

Write(c) ==
    /\ store' = [store EXCEPT ![c.key] = c.value]
    /\ mortal' = IF c.duration >= Millisecond THEN mortal \cup {c.key}
                                              ELSE mortal \ {c.key}

\* Once, or again after the answer was lost.
Set ==
    /\ call.name = "Set" /\ Write(call)
    /\ effect' = Result("nil", <<>>)
    /\ UNCHANGED <<call, answer, late>>

\* A Set that was given up, whatever the program does meanwhile.
SetLate ==
    /\ \E c \in late : c.name = "Set" /\ Write(c)
    /\ late' \subseteq late
    /\ UNCHANGED <<call, effect, answer>>

Get ==
    /\ call.name = "Get"
    /\ effect' = IF store[call.key] = Absent THEN Result("ErrNoValue", <<>>)
                                             ELSE Result("nil", store[call.key])
    /\ UNCHANGED <<store, mortal, call, answer, late>>

\* Calls that have nothing to do with the map.
Other ==
    /\ call.name \notin {"none", "Get", "Set"}
    /\ effect' = Result("nil", <<>>)
    /\ UNCHANGED <<store, mortal, call, answer, late>>

\* The server refuses the call.
Refuse ==
    /\ call # NoCall
    /\ effect' = Result("ErrRedisException", <<>>)
    /\ UNCHANGED <<store, mortal, call, answer, late>>

\* A true answer comes after the effect, and the call has no other.  With an error
\* the call may have been executed, or may be later, or never.
Answer ==
    /\ call # NoCall /\ call' = NoCall
    /\ \/ effect # NoEffect /\ answer' = effect /\ late' = late
       \/ /\ excused \/ answer'.err \notin {"nil", "ErrNoValue"}
          /\ late' \subseteq late \cup {call}
    /\ UNCHANGED <<store, mortal, effect>>

Expire ==
    /\ \E k \in mortal : /\ store' = [store EXCEPT ![k] = Absent]
                         /\ mortal' = mortal \ {k}
    /\ UNCHANGED <<call, effect, answer, late>>

\* What was given up may never take effect.
Environment == late' \subseteq late /\ UNCHANGED <<store, mortal, call, effect, answer>>

Next ==
    \/ Invoke \/ Set \/ SetLate \/ Get \/ Other \/ Refuse \/ Answer \/ Expire
    \/ Environment

Spec == Init /\ [][Next]_vars

=============================================================================
