---------------------------- MODULE MCLogCallbacks ----------------------------
(* Instances of LogCallbacks for TLC. *)
EXTENDS LogCallbacks, TLC
CONSTANTS t1, t2, one, two, lent, h264

MCThreads == {t1, t2}
MCQueryDevices == {one, two}
MCAdoptedDevices == {lent}
MCCodecs == {h264}

\* One thread with a callback in a callback, and one with a callback beside it.
MCMaxCalls == t1 :> 3 @@ t2 :> 2

\* Level DEBUG as in the scratch test, INFO (WARN, as in the import test, hears
\* less), OFF as enc_instance_info_new leaves it; and no callback.
MCLoggers ==
    [sink : {TRUE}, threshold : {OFF, DEBUG, INFO}]
        \cup {[sink |-> FALSE, threshold |-> DEBUG]}

\* Callbacks that follow the order one, two, lent under a probe, and that query
\* anything, their own device and back and forth included.
MCHabits ==
    { [d \in Devices |-> CASE d = one -> {two, lent} [] d = two -> {lent} [] d = lent -> {}],
      [d \in Devices |-> Devices] }
=============================================================================
