---------------------------- MODULE FixedWindow ----------------------------
(***************************************************************************)
(* What the rate limiter promises for each key: windows of a fixed length, *)
(* and at most Limit requests served in each, counted one at a time.       *)
(***************************************************************************)
EXTENDS Integers

CONSTANTS
    Key,      \* namespace and identity of a limited operation
    Limit,    \* RateLimit.requests
    Window,   \* RateLimit.window_seconds
    None      \* no window is open

VARIABLES clock, window

Init ==
    /\ clock = 0
    /\ window = [k \in Key |-> None]

\* The first request of a window; it may have arrived a while ago.
Open(k) ==
    \E t \in 0 .. clock :
        /\ window[k] # None => window[k].expires <= t
        /\ window' = [window EXCEPT
                        ![k] = [start |-> t, expires |-> t + Window, count |-> 1]]
        /\ UNCHANGED clock

Serve(k) ==
    LET w == window[k] IN
    /\ w # None /\ w.count < Limit
    /\ window' = [window EXCEPT ![k] = [start |-> w.start, expires |-> w.expires,
                                       count |-> w.count + 1]]
    /\ UNCHANGED clock

\* Windows that are over may be forgotten, several at once.
Forget ==
    \E over \in SUBSET {k \in Key : window[k] # None /\ window[k].expires < clock} :
        /\ window' = [k \in Key |-> IF k \in over THEN None ELSE window[k]]
        /\ UNCHANGED clock

Advance ==
    /\ clock' = clock + 1
    /\ UNCHANGED window

Next == (\E k \in Key : Open(k) \/ Serve(k)) \/ Forget \/ Advance

Spec == Init /\ [][Next]_<<clock, window>>
=============================================================================
