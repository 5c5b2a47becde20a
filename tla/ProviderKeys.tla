---------------------------- MODULE ProviderKeys ----------------------------
(***************************************************************************)
(* OIDCValidator (src/app/auth/token_validation.py): the discovery         *)
(* document and the signing keys of the provider, cached in one process    *)
(* and refreshed under one asyncio lock, and the validation of tokens with *)
(* them while the provider rotates its keys.                               *)
(*                                                                         *)
(* Every call runs once.  A step runs to the next await of the code.  The  *)
(* provider's keys are numbered in the order of their publication, and it  *)
(* publishes a span of them.                                               *)
(***************************************************************************)
EXTENDS Integers

CONSTANTS
    Caller,  \* the coroutines that use the validator
    LastKey, \* bound: keys ever published
    Life,    \* the lifetime of both caches, 300 seconds
    Timeout, \* how long the HTTP client waits for an answer
    MaxTime, \* bound on the clock
    None

Key  == 0 .. LastKey
Span == {s \in [first : Key, last : Key] : s.first <= s.last}

\* A token: its key, and whether signature and claims are as they should be.
Token == [key : Key, sound : BOOLEAN]

Stage   == {"waiting", "keys", "metaLock", "metaFetch", "keysLock", "keysFetch", "done"}
Verdict == {"accepted", "rejected", "known", "error"}

ASSUME BoundAssumption ==
    /\ LastKey \in Nat
    /\ Life \in Nat \ {0} /\ Timeout \in Nat /\ MaxTime \in Nat

ASSUME NoneAssumption == None \notin Span \cup Token \cup Caller \cup Verdict \cup Nat

VARIABLES
    now,       \* time.monotonic()
    published, \* external: the keys of the provider's JWKS
    withdrawn, \* external: when a key left it
    keys,      \* _jwks
    keysUntil, \* _jwks_expires
    metaUntil, \* _metadata_expires, 0 when nothing is cached
    lock,      \* the coroutine that holds _lock
    pc,        \* the next step of each coroutine
    token,     \* the token that it validates, None when it needs the metadata only
    force,     \* whether it must not use the cached keys
    sent,      \* when its request left
    answer,    \* the keys on their way to it
    verdict    \* what came of it

provider == <<published, withdrawn>>
cache    == <<keys, keysUntil, metaUntil>>
vars == <<now, provider, cache, lock, pc, token, force, sent, answer, verdict>>

Init ==
    /\ now = 0
    /\ published = [first |-> 0, last |-> 0]
    /\ withdrawn = [k \in Key |-> None]
    /\ keys = None /\ keysUntil = 0 /\ metaUntil = 0
    /\ lock = None
    /\ pc = [c \in Caller |-> "waiting"]
    /\ token = [c \in Caller |-> None]
    /\ force = [c \in Caller |-> FALSE]
    /\ sent = [c \in Caller |-> 0]
    /\ answer = [c \in Caller |-> None]
    /\ verdict = [c \in Caller |-> None]

Within(k, span) == span.first <= k /\ k <= span.last

Goto(c, stage) == pc' = [pc EXCEPT ![c] = stage]

-----------------------------------------------------------------------------
(* The provider and the clock. *)

\* A key is published before it signs.
Publish ==
    /\ published.last < LastKey
    /\ published' = [first |-> published.first, last |-> published.last + 1]
    /\ UNCHANGED <<now, withdrawn, cache, lock, pc, token, force, sent, answer, verdict>>

Withdraw ==
    /\ published.first < published.last
    /\ published' = [first |-> published.first + 1, last |-> published.last]
    /\ withdrawn' = [withdrawn EXCEPT ![published.first] = now]
    /\ UNCHANGED <<now, cache, lock, pc, token, force, sent, answer, verdict>>

Answer(c) ==
    /\ pc[c] = "keysFetch" /\ answer[c] = None
    /\ answer' = [answer EXCEPT ![c] = published]
    /\ UNCHANGED <<now, provider, cache, lock, pc, token, force, sent, verdict>>

Fetching(c) == pc[c] \in {"metaFetch", "keysFetch"}

\* No request is awaited longer than Timeout.
Tick ==
    /\ now < MaxTime
    /\ \A c \in Caller : Fetching(c) => now < sent[c] + Timeout
    /\ now' = now + 1
    /\ UNCHANGED <<provider, cache, lock, pc, token, force, sent, answer, verdict>>

-----------------------------------------------------------------------------
(* The validator. *)

\* Mutant: whatever is cached is used.
KeysKept == keys # None

KeysFresh == keys # None /\ now < keysUntil

MetaFresh == now < metaUntil

Finish(c, v) ==
    /\ verdict' = [verdict EXCEPT ![c] = v]
    /\ token' = [token EXCEPT ![c] = None]
    /\ force' = [force EXCEPT ![c] = FALSE]
    /\ Goto(c, "done")

\* jwks() calls metadata() before it takes the lock.
SeekKeys(c) == Goto(c, IF MetaFresh THEN "keysLock" ELSE "metaLock")

StartValidation(c) ==
    /\ pc[c] = "waiting"
    /\ \E t \in Token : /\ t.key <= published.last
                        /\ token' = [token EXCEPT ![c] = t]
    /\ Goto(c, "keys")
    /\ UNCHANGED <<now, provider, cache, lock, force, sent, answer, verdict>>

\* The login redirect, the code exchange, the logout page, the management token and
\* the readiness probe need the metadata only.
StartMetadata(c) ==
    /\ pc[c] = "waiting"
    /\ \/ MetaFresh /\ Finish(c, "known")
       \/ ~MetaFresh /\ Goto(c, "metaLock") /\ UNCHANGED <<token, force, verdict>>
    /\ UNCHANGED <<now, provider, cache, lock, sent, answer>>

\* Mutant: a key that the cached set does not name is no reason to ask again.
DecodeOnce(c, span) ==
    Finish(c, IF Within(token[c].key, span) /\ token[c].sound THEN "accepted" ELSE "rejected")

\* Mutant: an unknown key is looked up again as often as it is unknown.
DecodeAgain(c, span) ==
    IF ~Within(token[c].key, span)
    THEN /\ force' = [force EXCEPT ![c] = TRUE]
         /\ SeekKeys(c)
         /\ UNCHANGED <<token, verdict>>
    ELSE Finish(c, IF token[c].sound THEN "accepted" ELSE "rejected")

\* _decode: once more with new keys when the token's key is unknown.
Decode(c, span) ==
    IF ~Within(token[c].key, span) /\ ~force[c]
    THEN /\ force' = [force EXCEPT ![c] = TRUE]
         /\ SeekKeys(c)
         /\ UNCHANGED <<token, verdict>>
    ELSE Finish(c, IF Within(token[c].key, span) /\ token[c].sound THEN "accepted"
                   ELSE "rejected")

ReadKeys(c) ==
    /\ pc[c] = "keys"
    /\ \/ KeysFresh /\ Decode(c, keys)
       \/ ~KeysFresh /\ SeekKeys(c) /\ UNCHANGED <<token, force, verdict>>
    /\ UNCHANGED <<now, provider, cache, lock, sent, answer>>

\* Mutant: nobody waits for the lock.
LockIgnored(c) == lock' = c

Acquire(c) == lock = None /\ lock' = c

\* Mutant: an exception leaves the lock taken.
LockLeft(c) == UNCHANGED lock

Release(c) == lock' = None

\* What follows the metadata.
AfterMeta(c) ==
    IF token[c] = None THEN Finish(c, "known")
    ELSE Goto(c, "keysLock") /\ UNCHANGED <<token, force, verdict>>

Send(c, stage) ==
    /\ sent' = [sent EXCEPT ![c] = now]
    /\ Goto(c, stage)
    /\ UNCHANGED <<token, force, verdict>>

Received(c) ==
    /\ sent' = [sent EXCEPT ![c] = 0]
    /\ answer' = [answer EXCEPT ![c] = None]

\* Under the lock the cache is looked at again.
EnterMeta(c) ==
    /\ pc[c] = "metaLock"
    /\ \/ MetaFresh /\ lock = None /\ AfterMeta(c) /\ UNCHANGED <<lock, sent>>
       \/ ~MetaFresh /\ Acquire(c) /\ Send(c, "metaFetch")
    /\ UNCHANGED <<now, provider, cache, answer>>

ReceiveMeta(c) ==
    /\ pc[c] = "metaFetch"
    /\ metaUntil' = now + Life
    /\ Release(c)
    /\ AfterMeta(c)
    /\ Received(c)
    /\ UNCHANGED <<now, provider, keys, keysUntil>>

EnterKeys(c) ==
    /\ pc[c] = "keysLock"
    /\ \/ /\ ~force[c] /\ KeysFresh /\ lock = None
          /\ Decode(c, keys)
          /\ UNCHANGED <<lock, sent>>
       \/ /\ force[c] \/ ~KeysFresh
          /\ Acquire(c) /\ Send(c, "keysFetch")
    /\ UNCHANGED <<now, provider, cache, answer>>

ReceiveKeys(c) ==
    /\ pc[c] = "keysFetch" /\ answer[c] # None
    /\ keys' = answer[c]
    /\ keysUntil' = now + Life
    /\ Release(c)
    /\ Decode(c, answer[c])
    /\ Received(c)
    /\ UNCHANGED <<now, provider, metaUntil>>

\* No answer in time, a status or a document that is not accepted: the exception
\* leaves the lock and reaches the caller.
Fail(c) ==
    /\ Fetching(c)
    /\ Release(c)
    /\ Finish(c, "error")
    /\ Received(c)
    /\ UNCHANGED <<now, provider, cache>>

Run(c) == ReadKeys(c) \/ EnterMeta(c) \/ ReceiveMeta(c) \/ EnterKeys(c) \/ ReceiveKeys(c)
          \/ Fail(c)

Rest == (\A c \in Caller : pc[c] = "done") /\ UNCHANGED vars

Next == \/ Publish \/ Withdraw \/ Tick \/ Rest
        \/ \E c \in Caller : StartValidation(c) \/ StartMetadata(c) \/ Answer(c) \/ Run(c)

Spec == Init /\ [][Next]_vars

\* The event loop runs what can go on, and the HTTP client gives up in time.
FairSpec == Spec /\ \A c \in Caller : WF_vars(Run(c))

-----------------------------------------------------------------------------
(* Properties. *)

TypeOK ==
    /\ now \in Nat
    /\ published \in Span
    /\ withdrawn \in [Key -> Nat \cup {None}]
    /\ keys \in Span \cup {None} /\ keysUntil \in Nat /\ metaUntil \in Nat
    /\ lock \in Caller \cup {None}
    /\ pc \in [Caller -> Stage]
    /\ token \in [Caller -> Token \cup {None}]
    /\ force \in [Caller -> BOOLEAN]
    /\ sent \in [Caller -> Nat]
    /\ answer \in [Caller -> Span \cup {None}]
    /\ verdict \in [Caller -> Verdict \cup {None}]

\* The lock is held by the one coroutine that awaits the provider, and by nobody else:
\* every way out of a refresh, the exceptions included, leaves it free (async with).
LockHeld == \A c \in Caller : Fetching(c) <=> lock = c

\* The inductive invariant of the proofs.
InOrder(old, new) == old.first <= new.first /\ old.last <= new.last

TokensOK ==
    \A c \in Caller :
        /\ pc[c] \in {"keys", "keysLock", "keysFetch"} => token[c] # None
        /\ force[c] => pc[c] \in {"metaLock", "metaFetch", "keysLock", "keysFetch"}
        /\ token[c] # None => token[c].key <= published.last

\* What is cached or on its way is a set that the provider has published, and the
\* cache is not ahead of an answer that is on its way.
SpansOK ==
    /\ keys # None => InOrder(keys, published)
    /\ \A c \in Caller : answer[c] # None =>
         /\ pc[c] = "keysFetch"
         /\ InOrder(answer[c], published)
         /\ keys # None => InOrder(keys, answer[c])
         /\ token[c].key <= answer[c].last

\* How long a set that names a withdrawn key may stay.
AgesOK ==
    /\ keysUntil <= now + Life
    /\ \A k \in Key : withdrawn[k] = None <=> published.first <= k
    /\ \A k \in Key : withdrawn[k] # None /\ keys # None /\ Within(k, keys) =>
         keysUntil <= withdrawn[k] + Timeout + Life
    /\ \A c \in Caller :
         /\ Fetching(c) => sent[c] <= now /\ now <= sent[c] + Timeout
         /\ answer[c] # None =>
              \A k \in Key : withdrawn[k] # None /\ Within(k, answer[c]) =>
                 sent[c] <= withdrawn[k]

\* The lock is held by the coroutine that awaits the provider and is free when it has
\* ended, by an exception too (async with); the cache holds no set newer than an
\* answer under way, and none that names a withdrawn key for too long (jwks).
KeysInv == TypeOK /\ LockHeld /\ TokensOK /\ SpansOK /\ AgesOK

\* The cached keys never go back to an older set of the provider's, whatever the order
\* in which refreshes start and end (jwks).
KeysForward ==
    [][keys # None /\ keys' # keys =>
         keys'.first >= keys.first /\ keys'.last >= keys.last]_vars

\* A good token whose key the provider publishes is never rejected for a stale cache:
\* an unknown key is looked up again (_decode).
FreshAccepted ==
    [][\A c \in Caller :
         verdict'[c] = "rejected" /\ verdict[c] # "rejected" /\ token[c].sound =>
            ~Within(token[c].key, published)]_vars

\* A withdrawn key is accepted no longer than the cache and one request may last.
WithdrawnEnds ==
    [][\A c \in Caller :
         verdict'[c] = "accepted" /\ verdict[c] # "accepted" =>
            LET w == withdrawn[token[c].key] IN w # None => now < w + Timeout + Life]_vars

\* Every call ends, whatever the provider does: nobody waits for a lock that its own
\* coroutine holds.
CallsEnd == \A c \in Caller : pc[c] # "waiting" ~> pc[c] = "done"
=============================================================================
