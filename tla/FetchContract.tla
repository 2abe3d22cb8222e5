--------------------------- MODULE FetchContract ---------------------------
(***************************************************************************)
(* What UpstreamClient.fetch promises its callers, without loads, futures, *)
(* retries or wake-ups (app/services/base.py, app/services/cache.py).      *)
(*                                                                         *)
(* The cache is a memory with the last good payload of every key and a     *)
(* lock per key: of the calls that ask for a key, at most one refreshes    *)
(* it, and only the refresher writes, at the moment it lets go.  A call is *)
(* answered by a payload that was fresh, by one received since it asked,   *)
(* or by the memory as it is when the answer is given.                     *)
(***************************************************************************)
EXTENDS Naturals

CONSTANTS Callers, Keys, None, Ttl, ServeStale, Faults

VARIABLES
    time,
    memory,    \* key -> the instant its last good payload was received
    refresher, \* key -> the call that refreshes it, or None
    status,    \* call -> "idle", "asking", "answered", "raised"
    wants,     \* call -> its key
    since,     \* call -> when it asked
    reply      \* call -> what it was answered

contractVars == <<time, memory, refresher, status, wants, since, reply>>

Fresh(k) == memory[k] # None /\ time < memory[k] + Ttl[k]

Payload(v)    == [ok |-> TRUE, stale |-> FALSE, value |-> v, error |-> "none"]
Old(v, exc)   == [ok |-> TRUE, stale |-> TRUE, value |-> v, error |-> exc]
Nothing(exc)  == [ok |-> FALSE, stale |-> FALSE, value |-> 0, error |-> exc]

\* The answer to a failure: never nothing where the memory and the policy have
\* something, and never unflagged.
Degraded(k, exc) ==
    IF ServeStale[k] /\ memory[k] # None THEN Old(memory[k], exc) ELSE Nothing(exc)

ContractInit ==
    /\ time = 0
    /\ memory = [k \in Keys |-> None]
    /\ refresher = [k \in Keys |-> None]
    /\ status = [c \in Callers |-> "idle"]
    /\ wants = [c \in Callers |-> None]
    /\ since = [c \in Callers |-> 0]
    /\ reply = [c \in Callers |-> None]

Becomes(c, st)   == status' = [status EXCEPT ![c] = st]
Reply(c, answer) == Becomes(c, "answered") /\ reply' = [reply EXCEPT ![c] = answer]
Raise(c)         == Becomes(c, "raised") /\ UNCHANGED reply

Ask(c, k) ==
    /\ status[c] = "idle"
    /\ wants' = [wants EXCEPT ![c] = k]
    /\ since' = [since EXCEPT ![c] = time]
    /\ UNCHANGED <<time, memory>>

AnswerAtOnce(c, k) ==
    /\ Ask(c, k)
    /\ Fresh(k)
    /\ Reply(c, Payload(memory[k]))
    /\ UNCHANGED refresher

Refresh(c, k) ==
    /\ Ask(c, k)
    /\ ~Fresh(k) /\ refresher[k] = None
    /\ refresher' = [refresher EXCEPT ![k] = c]
    /\ Becomes(c, "asking")
    /\ UNCHANGED reply

\* The call shares the refresh of another one, and what has become of it.
Follow(c, k) ==
    /\ Ask(c, k)
    /\ ~Fresh(k) /\ refresher[k] # None
    /\ (Becomes(c, "asking") /\ UNCHANGED reply) \/ Raise(c)
    /\ UNCHANGED refresher

Release(c) ==
    /\ status[c] = "asking" /\ refresher[wants[c]] = c
    /\ refresher' = [refresher EXCEPT ![wants[c]] = None]
    /\ UNCHANGED <<time, wants, since>>

Receive(c) ==
    /\ Release(c)
    /\ memory' = [memory EXCEPT ![wants[c]] = time]
    /\ Reply(c, Payload(time))

GiveUp(c, exc) ==
    /\ Release(c)
    /\ Reply(c, Degraded(wants[c], exc)) \/ Raise(c)
    /\ UNCHANGED memory

\* A call that shares a refresh is answered when that is over: with a payload
\* received since it asked, or from the memory.
Share(c) ==
    /\ status[c] = "asking" /\ refresher[wants[c]] # c
    /\ \/ \E v \in since[c] .. time : Reply(c, Payload(v))
       \/ \E exc \in Faults : Reply(c, Degraded(wants[c], exc))
       \/ Raise(c)
    /\ UNCHANGED <<time, memory, refresher, wants, since>>

\* The request that asked is gone; its lock, if any, goes with it.
Abandon(c) ==
    /\ status[c] = "asking"
    /\ refresher' = [k \in Keys |-> IF refresher[k] = c THEN None ELSE refresher[k]]
    /\ Becomes(c, "idle")
    /\ wants' = [wants EXCEPT ![c] = None]
    /\ since' = [since EXCEPT ![c] = 0]
    /\ UNCHANGED <<time, memory, reply>>

Free(c) ==
    /\ status[c] \in {"answered", "raised"}
    /\ Becomes(c, "idle")
    /\ wants' = [wants EXCEPT ![c] = None]
    /\ since' = [since EXCEPT ![c] = 0]
    /\ reply' = [reply EXCEPT ![c] = None]
    /\ UNCHANGED <<time, memory, refresher>>

Flush ==
    /\ memory' = [k \in Keys |-> None]
    /\ UNCHANGED <<time, refresher, status, wants, since, reply>>

Pass ==
    /\ time' = time + 1
    /\ UNCHANGED <<memory, refresher, status, wants, since, reply>>

ContractNext ==
    \/ \E c \in Callers :
          \/ \E k \in Keys : AnswerAtOnce(c, k) \/ Refresh(c, k) \/ Follow(c, k)
          \/ Receive(c) \/ \E exc \in Faults : GiveUp(c, exc)
          \/ Share(c) \/ Abandon(c) \/ Free(c)
    \/ Flush
    \/ Pass

ContractSpec == ContractInit /\ [][ContractNext]_contractVars
=============================================================================
