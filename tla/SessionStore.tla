---------------------------- MODULE SessionStore ----------------------------
(***************************************************************************)
(* The conversation store behind previous_response_id (src/session.rs) and *)
(* the turns that use it: a turn reads the history its client names        *)
(* (proxy/mod.rs), produces a response, and saves history plus its own     *)
(* items under the response's id (proxy/capture.rs, chat.rs,               *)
(* passthrough.rs).                                                        *)
(*                                                                         *)
(* Every store operation runs under one write lock and is one step.  A     *)
(* save and a hit read the wall clock twice, to stamp their entry and then *)
(* to expire.  ClockSteps says how far the clock may have moved since the  *)
(* last operation, Lapses how far it moves between the two readings of     *)
(* one: 0 is a tie, a negative step a clock set back.                      *)
(***************************************************************************)
EXTENDS Integers, Sequences, FiniteSets, FiniteSetsExt, SequencesExt

CONSTANTS
    Turns,       \* requests; each runs once
    Streaming,   \* the turns answered as an event stream
    Ids,         \* response ids
    IdOf,        \* the id of each turn's response; upstreams may repeat one
    SizeOf,      \* serialized size of the items a turn adds
    Ttl,         \* idle window
    MaxSessions, \* session count cap
    MaxBytes,    \* memory budget
    ClockSteps,  \* how the wall clock moves between two operations
    Lapses,      \* how it moves between the two readings of one operation
    MaxTime      \* bound on the clock

ASSUME TurnAssumption ==
    /\ Streaming \subseteq Turns
    /\ IdOf \in [Turns -> Ids]
    /\ SizeOf \in [Turns -> Nat]
ASSUME LimitAssumption ==
    /\ Ttl \in Nat /\ MaxSessions \in Nat /\ MaxBytes \in Nat /\ MaxTime \in Nat
    /\ ClockSteps \subseteq Int /\ Lapses \subseteq Int

VARIABLES
    now,      \* the latest SystemTime::now()
    stamp,    \* the first one of the same operation, which marks its entry
    sessions, \* SessionState.sessions: items, last_used_at, estimated_bytes
    total,    \* SessionState.total_bytes
    phase,    \* "idle", "open" (answer under way), "told" (a stream's client
              \* has all of it), "done" (saved, or given up)
    history,  \* the stored items a turn continues
    usedBefore \* history variable: <<i, j>> when stored id i was last used before j

vars == <<now, stamp, sessions, total, phase, history, usedBefore>>

Init ==
    /\ now = 0
    /\ stamp = 0
    /\ sessions = <<>>
    /\ total = 0
    /\ phase = [t \in Turns |-> "idle"]
    /\ history = [t \in Turns |-> <<>>]
    /\ usedBefore = {}

-----------------------------------------------------------------------------
\* The pieces the operations are made of.

Sum(S, ids) == MapThenSumSet(LAMBDA i : S[i].bytes, ids)
EstimatedBytes(items) == FoldSeq(LAMBDA t, n : SizeOf[t] + n, 0, items)

\* usize saturating_sub.
Saturating(n, m) == IF m > n THEN 0 ELSE n - m

\* remove_expired: idle for longer than the window.
Expired(S, at) == {i \in DOMAIN S : S[i].used < at - Ttl}

\* Bug: the cap itself already counts as an overflow.
OverLimitEarly(count, bytes) == count >= MaxSessions \/ (bytes > MaxBytes /\ count > 1)

\* The loop conditions of enforce_limits.
OverLimit(count, bytes) == count > MaxSessions \/ (bytes > MaxBytes /\ count > 1)

\* remove_oldest's order; entries with the same stamp come in any order.
OlderFirst(S, i, j) == S[i].used <= S[j].used

\* What enforce_limits can leave of a store: removing one oldest entry after
\* another until no loop condition holds, and not one more.
Survivors(S, bytes) ==
    {K \in SUBSET DOMAIN S :
       LET gone == DOMAIN S \ K
           left(ids) == Saturating(bytes, Sum(S, DOMAIN S \ ids))
       IN  /\ \A g \in gone, k \in K : OlderFirst(S, g, k)
           /\ ~OverLimit(Cardinality(K), left(K))
           /\ gone = {} \/ \E g \in gone :
                /\ \A h \in gone : OlderFirst(S, h, g)
                /\ OverLimit(Cardinality(K) + 1, left(K \cup {g}))}

Keep(S, ids) == [i \in ids |-> S[i]]

Among(ids) == {p \in usedBefore : p[1] \in ids /\ p[2] \in ids}

\* `i` has just been used; of the other ids, those in `kept` remain.
UsedLast(i, kept) ==
    Among(kept \ {i}) \cup ((kept \ {i}) \X (kept \cap {i}))

\* Bug: the bytes of the entry a save replaces stay counted.
ReplacedBytesLeaked(i) == 0

\* What a save takes off the running total: the entry it replaces.
ReplacedBytes(i) == IF i \in DOMAIN sessions THEN sessions[i].bytes ELSE 0

-----------------------------------------------------------------------------
\* What the clock may show an operation, and show it again.
Clock == {now + d : d \in ClockSteps} \cap 0..MaxTime
Again(at) == {at + d : d \in Lapses} \cap 0..MaxTime

\* SessionStore::get finds `i`: the entry is refreshed first, then everything
\* that has expired by the second reading is dropped.
Hit(i, at, later) ==
    LET touched == [sessions EXCEPT ![i].used = at]
        gone == Expired(touched, later)
    IN  /\ i \in DOMAIN sessions
        /\ sessions' = Keep(touched, DOMAIN touched \ gone)
        /\ total' = Saturating(total, Sum(touched, gone))
        /\ usedBefore' = UsedLast(i, DOMAIN touched \ gone)

\* SessionStore::get finds nothing, and purges nothing.
Miss(i) == i \notin DOMAIN sessions /\ UNCHANGED <<sessions, total, usedBefore>>

\* A turn begins without previous_response_id.
BeginNew(t) ==
    /\ phase[t] = "idle"
    /\ phase' = [phase EXCEPT ![t] = "open"]
    /\ UNCHANGED <<now, stamp, sessions, total, history, usedBefore>>

\* A turn begins by looking up the session it continues; after a miss it goes
\* on without history.
BeginContinued(t, prev) ==
    /\ phase[t] = "idle"
    /\ phase' = [phase EXCEPT ![t] = "open"]
    /\ \/ \E at \in Clock : \E later \in Again(at) :
            /\ Hit(prev, at, later)
            /\ stamp' = at
            /\ now' = later
            /\ history' = [history EXCEPT ![t] = sessions[prev].items]
       \/ /\ Miss(prev)
          /\ UNCHANGED <<now, stamp, history>>

\* The turn fails, or its request says store: false; nothing is saved.
Abandon(t) ==
    /\ phase[t] = "open"
    /\ phase' = [phase EXCEPT ![t] = "done"]
    /\ UNCHANGED <<now, stamp, sessions, total, history, usedBefore>>

\* A stream forwards response.completed, and with it the id; it saves later.
Complete(t) ==
    /\ t \in Streaming
    /\ phase[t] = "open"
    /\ phase' = [phase EXCEPT ![t] = "told"]
    /\ UNCHANGED <<now, stamp, sessions, total, history, usedBefore>>

\* Bug: the session keeps only this turn's items.
ContextWithoutHistory(t) == <<t>>

\* save_session: the complete conversation, this turn's items last.
Context(t) == Append(history[t], t)

\* The store with the entry a save at time `at` makes, nothing dropped yet.
Inserted(t, at) ==
    LET new == [items |-> Context(t), used |-> at, bytes |-> EstimatedBytes(Context(t))]
    IN  [i \in DOMAIN sessions \cup {IdOf[t]} |-> IF i = IdOf[t] THEN new ELSE sessions[i]]

\* SessionStore::save: insert, then expire, then enforce the limits.
Store(t, at, later) ==
    LET all == Inserted(t, at)
        gone == Expired(all, later)
        live == Keep(all, DOMAIN all \ gone)
        counted == Saturating(total, ReplacedBytes(IdOf[t])) + all[IdOf[t]].bytes
        unexpired == Saturating(counted, Sum(all, gone))
    IN  \E K \in Survivors(live, unexpired) :
          /\ sessions' = Keep(live, K)
          /\ total' = Saturating(unexpired, Sum(live, DOMAIN live \ K))
          /\ usedBefore' = UsedLast(IdOf[t], K)

\* A turn ends by saving its session, a stream after its client was told.  A
\* context larger than the whole budget is not cached, and an older entry
\* under its id stays.
Save(t) ==
    /\ phase[t] = IF t \in Streaming THEN "told" ELSE "open"
    /\ phase' = [phase EXCEPT ![t] = "done"]
    /\ \/ /\ EstimatedBytes(Context(t)) > MaxBytes
          /\ UNCHANGED <<now, stamp, sessions, total, usedBefore>>
       \/ /\ EstimatedBytes(Context(t)) <= MaxBytes
          /\ \E at \in Clock : \E later \in Again(at) :
               stamp' = at /\ now' = later /\ Store(t, at, later)
    /\ UNCHANGED history

\* The hourly sweep, which reads the clock once.
Cleanup ==
    /\ \E at \in Clock :
         LET gone == Expired(sessions, at)
         IN  /\ now' = at
             /\ stamp' = at
             /\ sessions' = Keep(sessions, DOMAIN sessions \ gone)
             /\ total' = Saturating(total, Sum(sessions, gone))
             /\ usedBefore' = Among(DOMAIN sessions')
    /\ UNCHANGED <<phase, history>>

Next ==
    \/ \E t \in Turns :
         \/ BeginNew(t) \/ \E prev \in Ids : BeginContinued(t, prev)
         \/ Abandon(t) \/ Complete(t) \/ Save(t)
    \/ Cleanup

Spec == Init /\ [][Next]_vars

-----------------------------------------------------------------------------
\* Properties.

TypeOK ==
    /\ now \in 0..MaxTime /\ stamp \in 0..MaxTime
    /\ DOMAIN sessions \subseteq Ids
    /\ \A i \in DOMAIN sessions :
         /\ sessions[i].items \in Seq(Turns)
         /\ sessions[i].used \in 0..MaxTime
         /\ sessions[i].bytes \in Nat
    /\ total \in Nat
    /\ phase \in [Turns -> {"idle", "open", "told", "done"}]
    /\ history \in [Turns -> Seq(Turns)]
    /\ usedBefore \subseteq (DOMAIN sessions) \X (DOMAIN sessions)

\* The running total never drifts from the entries, through overwrites, expiry,
\* eviction and refused oversized saves ("total_bytes cannot drift from the
\* stored entries"), and the caps hold after every operation.
WithinLimits ==
    /\ TypeOK
    /\ total = Sum(sessions, DOMAIN sessions)
    /\ Cardinality(DOMAIN sessions) <= MaxSessions /\ total <= MaxBytes

\* The clock has advanced from each use of a stored session to the next, and
\* does so again in this step.  (A tie or a clock set back misleads the stamps.)
ClockForward ==
    /\ \A p \in usedBefore : sessions[p[1]].used < sessions[p[2]].used
    /\ \A i \in DOMAIN sessions : sessions[i].used < stamp'
    /\ stamp' <= now'

\* `i` had to leave: what stays, with `i` and all that left although it was used
\* after `i`, is over a cap.
HadToLeave(i) ==
    LET more == {i} \cup {j \in DOMAIN sessions \ DOMAIN sessions' : <<i, j>> \in usedBefore}
    IN  \/ Cardinality(DOMAIN sessions' \cup more) > MaxSessions
        \/ Sum(sessions', DOMAIN sessions') + Sum(sessions, more) > MaxBytes

\* While the clock runs forward, a session leaves the store only idle beyond
\* the window, or in a save that would overflow a cap with it, and then it was
\* used less recently than all that stay.  What was just saved can be found by
\* the next turn, unless it alone exceeds the budget, no session may stay at
\* all, or the window has passed by the second reading of the clock, as it
\* always has with ttl_hours = 0.
EvictsLeastRecentlyUsed ==
    [][ClockForward =>
       /\ \A i \in DOMAIN sessions \ DOMAIN sessions' :
            \/ sessions[i].used + Ttl < now'
            \/ /\ \E t \in Turns : Save(t) /\ IdOf[t] \in DOMAIN sessions'
               /\ HadToLeave(i)
               /\ \A j \in DOMAIN sessions' :
                    <<j, i>> \in usedBefore => sessions'[j].used = stamp'
       /\ \A t \in Turns :
            Save(t) /\ EstimatedBytes(Context(t)) <= MaxBytes /\ MaxSessions > 0
              => \/ IdOf[t] \in DOMAIN sessions' /\ sessions'[IdOf[t]].used = stamp'
                 \/ stamp' + Ttl < now']_vars

\* An entry is the whole conversation: what its turn found plus its own items,
\* so a turn is stored after every turn its history was built from.
WholeConversation ==
    \A i \in DOMAIN sessions :
      LET s == sessions[i].items
      IN  /\ s # <<>>
          /\ IdOf[Last(s)] = i
          /\ Front(s) = history[Last(s)]
=============================================================================
