-------------------------- MODULE DebugOutputProofs --------------------------
(***************************************************************************)
(* Mutual exclusion and the keeping of requests in DebugOutput, for any    *)
(* number of signals, any choice of threads they run on and any outcome of *)
(* fopen.                                                                  *)
(***************************************************************************)
EXTENDS DebugOutput, TLAPS

Threads == {"aggregator", "pcp"}

Places(t) ==
    IF t = "aggregator"
    THEN {"select", "process_metric", "processing", "process_stat", "counting", "lock_output",
          "output", "write_metrics", "fopen_metrics", "write_stats", "fopen_stats", "clear",
          "unlock_output", "done"}
    ELSE {"idle", "possible_reload", "comparing", "reset_stat", "resetting", "reload",
          "mapping", "tracking", "mapped", "get_agent_stat", "reading", "joining"}

\* The places of a thread inside a critical section of a mutex.
Inside(t, m) ==
    IF t = "aggregator"
    THEN CASE m = "output" -> {"output", "write_metrics", "fopen_metrics", "write_stats",
                               "fopen_stats", "clear", "unlock_output"}
           [] m = "metrics" -> {"processing", "fopen_metrics"}
           [] m = "stats" -> {"counting", "fopen_stats"}
    ELSE CASE m = "output" -> {}
           [] m = "metrics" -> {"comparing", "mapping", "tracking", "mapped"}
           [] m = "stats" -> {"resetting", "tracking", "reading"}

Holds(t, m) ==
    owner[m] = Itself(t) <=> pc[t] \in Inside(t, m) \/ (t = "aggregator" /\ m \in kept)

\* TypeOK thread by thread, and what makes it inductive: the functions have their
\* domains, and the aggregator does not come back to a section of a mutex it kept.
Functions == DOMAIN pc = Threads /\ DOMAIN owner = Mutex

Flags ==
    /\ handler \in [Thread -> {"none", "lock", "unlock"}]
    /\ g_output_requested \in BOOLEAN
    /\ signals \in 0..MaxSignals
    /\ owed \in BOOLEAN
    /\ kept \subseteq {"metrics", "stats"}

HandlerHolds == \A t \in Thread : owner["output"] = Handler(t) <=> handler[t] = "unlock"

OwnerInv ==
    /\ Functions
    /\ Flags
    /\ \A t \in Threads : pc[t] \in Places(t)
    /\ \A t \in Threads, m \in Mutex : Holds(t, m)
    /\ \A m \in Mutex : pc["aggregator"] \in Inside("aggregator", m) => m \notin kept
    /\ HandlerHolds

LEMMA OwnerInvTypes == OwnerInv => TypeOK
<1> SUFFICES ASSUME OwnerInv PROVE TypeOK
  OBVIOUS
<1>1. Holds("aggregator", "output") /\ Holds("aggregator", "metrics") /\ Holds("aggregator", "stats")
      /\ Holds("pcp", "metrics") /\ Holds("pcp", "stats")
  BY DEF OwnerInv, Threads, Mutex
<1>2. "output" \notin kept
  BY DEF OwnerInv, Flags
<1>3. pc["aggregator"] \in Places("aggregator") /\ pc["pcp"] \in Places("pcp")
  BY DEF OwnerInv, Threads
<1> QED BY <1>1, <1>2, <1>3 DEF OwnerInv, TypeOK, Holds, Inside, Places, Flags, HandlerHolds

\* Nobody, the threads and their handlers are all different.
LEMMA OwnersDiffer ==
    /\ \A t \in Thread : Itself(t) # Nobody /\ Handler(t) # Nobody
    /\ \A t, u \in Thread : Itself(t) # Handler(u)
    /\ \A t, u \in Thread : t # u => Itself(t) # Itself(u) /\ Handler(t) # Handler(u)
<1>1. ASSUME NEW t \in Thread, NEW u \in Thread
      PROVE  /\ Itself(t) # Nobody /\ Handler(t) # Nobody /\ Itself(t) # Handler(u)
             /\ t # u => Itself(t) # Itself(u) /\ Handler(t) # Handler(u)
  <2>1. Itself(t)[1] = t /\ Handler(t)[1] = t /\ Handler(u)[1] = u /\ Itself(u)[1] = u
    BY DEF Itself, Handler
  <2>2. Nobody[1] = "nobody"
    BY DEF Nobody
  <2>3. DOMAIN Itself(t) = 1..1 /\ DOMAIN Handler(u) = 1..2
    BY DEF Itself, Handler
  <2>4. 2 \in 1..2 /\ 2 \notin 1..1
    OBVIOUS
  <2> QED BY <2>1, <2>2, <2>3, <2>4 DEF Thread
<1> QED BY <1>1

\* What a thread's step, and a change of one mutex, leave alone.
LEMMA Moves ==
    ASSUME NEW t \in Threads, NEW from, NEW to, Functions, Goto(t, from, to)
    PROVE  /\ pc[t] = from /\ handler[t] = "none"
           /\ pc'[t] = to
           /\ \A u \in Threads : u # t => pc'[u] = pc[u]
           /\ DOMAIN pc' = Threads
BY DEF Functions, Goto

LEMMA Changes ==
    ASSUME NEW m \in Mutex, NEW who, Functions, owner' = [owner EXCEPT ![m] = who]
    PROVE  /\ owner'[m] = who
           /\ \A n \in Mutex : n # m => owner'[n] = owner[n]
           /\ DOMAIN owner' = Mutex
BY DEF Functions

\* Which sections a step of a thread enters or leaves: none, but those of m.
SameSections(t, from, to, mutexes) ==
    \A m \in mutexes : from \in Inside(t, m) <=> to \in Inside(t, m)

LEMMA StepKeeps ==
    ASSUME OwnerInv, NEW t \in Threads, NEW from, NEW to \in Places(t),
           Goto(t, from, to), UNCHANGED <<owner, handler, kept>>, Flags',
           SameSections(t, from, to, Mutex)
    PROVE  OwnerInv'
<1>1. /\ pc[t] = from /\ pc'[t] = to /\ DOMAIN pc' = Threads
      /\ \A u \in Threads : u # t => pc'[u] = pc[u]
  BY Moves DEF OwnerInv
<1>2. \A u \in Threads, m \in Mutex : pc'[u] \in Inside(u, m) <=> pc[u] \in Inside(u, m)
  BY <1>1 DEF SameSections
<1>3. \A u \in Threads : pc'[u] \in Places(u)
  BY <1>1 DEF OwnerInv
<1> QED BY <1>1, <1>2, <1>3 DEF OwnerInv, Functions, Holds, HandlerHolds, Threads

LEMMA LockKeeps ==
    ASSUME OwnerInv, NEW t \in Threads, NEW m \in Mutex, NEW from, NEW to \in Places(t),
           Lock(t, m, from, to), SameSections(t, from, to, Mutex \ {m}), to \in Inside(t, m)
    PROVE  OwnerInv'
<1>1. /\ pc[t] = from /\ pc'[t] = to /\ DOMAIN pc' = Threads
      /\ \A u \in Threads : u # t => pc'[u] = pc[u]
  BY Moves DEF OwnerInv, Lock
<1>2. /\ owner[m] = Nobody /\ owner'[m] = Itself(t) /\ DOMAIN owner' = Mutex
      /\ \A n \in Mutex : n # m => owner'[n] = owner[n]
  BY Changes DEF OwnerInv, Lock, Acquire
<1>3. UNCHANGED <<handler, g_output_requested, signals, owed, kept>>
  BY DEF Lock
<1>4. m \notin kept /\ \A u \in Threads : pc[u] \notin Inside(u, m)
  BY <1>2, OwnersDiffer DEF OwnerInv, Holds, Threads, Thread
<1>5. ASSUME NEW u \in Threads, NEW n \in Mutex PROVE Holds(u, n)'
  <2>1. CASE n # m
    <3>1. pc'[u] \in Inside(u, n) <=> pc[u] \in Inside(u, n)
      BY <1>1, <2>1 DEF SameSections
    <3> QED BY <1>2, <1>3, <2>1, <3>1 DEF OwnerInv, Holds
  <2>2. CASE n = m /\ u = t
    BY <1>1, <1>2, <2>2 DEF Holds
  <2>3. CASE n = m /\ u # t
    <3>1. Itself(t) # Itself(u)
      BY <2>3, OwnersDiffer DEF Threads, Thread
    <3> QED BY <1>1, <1>2, <1>3, <1>4, <2>3, <3>1 DEF Holds
  <2> QED BY <2>1, <2>2, <2>3
<1>6. \A n \in Mutex : pc'["aggregator"] \in Inside("aggregator", n) => n \notin kept'
  BY <1>1, <1>3, <1>4 DEF OwnerInv, SameSections, Threads
<1>7. HandlerHolds'
  <2>1. CASE m # "output"
    BY <1>2, <1>3, <2>1 DEF OwnerInv, HandlerHolds, Mutex
  <2>2. CASE m = "output"
    <3>1. \A u \in Thread : Handler(u) # Nobody /\ Handler(u) # Itself(t)
      BY OwnersDiffer DEF Threads, Thread
    <3> QED BY <1>2, <1>3, <2>2, <3>1 DEF OwnerInv, HandlerHolds
  <2> QED BY <2>1, <2>2
<1>8. \A u \in Threads : pc'[u] \in Places(u)
  BY <1>1 DEF OwnerInv
<1> QED BY <1>1, <1>2, <1>3, <1>5, <1>6, <1>7, <1>8 DEF OwnerInv, Functions, Flags

LEMMA UnlockKeeps ==
    ASSUME OwnerInv, NEW t \in Threads, NEW m \in Mutex, NEW from, NEW to \in Places(t),
           Goto(t, from, to), Release(m), UNCHANGED <<handler, kept>>, Flags',
           SameSections(t, from, to, Mutex \ {m}), from \in Inside(t, m), to \notin Inside(t, m)
    PROVE  OwnerInv'
<1>1. /\ pc[t] = from /\ pc'[t] = to /\ DOMAIN pc' = Threads
      /\ \A u \in Threads : u # t => pc'[u] = pc[u]
  BY Moves DEF OwnerInv
<1>2. /\ owner'[m] = Nobody /\ DOMAIN owner' = Mutex
      /\ \A n \in Mutex : n # m => owner'[n] = owner[n]
  BY Changes DEF OwnerInv, Release
<1>3. owner[m] = Itself(t)
  BY <1>1 DEF OwnerInv, Holds
<1>4. /\ m \notin kept
      /\ \A u \in Threads : u # t => pc[u] \notin Inside(u, m)
  <2>1. \A u \in Threads : u # t => Itself(u) # Itself(t)
    BY OwnersDiffer DEF Threads, Thread
  <2> QED BY <1>1, <1>3, <2>1 DEF OwnerInv, Holds, Threads
<1>5. ASSUME NEW u \in Threads, NEW n \in Mutex PROVE Holds(u, n)'
  <2>1. CASE n # m
    <3>1. pc'[u] \in Inside(u, n) <=> pc[u] \in Inside(u, n)
      BY <1>1, <2>1 DEF SameSections
    <3> QED BY <1>2, <2>1, <3>1 DEF OwnerInv, Holds
  <2>2. CASE n = m
    <3>1. Itself(u) # Nobody
      BY OwnersDiffer DEF Threads, Thread
    <3> QED BY <1>1, <1>2, <1>4, <2>2, <3>1 DEF Holds
  <2> QED BY <2>1, <2>2
<1>6. \A n \in Mutex : pc'["aggregator"] \in Inside("aggregator", n) => n \notin kept'
  BY <1>1, <1>4 DEF OwnerInv, SameSections, Threads
<1>7. HandlerHolds'
  <2>1. CASE m # "output"
    BY <1>2, <2>1 DEF OwnerInv, HandlerHolds, Mutex
  <2>2. CASE m = "output"
    <3>1. \A u \in Thread : Handler(u) # Nobody /\ Handler(u) # Itself(t)
      BY OwnersDiffer DEF Threads, Thread
    <3> QED BY <1>2, <1>3, <2>2, <3>1 DEF OwnerInv, HandlerHolds
  <2> QED BY <2>1, <2>2
<1>8. \A u \in Threads : pc'[u] \in Places(u)
  BY <1>1 DEF OwnerInv
<1> QED BY <1>1, <1>2, <1>5, <1>6, <1>7, <1>8 DEF OwnerInv, Functions

\* The output file did not open: the aggregator leaves the section with its mutex.
LEMMA FailedOutputKeeps ==
    ASSUME OwnerInv, NEW m \in {"metrics", "stats"}, NEW from, NEW to \in Places("aggregator"),
           Goto("aggregator", from, to), kept' = kept \cup {m},
           UNCHANGED <<owner, handler, g_output_requested, signals, owed>>,
           SameSections("aggregator", from, to, Mutex \ {m}),
           from \in Inside("aggregator", m), to \notin Inside("aggregator", m)
    PROVE  OwnerInv'
<1>1. /\ pc["aggregator"] = from /\ pc'["aggregator"] = to /\ DOMAIN pc' = Threads
      /\ \A u \in Threads : u # "aggregator" => pc'[u] = pc[u]
  BY Moves DEF OwnerInv, Threads
<1>2. ASSUME NEW u \in Threads, NEW n \in Mutex PROVE Holds(u, n)'
  <2>1. CASE u # "aggregator"
    BY <1>1, <2>1 DEF OwnerInv, Holds
  <2>2. CASE u = "aggregator" /\ n # m
    <3>1. pc'[u] \in Inside(u, n) <=> pc[u] \in Inside(u, n)
      BY <1>1, <2>2 DEF SameSections
    <3> QED BY <2>2, <3>1 DEF OwnerInv, Holds
  <2>3. CASE u = "aggregator" /\ n = m
    <3>1. owner[m] = Itself("aggregator")
      BY <1>1, <2>3 DEF OwnerInv, Holds
    <3> QED BY <2>3, <3>1 DEF Holds
  <2> QED BY <2>1, <2>2, <2>3
<1>3. \A n \in Mutex : pc'["aggregator"] \in Inside("aggregator", n) => n \notin kept'
  BY <1>1 DEF OwnerInv, SameSections
<1>4. Flags' /\ HandlerHolds'
  BY DEF OwnerInv, Flags, HandlerHolds
<1>5. \A u \in Threads : pc'[u] \in Places(u)
  BY <1>1 DEF OwnerInv
<1> QED BY <1>1, <1>2, <1>3, <1>4, <1>5 DEF OwnerInv, Functions

\* A step of a handler that changes nobody else's hold on the mutex of the flag.
LEMMA HandlerKeeps ==
    ASSUME OwnerInv, NEW t \in Thread, NEW before, NEW after, NEW state \in {"none", "unlock"},
           owner["output"] = before, owner' = [owner EXCEPT !["output"] = after],
           <<before, after, state>> \in { <<Nobody, Handler(t), "unlock">>,
                                          <<Handler(t), Nobody, "none">> },
           handler' = [handler EXCEPT ![t] = state], UNCHANGED <<pc, kept>>, Flags'
    PROVE  OwnerInv'
<1>1. /\ owner'["output"] = after /\ DOMAIN owner' = Mutex
      /\ \A n \in Mutex : n # "output" => owner'[n] = owner[n]
  BY Changes DEF OwnerInv, Mutex
<1>2. /\ before \in {Nobody, Handler(t)} /\ after \in {Nobody, Handler(t)}
      /\ after = Handler(t) <=> state = "unlock"
  BY OwnersDiffer
<1>3. \A u \in Threads : before # Itself(u) /\ after # Itself(u)
  BY <1>2, OwnersDiffer DEF Threads, Thread
<1>4. ASSUME NEW u \in Threads, NEW n \in Mutex PROVE Holds(u, n)'
  BY <1>1, <1>3 DEF OwnerInv, Holds
<1>5. HandlerHolds'
  <2>1. ASSUME NEW u \in Thread PROVE owner'["output"] = Handler(u) <=> handler'[u] = "unlock"
    <3>1. CASE u = t
      <4>1. handler'[t] = state
        BY DEF OwnerInv, Flags
      <4> QED BY <1>1, <1>2, <3>1, <4>1
    <3>2. CASE u # t
      <4>1. handler'[u] = handler[u]
        BY <3>2 DEF OwnerInv, Flags
      <4>2. before # Handler(u) /\ after # Handler(u)
        BY <1>2, <3>2, OwnersDiffer
      <4> QED BY <1>1, <4>1, <4>2 DEF OwnerInv, HandlerHolds
    <3> QED BY <3>1, <3>2
  <2> QED BY <2>1 DEF HandlerHolds
<1> QED BY <1>1, <1>4, <1>5 DEF OwnerInv, Functions

\* Every step keeps who holds which mutex, one case per step of a thread.
LEMMA OwnerInvKept == OwnerInv /\ [Next]_vars => OwnerInv'
<1> SUFFICES ASSUME OwnerInv, [Next]_vars PROVE OwnerInv'
  OBVIOUS
<1>1. CASE UNCHANGED vars
  BY <1>1 DEF vars, OwnerInv, Functions, Flags, Holds, HandlerHolds
<1>2. CASE AggregatorMessage
  <2>1. CASE Step("aggregator", "select", "process_metric")
    BY <2>1, StepKeeps DEF Step, OwnerInv, Flags, Places, Inside, SameSections, Threads, Mutex
  <2>2. CASE Lock("aggregator", "metrics", "process_metric", "processing")
    BY <2>2, LockKeeps DEF Places, Inside, SameSections, Threads, Mutex
  <2>3. CASE Unlock("aggregator", "metrics", "processing", "process_stat")
    BY <2>3, UnlockKeeps DEF Unlock, OwnerInv, Flags, Places, Inside, SameSections, Threads, Mutex
  <2>4. CASE Lock("aggregator", "stats", "process_stat", "counting")
    BY <2>4, LockKeeps DEF Places, Inside, SameSections, Threads, Mutex
  <2>5. CASE Unlock("aggregator", "stats", "counting", "select")
    BY <2>5, UnlockKeeps DEF Unlock, OwnerInv, Flags, Places, Inside, SameSections, Threads, Mutex
  <2> QED BY <1>2, <2>1, <2>2, <2>3, <2>4, <2>5 DEF AggregatorMessage
<1>3. CASE AggregatorExit
  BY <1>3, StepKeeps DEF AggregatorExit, Step, OwnerInv, Flags, Places, Inside, SameSections, Threads, Mutex
<1>4. CASE AggregatorEmpty
  <2>1. CASE Step("aggregator", "select", "lock_output")
    BY <2>1, StepKeeps DEF Step, OwnerInv, Flags, Places, Inside, SameSections, Threads, Mutex
  <2>2. CASE Lock("aggregator", "output", "lock_output", "output")
    BY <2>2, LockKeeps DEF Places, Inside, SameSections, Threads, Mutex
  <2> QED BY <1>4, <2>1, <2>2 DEF AggregatorEmpty
<1>5. CASE BeginOutput
  BY <1>5, StepKeeps DEF BeginOutput, OwnerInv, Flags, Places, Inside, SameSections, Threads, Mutex
<1>6. CASE NoOutput
  BY <1>6, StepKeeps DEF NoOutput, Step, OwnerInv, Flags, Places, Inside, SameSections, Threads, Mutex
<1>7. CASE WriteMetrics
  <2>1. CASE Lock("aggregator", "metrics", "write_metrics", "fopen_metrics")
    BY <2>1, LockKeeps DEF Places, Inside, SameSections, Threads, Mutex
  <2>2. CASE WriteAndUnlock("metrics", "fopen_metrics", "write_stats")
    <3>1. CASE Release("metrics") /\ UNCHANGED kept
      BY <2>2, <3>1, UnlockKeeps DEF WriteAndUnlock, OwnerInv, Flags, Places, Inside, SameSections, Threads, Mutex
    <3>2. CASE kept' = kept \cup {"metrics"} /\ UNCHANGED owner
      BY <2>2, <3>2, FailedOutputKeeps DEF WriteAndUnlock, Places, Inside, SameSections, Mutex
    <3> QED BY <2>2, <3>1, <3>2 DEF WriteAndUnlock
  <2> QED BY <1>7, <2>1, <2>2 DEF WriteMetrics
<1>8. CASE WriteStats
  <2>1. CASE Lock("aggregator", "stats", "write_stats", "fopen_stats")
    BY <2>1, LockKeeps DEF Places, Inside, SameSections, Threads, Mutex
  <2>2. CASE WriteAndUnlock("stats", "fopen_stats", "clear")
    <3>1. CASE Release("stats") /\ UNCHANGED kept
      BY <2>2, <3>1, UnlockKeeps DEF WriteAndUnlock, OwnerInv, Flags, Places, Inside, SameSections, Threads, Mutex
    <3>2. CASE kept' = kept \cup {"stats"} /\ UNCHANGED owner
      BY <2>2, <3>2, FailedOutputKeeps DEF WriteAndUnlock, Places, Inside, SameSections, Mutex
    <3> QED BY <2>2, <3>1, <3>2 DEF WriteAndUnlock
  <2> QED BY <1>8, <2>1, <2>2 DEF WriteStats
<1>9. CASE ClearRequest
  BY <1>9, StepKeeps DEF ClearRequest, OwnerInv, Flags, Places, Inside, SameSections, Threads, Mutex
<1>10. CASE UnlockOutput
  BY <1>10, UnlockKeeps DEF UnlockOutput, Unlock, OwnerInv, Flags, Places, Inside, SameSections, Threads, Mutex
<1>11. CASE PossibleReload
  <2>1. CASE Step("pcp", "idle", "possible_reload")
    BY <2>1, StepKeeps DEF Step, OwnerInv, Flags, Places, Inside, SameSections, Threads, Mutex
  <2>2. CASE Lock("pcp", "metrics", "possible_reload", "comparing")
    BY <2>2, LockKeeps DEF Places, Inside, SameSections, Threads, Mutex
  <2>3. CASE Unlock("pcp", "metrics", "comparing", "idle")
    BY <2>3, UnlockKeeps DEF Unlock, OwnerInv, Flags, Places, Inside, SameSections, Threads, Mutex
  <2>4. CASE Unlock("pcp", "metrics", "comparing", "reset_stat")
    BY <2>4, UnlockKeeps DEF Unlock, OwnerInv, Flags, Places, Inside, SameSections, Threads, Mutex
  <2> QED BY <1>11, <2>1, <2>2, <2>3, <2>4 DEF PossibleReload
<1>12. CASE Reload
  <2>1. CASE Lock("pcp", "stats", "reset_stat", "resetting")
    BY <2>1, LockKeeps DEF Places, Inside, SameSections, Threads, Mutex
  <2>2. CASE Unlock("pcp", "stats", "resetting", "reload")
    BY <2>2, UnlockKeeps DEF Unlock, OwnerInv, Flags, Places, Inside, SameSections, Threads, Mutex
  <2>3. CASE Lock("pcp", "metrics", "reload", "mapping")
    BY <2>3, LockKeeps DEF Places, Inside, SameSections, Threads, Mutex
  <2>4. CASE Lock("pcp", "stats", "mapping", "tracking")
    BY <2>4, LockKeeps DEF Places, Inside, SameSections, Threads, Mutex
  <2>5. CASE Unlock("pcp", "stats", "tracking", "mapped")
    BY <2>5, UnlockKeeps DEF Unlock, OwnerInv, Flags, Places, Inside, SameSections, Threads, Mutex
  <2>6. CASE Unlock("pcp", "metrics", "mapped", "idle")
    BY <2>6, UnlockKeeps DEF Unlock, OwnerInv, Flags, Places, Inside, SameSections, Threads, Mutex
  <2> QED BY <1>12, <2>1, <2>2, <2>3, <2>4, <2>5, <2>6 DEF Reload
<1>13. CASE FetchStat
  <2>1. CASE Step("pcp", "idle", "get_agent_stat")
    BY <2>1, StepKeeps DEF Step, OwnerInv, Flags, Places, Inside, SameSections, Threads, Mutex
  <2>2. CASE Lock("pcp", "stats", "get_agent_stat", "reading")
    BY <2>2, LockKeeps DEF Places, Inside, SameSections, Threads, Mutex
  <2>3. CASE Unlock("pcp", "stats", "reading", "idle")
    BY <2>3, UnlockKeeps DEF Unlock, OwnerInv, Flags, Places, Inside, SameSections, Threads, Mutex
  <2> QED BY <1>13, <2>1, <2>2, <2>3 DEF FetchStat
<1>14. CASE Leave
  BY <1>14, StepKeeps DEF Leave, Step, OwnerInv, Flags, Places, Inside, SameSections, Threads, Mutex
<1>15. CASE SigUsr1
  <2>1. PICK t \in SignalThreads : handler[t] = "none" /\ handler' = [handler EXCEPT ![t] = "lock"]
    BY <1>15 DEF SigUsr1
  <2>2. signals' \in 0..MaxSignals
    BY <1>15, OutputAssumption DEF SigUsr1, OwnerInv, Flags
  <2>3. \A u \in Thread : handler'[u] = "unlock" <=> handler[u] = "unlock"
    BY <2>1 DEF OwnerInv, Flags
  <2>4. Flags' /\ HandlerHolds'
    BY <1>15, <2>1, <2>2, <2>3 DEF SigUsr1, OwnerInv, Flags, HandlerHolds
  <2> QED BY <1>15, <2>4 DEF SigUsr1, OwnerInv, Functions, Holds
<1>16. ASSUME NEW t \in Thread, RequestOutput(t) PROVE OwnerInv'
  BY <1>16, HandlerKeeps DEF RequestOutput, Acquire, OwnerInv, Flags
<1>17. ASSUME NEW t \in Thread, HandlerReturn(t) PROVE OwnerInv'
  <2>1. owner["output"] = Handler(t)
    BY <1>17 DEF HandlerReturn, OwnerInv, HandlerHolds
  <2> QED BY <1>17, <2>1, HandlerKeeps DEF HandlerReturn, Release, OwnerInv, Flags
<1>18. CASE Ended
  BY <1>1, <1>18 DEF Ended
<1> QED
  BY <1>1, <1>2, <1>3, <1>4, <1>5, <1>6, <1>7, <1>8, <1>9, <1>10, <1>11, <1>12, <1>13,
     <1>14, <1>15, <1>16, <1>17, <1>18 DEF Next, AggregatorNext, PcpNext, HandlerNext

LEMMA OwnerInvHolds == Spec => []OwnerInv
<1>1. Init => OwnerInv
  <2> SUFFICES ASSUME Init PROVE OwnerInv
    OBVIOUS
  <2>1. Functions
    BY DEF Init, Functions, Threads
  <2>2. Flags
    <3>1. signals \in 0..MaxSignals
      BY OutputAssumption DEF OutputAssumption, Init
    <3>2. handler \in [Thread -> {"none", "lock", "unlock"}]
      BY DEF Init
    <3> QED BY <3>1, <3>2 DEF Init, Flags
  <2>3. pc["aggregator"] = "select" /\ pc["pcp"] = "idle" /\ kept = {}
        /\ (\A m \in Mutex : owner[m] = Nobody) /\ (\A t \in Thread : handler[t] = "none")
    BY DEF Init
  <2>4. \A t \in Threads : pc[t] \in Places(t) /\ \A m \in Mutex : pc[t] \notin Inside(t, m)
    BY <2>3 DEF Threads, Mutex, Places, Inside
  <2>5. \A t \in Threads, m \in Mutex : Holds(t, m)
    BY <2>3, <2>4, OwnersDiffer DEF Holds, Threads, Thread
  <2>6. HandlerHolds
    BY <2>3, OwnersDiffer DEF HandlerHolds, Mutex
  <2> QED BY <2>1, <2>2, <2>3, <2>4, <2>5, <2>6 DEF OwnerInv
<1> QED BY <1>1, OwnerInvKept, PTL DEF Spec

\* Mutual exclusion: a mutex is held by those inside its critical sections, and by
\* the aggregator where an output file did not open.
THEOREM OwnersCorrect == Spec => []TypeOK
BY OwnerInvTypes, OwnerInvHolds, PTL

\* Between the look at the flag and its reset the aggregator holds the mutex of the
\* flag, and no handler notes a request.
Writing == {"write_metrics", "fopen_metrics", "write_stats", "fopen_stats", "clear"}

Unowed == pc["aggregator"] \in Writing => ~owed

\* Steps that neither note nor serve a request, and do not begin an output.
LEMMA OthersDoNotWrite ==
    ASSUME OwnerInv, [Next]_vars, ~BeginOutput, ~ClearRequest,
           ~(\E t \in Thread : RequestOutput(t))
    PROVE  UNCHANGED <<owed, g_output_requested>>
           /\ (pc'["aggregator"] \in Writing => pc["aggregator"] \in Writing)
<1> USE DEF OwnerInv, Functions, Threads, Goto, Writing
<1>1. CASE AggregatorNext
  BY <1>1 DEF AggregatorNext, AggregatorMessage, AggregatorExit, AggregatorEmpty, NoOutput,
              WriteMetrics, WriteStats, WriteAndUnlock, UnlockOutput, Lock, Unlock, Step
<1>2. CASE PcpNext
  BY <1>2 DEF PcpNext, PossibleReload, Reload, FetchStat, Leave, Lock, Unlock, Step
<1>3. CASE UNCHANGED pc
  BY <1>3 DEF Next, vars, AggregatorNext, PcpNext, SigUsr1, HandlerNext, HandlerReturn, Ended,
              AggregatorMessage, AggregatorExit, AggregatorEmpty, NoOutput, WriteMetrics,
              WriteStats, WriteAndUnlock, UnlockOutput, PossibleReload, Reload, FetchStat,
              Leave, Lock, Unlock, Step
<1> QED BY <1>1, <1>2, <1>3 DEF Next, vars, SigUsr1, HandlerNext, HandlerReturn, Ended

\* No request is wiped out with one being served.
THEOREM RequestsCorrect == Spec => []RequestKept
<1> DEFINE Inv == RequestKept /\ Unowed
<1>1. Init => Inv
  BY DEF Init, RequestKept, Unowed
<1>2. OwnerInv /\ Inv /\ [Next]_vars => Inv'
  <2> SUFFICES ASSUME OwnerInv, Inv, [Next]_vars PROVE Inv'
    OBVIOUS
  <2> USE DEF RequestKept, Unowed
  <2>1. CASE BeginOutput
    BY <2>1 DEF BeginOutput
  <2>2. CASE ClearRequest
    <3>1. pc["aggregator"] = "clear"
      BY <2>2 DEF ClearRequest, Goto
    <3> QED BY <2>2, <3>1 DEF ClearRequest, Writing
  <2>3. ASSUME NEW t \in Thread, RequestOutput(t) PROVE Inv'
    <3>1. owner["output"] = Nobody /\ UNCHANGED pc
      BY <2>3 DEF RequestOutput, Acquire
    <3>2. pc["aggregator"] \notin Inside("aggregator", "output")
      BY <3>1, OwnersDiffer DEF OwnerInv, Holds, Threads, Thread, Mutex
    <3>3. pc["aggregator"] \notin Writing
      BY <3>2 DEF Inside, Writing
    <3> QED BY <2>3, <3>1, <3>3 DEF RequestOutput
  <2>4. CASE ~BeginOutput /\ ~ClearRequest /\ ~(\E t \in Thread : RequestOutput(t))
    BY <2>4, OthersDoNotWrite
  <2> QED BY <2>1, <2>2, <2>3, <2>4
<1>3. Inv => RequestKept
  OBVIOUS
<1> QED BY <1>1, <1>2, <1>3, OwnerInvHolds, PTL DEF Spec
=============================================================================
