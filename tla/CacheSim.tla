------------------------------ MODULE CacheSim ------------------------------
(***************************************************************************)
(* CacheSimStore of kiro/cache_sim.rs: the fingerprints of each session's  *)
(* last request, with a time to live and a capacity that an operator may   *)
(* change while it runs.  A request reads Instant::now() and both limits   *)
(* before it takes the lock: it may come with an old time and old limits.  *)
(***************************************************************************)
EXTENDS PrefixCache, FiniteSets

CONSTANTS Session, Model, Prints,  \* Prints: sequences of fingerprints
          Observer,                \* requests at work at one time
          MaxClock,                \* bound of the time
          Ttls, Caps               \* values an operator gives; 0 counts as 1

ASSUME CacheAssumption ==
    /\ IsFiniteSet(Session) /\ "" \notin Model /\ Prints \subseteq Seq(Nat)
    /\ MaxClock \in Nat /\ Ttls \subseteq Nat /\ Caps \subseteq Nat

VARIABLES store,      \* session -> its entry, or Absent
          clock,
          ttl, cap,
          work,       \* observer -> how far it is, the time and the limits it read
          reported,   \* the last observation and the hit it was told
          latest,     \* ghost: session -> the time of its latest observation, 0 before
          last,       \* ghost: session -> its last entry, evicted or not
          least       \* ghost: the least [ttl, cap] so far

cacheVars == <<store, clock, ttl, cap, work, reported, latest, last, least>>

Absent == [model |-> "", prints |-> <<>>, seen |-> 0]

Waiting == [at |-> "idle", now |-> 0, ttl |-> 0, cap |-> 0]

Held(table) == {s \in Session : table[s] # Absent}

\* duration_since saturates: an entry of the future is fresh.
Fresh(table, w) == {s \in Held(table) : w.now <= table[s].seen + w.ttl}

\* Mutation of Survivors: the newest go first.
SurvivorsOldest(table, w) ==
    LET fresh == Fresh(table, w)
    IN  IF Cardinality(Held(table)) <= w.cap THEN {Held(table)}
        ELSE IF Cardinality(fresh) <= w.cap THEN {fresh}
        ELSE {kept \in SUBSET fresh :
                /\ Cardinality(kept) = w.cap
                /\ \A x \in kept, y \in fresh \ kept : table[y].seen >= table[x].seen}

\* Only above the capacity: expired entries go, then the least recently seen, of equals any.
Survivors(table, w) ==
    LET fresh == Fresh(table, w)
    IN  IF Cardinality(Held(table)) <= w.cap THEN {Held(table)}
        ELSE IF Cardinality(fresh) <= w.cap THEN {fresh}
        ELSE {kept \in SUBSET fresh :
                /\ Cardinality(kept) = w.cap
                /\ \A x \in kept, y \in fresh \ kept : table[y].seen <= table[x].seen}

-----------------------------------------------------------------------------
(* A request: what it reads before the lock, then what it does under it. *)

ReadTime(o) ==
    /\ work[o].at = "idle"
    /\ work' = [work EXCEPT ![o] = [Waiting EXCEPT !.at = "timed", !.now = clock]]
    /\ UNCHANGED <<store, clock, ttl, cap, reported, latest, last, least>>

LoadTtl(o) ==
    /\ work[o].at = "timed"
    /\ work' = [work EXCEPT ![o] = [@ EXCEPT !.at = "halfway", !.ttl = ttl]]
    /\ UNCHANGED <<store, clock, ttl, cap, reported, latest, last, least>>

LoadCap(o) ==
    /\ work[o].at = "halfway"
    /\ work' = [work EXCEPT ![o] = [@ EXCEPT !.at = "ready", !.cap = cap]]
    /\ UNCHANGED <<store, clock, ttl, cap, reported, latest, last, least>>

\* A hit needs the same model and an entry that has not expired; the session's entry is
\* replaced in any case.
Observe(o, s, model, prints) ==
    LET w     == work[o]
        old   == store[s]
        valid == old # Absent /\ old.model = model /\ w.now <= old.seen + w.ttl
        entry == [model |-> model, prints |-> prints, seen |-> w.now]
        table == [store EXCEPT ![s] = entry]
    IN  /\ w.at = "ready"
        /\ work' = [work EXCEPT ![o] = Waiting]
        /\ reported' = [session |-> s, model |-> model, prints |-> prints,
                        hit |-> IF valid THEN CommonPrefix(old.prints, prints) ELSE 0]
        /\ \E kept \in Survivors(table, w) :
              store' = [x \in Session |-> IF x \in kept THEN table[x] ELSE Absent]
        /\ last' = [last EXCEPT ![s] = entry]
        /\ latest' = [latest EXCEPT ![s] = IF w.now > @ THEN w.now ELSE @]
        /\ UNCHANGED <<clock, ttl, cap, least>>

-----------------------------------------------------------------------------
(* Time and the operator. *)

TimePasses ==
    /\ clock < MaxClock /\ clock' = clock + 1
    /\ UNCHANGED <<store, ttl, cap, work, reported, latest, last, least>>

AtLeastOne(n) == IF n = 0 THEN 1 ELSE n

SetTtl(t) ==
    /\ ttl' = AtLeastOne(t)
    /\ least' = [least EXCEPT !.ttl = IF ttl' < @ THEN ttl' ELSE @]
    /\ UNCHANGED <<store, clock, cap, work, reported, latest, last>>

SetCap(c) ==
    /\ cap' = AtLeastOne(c)
    /\ least' = [least EXCEPT !.cap = IF cap' < @ THEN cap' ELSE @]
    /\ UNCHANGED <<store, clock, ttl, work, reported, latest, last>>

CacheInit ==
    /\ store = [s \in Session |-> Absent]
    /\ last = store
    /\ latest = [s \in Session |-> 0]
    /\ clock = 0 /\ ttl = 1 /\ cap = 2
    /\ work = [o \in Observer |-> Waiting]
    /\ least = [ttl |-> ttl, cap |-> cap]
    /\ reported = [session |-> "", model |-> "", prints |-> <<>>, hit |-> 0]

CacheNext ==
    \/ \E o \in Observer :
          \/ ReadTime(o) \/ LoadTtl(o) \/ LoadCap(o)
          \/ \E s \in Session, model \in Model, prints \in Prints : Observe(o, s, model, prints)
    \/ TimePasses
    \/ \E t \in Ttls : SetTtl(t)
    \/ \E c \in Caps : SetCap(c)

CacheSpec == CacheInit /\ [][CacheNext]_cacheVars

-----------------------------------------------------------------------------
(* Properties. *)

\* The types of the variables.
CacheTypeOK ==
    /\ \A s \in Held(store) : store[s].model \in Model /\ store[s].prints \in Prints
    /\ latest \in [Session -> 0 .. MaxClock]
    /\ clock \in 0 .. MaxClock /\ {ttl, cap} \subseteq Nat \ {0}
    /\ work \in [Observer -> [at : {"idle", "timed", "halfway", "ready"}, now : 0 .. MaxClock,
                             ttl : Nat, cap : Nat]]

\* A session's next request finds in the cache exactly what it shares with its last one,
\* if that was for the same model, has not expired, and fewer sessions than the
\* capacity were seen since, under the least limits so far; it never finds more.  It leaves
\* at most as many sessions as the capacity was when the request loaded it, before the lock:
\* the table is above a capacity lowered since until the next request that loads the lower
\* one (cache_sim.rs:11-19, 36-42, 179-182).
FindsItsShare(o) ==
    LET s      == reported'.session
        known  == last[s] # Absent /\ last[s].model = reported'.model
        shared == IF known THEN CommonPrefix(last[s].prints, reported'.prints) ELSE 0
        recent == /\ clock <= last[s].seen + least.ttl
                  /\ Cardinality({x \in Session \ {s} :
                         last[x] # Absent /\ latest[x] >= last[s].seen}) < least.cap
    IN  /\ reported'.hit <= shared
        /\ recent => reported'.hit = shared
        /\ Cardinality(Held(store')) <= work[o].cap

RecentSessionsHit ==
    [][\A o \in Observer :
         work[o].at = "ready" /\ work'[o].at = "idle" => FindsItsShare(o)]_cacheVars
=============================================================================
