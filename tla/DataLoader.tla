----------------------------- MODULE DataLoader -----------------------------
(***************************************************************************)
(* A loader that dataloaden generates (example/dataloader): callers ask    *)
(* for keys, a batch collects them until its timer fires or it is full,    *)
(* one goroutine fetches it, and every caller caches what it gets.  The    *)
(* mutex is held for short sections only, each a step here.                *)
(***************************************************************************)
EXTENDS Naturals, Sequences, SequencesExt, Functions

CONSTANTS
    Callers,   \* goroutines that share the loader of a request
    Keys,
    MaxBatch,  \* 0 is no limit
    MaxCalls   \* bounds the loads that miss the cache and the writes together; by
               \* then nobody reads beside the loader any more

ASSUME LoaderAssumption == {MaxBatch, MaxCalls} \subseteq Nat

VARIABLES
    cache,    \* ItemSliceLoader.cache
    batch,    \* ItemSliceLoader.batch, an index of batches; 0 is nil
    batches,  \* every batch there was
    callers,  \* what each caller is at
    version,  \* external: of each key in the database
    cleared,  \* history: the version of each key when Clear was called last
    raced     \* history: keys that were being loaded by then

loaderVars == <<cache, batch, batches, callers, version, cleared, raced>>

\* What the database says of a key at a time.
Values == Keys \X Nat

\* timer and ender are the goroutines of startTimer and of end.
Batch == [keys : Seq(Keys), closing : BOOLEAN,
          timer : {"asleep", "ending", "gone"}, ender : {"none", "ending", "gone"},
          fetched : Seq(Seq(Keys)), data : Seq(Values), failed : SUBSET Nat, done : BOOLEAN]
NewBatch == [keys |-> <<>>, closing |-> FALSE, timer |-> "asleep", ender |-> "none",
             fetched |-> <<>>, data |-> <<>>, failed |-> {}, done |-> FALSE]

Idle == [at |-> "idle"]
States == {Idle} \cup [at : {"clear"}, key : Keys]
                 \cup [at : {"thunk"}, key : Keys, b : Nat, pos : Nat]
                 \cup [at : {"set"}, key : Keys, b : Nat, value : Values]
                 \cup [at : {"prime"}, key : Keys, value : Values]
                 \cup [at : {"failed"}, key : Keys, b : Nat, pos : Nat]

LoaderTypeOK ==
    /\ DOMAIN cache \subseteq Keys /\ Range(cache) \subseteq Values
    /\ batch \in 0..Len(batches)
    /\ batches \in Seq(Batch)
    /\ batch # 0 => ~batches[batch].closing
    /\ callers \in [Callers -> States]
    /\ version \in [Keys -> Nat] /\ cleared \in [Keys -> Nat] /\ raced \subseteq Keys

LoaderInit ==
    /\ cache = <<>> /\ batch = 0 /\ batches = <<>>
    /\ callers = [c \in Callers |-> Idle]
    /\ version = [k \in Keys |-> 0] /\ cleared = [k \in Keys |-> 0] /\ raced = {}

Calls == FoldFunction(LAMBDA b, n : n + Len(b.keys), 0, batches)
         + FoldFunction(+, 0, version)
Free(c) == callers[c].at \in {"idle", "failed"}
Become(c, state) == callers' = [callers EXCEPT ![c] = state]
With(k, value) == [x \in DOMAIN cache \cup {k} |-> IF x = k THEN value ELSE cache[x]]
Without(k) == [x \in DOMAIN cache \ {k} |-> cache[x]]
External == <<version, cleared, raced>>

---------------------------------------------------------------------------
(* LoadThunk, keyIndex and the thunk *)

Full(keys) == MaxBatch # 0 /\ Len(keys) >= MaxBatch

\* l.batch after keyIndex
Current(b, closes) == IF closes THEN 0 ELSE b

\* Mutation: every caller takes the first result.
PlaceFirst(keys, k) == 1

Place(keys, k) == CHOOSE i \in DOMAIN keys : keys[i] = k

\* Mutation: nobody fetches a batch that is full.
EnderForgotten(closes, ender) == ender

Ender(closes, ender) == IF closes THEN "ending" ELSE ender

\* The first key starts the timer, the last the end; a key that is there already
\* only finds its place.
Enqueue(c, k) ==
    LET b == IF batch = 0 THEN Len(batches) + 1 ELSE batch
        old == IF batch = 0 THEN NewBatch ELSE batches[b]
        keys == IF Contains(old.keys, k) THEN old.keys ELSE Append(old.keys, k)
        closes == keys # old.keys /\ Full(keys) /\ ~old.closing
        new == [old EXCEPT !.keys = keys, !.closing = @ \/ closes,
                           !.ender = Ender(closes, @)]
    IN  /\ batches' = IF batch = 0 THEN Append(batches, new) ELSE [batches EXCEPT ![b] = new]
        /\ batch' = Current(b, closes)
        /\ Become(c, [at |-> "thunk", key |-> k, b |-> b,
                      pos |-> Place(keys, k)])

LoadThunk(c, k) ==
    /\ Free(c) /\ Calls < MaxCalls
    /\ IF k \in DOMAIN cache
       THEN Become(c, Idle) /\ UNCHANGED <<batch, batches>>
       ELSE Enqueue(c, k)
    /\ UNCHANGED <<cache, External>>

\* <-batch.done, and then the place in the batch.
Thunk(c) ==
    /\ callers[c].at = "thunk" /\ batches[callers[c].b].done
    /\ LET t == callers[c]  b == batches[t.b] IN
       Become(c, IF t.pos \in b.failed
                 THEN [at |-> "failed", key |-> t.key, b |-> t.b, pos |-> t.pos]
                 ELSE [at |-> "set", key |-> t.key, b |-> t.b, value |-> b.data[t.pos]])
    /\ UNCHANGED <<cache, batch, batches, External>>

\* Every caller that waited sets the cache again.
UnsafeSet(c) ==
    /\ callers[c].at = "set"
    /\ cache' = With(callers[c].key, callers[c].value)
    /\ Become(c, Idle)
    /\ UNCHANGED <<batch, batches, External>>

---------------------------------------------------------------------------
(* startTimer and end *)

\* Mutation: the timer does not look whether the batch is being finalised.
FinalizingNever(b) == FALSE

Finalizing(b) == batches[b].closing

Wake(b) ==
    /\ batches[b].timer = "asleep"
    /\ IF Finalizing(b)
       THEN batches' = [batches EXCEPT ![b].timer = "gone"] /\ UNCHANGED batch
       ELSE batches' = [batches EXCEPT ![b].timer = "ending"] /\ batch' = 0
    /\ UNCHANGED <<cache, callers, External>>

\* l.fetch is called with the keys and asks the database.  External: what it finds,
\* and which keys fail, all of them if it returns a single error.
Fetch(b, who) ==
    /\ batches[b][who] = "ending" /\ Len(batches[b].fetched) < 2
    /\ batches[b].data = <<>> \/ batches[b].done
    /\ \E failed \in {{}, {1}, DOMAIN batches[b].keys} :
          batches' = [batches EXCEPT
              ![b].fetched = Append(@, batches[b].keys), ![b].failed = failed,
              ![b].data = [i \in DOMAIN batches[b].keys |->
                              <<batches[b].keys[i], version[batches[b].keys[i]]>>]]
    /\ UNCHANGED <<cache, batch, callers, External>>

\* close(b.done)
Done(b, who) ==
    /\ batches[b][who] = "ending" /\ batches[b].fetched # <<>>
    /\ batches' = [batches EXCEPT ![b][who] = "gone", ![b].done = TRUE]
    /\ UNCHANGED <<cache, batch, callers, External>>

---------------------------------------------------------------------------
(* Prime and Clear *)

\* External: a caller reads the database without the loader.
ReadDatabase(c, k) ==
    /\ Free(c) /\ Calls < MaxCalls
    /\ Become(c, [at |-> "prime", key |-> k, value |-> <<k, version[k]>>])
    /\ UNCHANGED <<cache, batch, batches, External>>

\* It gives the loader what it read some time ago.
Prime(c) ==
    /\ callers[c].at = "prime"
    /\ cache' = IF callers[c].key \in DOMAIN cache THEN cache
                ELSE With(callers[c].key, callers[c].value)
    /\ Become(c, Idle)
    /\ UNCHANGED <<batch, batches, External>>

\* External: a caller changes the database, and then clears the key.
Write(c, k) ==
    /\ Free(c) /\ Calls < MaxCalls
    /\ version' = [version EXCEPT ![k] = @ + 1]
    /\ Become(c, [at |-> "clear", key |-> k])
    /\ UNCHANGED <<cache, batch, batches, cleared, raced>>

\* Mutation: nothing is deleted.
ClearedNot(k) == cache

Cleared(k) == Without(k)

\* A load whose batch was fetched before the write will set the cache again, and so
\* may a caller that read before it and primes.
Loading(k) ==
    \E c \in Callers :
        /\ callers[c].at \in {"thunk", "set", "prime"} /\ callers[c].key = k
        /\ callers[c].at # "prime" => batches[callers[c].b].fetched # <<>>

Clear(c) ==
    /\ callers[c].at = "clear"
    /\ LET k == callers[c].key IN
       /\ cache' = Cleared(k)
       /\ cleared' = [cleared EXCEPT ![k] = version[k]]
       /\ raced' = IF Loading(k) THEN raced \cup {k} ELSE raced \ {k}
    /\ Become(c, Idle)
    /\ UNCHANGED <<batch, batches, version>>

Goroutine(b, who) == Fetch(b, who) \/ Done(b, who)

LoaderNext ==
    \/ \E c \in Callers : \/ \E k \in Keys : LoadThunk(c, k) \/ ReadDatabase(c, k) \/ Write(c, k)
                          \/ Thunk(c) \/ UnsafeSet(c) \/ Prime(c) \/ Clear(c)
    \/ \E b \in DOMAIN batches : Wake(b) \/ \E who \in {"timer", "ender"} : Goroutine(b, who)

\* Timers fire, fetches return, goroutines run: the two of a batch take few steps, so
\* it is enough that one of them runs while any can.
LoaderFairness ==
    /\ \A c \in Callers : WF_loaderVars(Thunk(c) \/ UnsafeSet(c))
    /\ \A b \in 1..MaxCalls :
          WF_loaderVars(/\ b \in DOMAIN batches
                        /\ Wake(b) \/ \E who \in {"timer", "ender"} : Goroutine(b, who))

LoaderSpec == LoaderInit /\ [][LoaderNext]_loaderVars /\ LoaderFairness
---------------------------------------------------------------------------
(* Properties *)

\* A batch is fetched once, by the timer or by the end but not both, which would
\* close its channel twice, with all the keys it ever has, each once, and no more
\* than the limit (itemsliceloader_gen.go:180-223).
BatchesFetchedOnce ==
    \A b \in DOMAIN batches : LET it == batches[b] IN
        /\ Len(it.fetched) <= 1 /\ (it.fetched # <<>> => it.fetched[1] = it.keys)
        /\ IsInjective(it.keys) /\ (MaxBatch # 0 => Len(it.keys) <= MaxBatch)
        /\ b # batch => it.timer # "asleep" \/ it.closing

\* What a caller gets, and what is cached, is what was found for its own key,
\* though it shares a batch with others; so are errors (itemsliceloader_gen.go:86-109).
ResultsMatch ==
    /\ \A c \in Callers : LET it == callers[c] IN
          /\ it.at = "set" => it.value[1] = it.key
          /\ it.at = "failed" => batches[it.b].keys[it.pos] = it.key
    /\ \A k \in DOMAIN cache : cache[k][1] = k

\* A cleared key is not cached with what it was before, unless it was being loaded
\* when it was cleared (itemsliceloader_gen.go:102-106, 164-169).
StaleOnlyIfRaced ==
    \A k \in DOMAIN cache : cache[k][2] < cleared[k] => k \in raced

\* Every load returns (itemsliceloader_gen.go:87, 204-223).
LoadsReturn == \A c \in Callers : callers[c].at = "thunk" ~> Free(c)
=============================================================================
