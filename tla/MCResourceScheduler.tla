------------------------- MODULE MCResourceScheduler -------------------------
(* TLC instances of ResourceScheduler. *)
EXTENDS ResourceScheduler, TLC

CONSTANTS s1, s2, a, b, c

Known(resources, paths) == [known |-> TRUE, resources |-> resources, paths |-> paths]
Unknown == [known |-> FALSE, resources |-> {}, paths |-> {}]

\* a works on one directory and may come to need the one above it; b works on
\* another one in it; c has no domains.
MCDomain == (a :> Known({}, {<<"src", "a">>})) @@ (b :> Known({}, {<<"src", "b">>}))
                @@ (c :> Unknown)
MCWider == (a :> Known({}, {<<"src">>})) @@ (b :> MCDomain[b]) @@ (c :> Unknown)
\* b has two slices: with one of them done, both limits are near.
MCSlices == (a :> 1) @@ (b :> 2) @@ (c :> 1)

\* s1 has two jobs and both limits and tries again once; s2 makes one run and
\* does not try again.
MCJobs == (s1 :> 2) @@ (s2 :> 1)
MCMaxTasks == (s1 :> 2) @@ (s2 :> 0)
MCMaxSlices == (s1 :> 3) @@ (s2 :> 1)
MCMaxRestarts == (s1 :> 1) @@ (s2 :> 0)

\* Bound: each task ends in some of the ways.
MCEndings == (a :> {"completed", "unknown", "blocked", "raised"}) @@ (b :> {"completed", "transient"})
                 @@ (c :> {"failed", "provider_limit"})

Names == {"x", "y"}
Paths == {<<>>} \cup {<<n>> : n \in Names} \cup {<<n, m>> : n \in Names, m \in Names}

\* Two paths overlap when some path lies below both.
ASSUME \A p, q \in Paths : PathsOverlap(p, q) <=> \E f \in Paths : Within(f, p) /\ Within(f, q)
=============================================================================
