------------------------- MODULE DependencyResolver -------------------------
(***************************************************************************)
(* DependencyResolver of the plugin framework: the load order (Kahn's      *)
(* algorithm with a stack of ready plugins), the check of one plugin's     *)
(* dependencies, and the search for a cycle.  Plugin names are numbers,    *)
(* ordered like the keys of a std::map; `plugins` is the metadata map, a   *)
(* function from names to sequences of dependencies [name, required].     *)
(***************************************************************************)
EXTENDS Naturals, Sequences, FiniteSets, SequencesExt, Relation

MapOrder(S) ==
    CHOOSE s \in [1..Cardinality(S) -> S] :
        Range(s) = S /\ \A i, j \in DOMAIN s : i < j => s[i] < s[j]

\* the dependencies that count: required, and known to the map
Followed(plugins, n) ==
    SelectSeq(plugins[n], LAMBDA d : d.required /\ d.name \in DOMAIN plugins)

\* graph[dep]: the dependants of dep, one entry for each mention
Dependants(plugins, dep) ==
    FlattenSeq([i \in 1..Cardinality(DOMAIN plugins) |->
        LET n == MapOrder(DOMAIN plugins)[i]
        IN [j \in 1..Len(SelectSeq(Followed(plugins, n), LAMBDA d : d.name = dep)) |-> n]])

\* One turn of the loop: the plugin on top of the stack is placed, and every
\* dependant whose last open dependency it was becomes ready.
Place(plugins, s) ==
    LET current == Last(s.ready)
        Release(r, n) ==
            [r EXCEPT !.inDegree[n] = @ - 1,
                      !.ready = IF r.inDegree[n] = 1 THEN Append(@, n) ELSE @]
    IN FoldLeft(Release,
                [s EXCEPT !.ready = Front(@), !.result = Append(@, current)],
                Dependants(plugins, current))

\* the plugins placed: all of them, or fewer if there is a cycle
KahnResult(plugins) ==
    LET inDegree == [n \in DOMAIN plugins |-> Len(Followed(plugins, n))]
        start == [inDegree |-> inDegree, result |-> <<>>,
                  ready |-> MapOrder({n \in DOMAIN plugins : inDegree[n] = 0})]
        Turn(s, i) == IF s.ready = <<>> THEN s ELSE Place(plugins, s)
    IN FoldLeft(Turn, start, MapOrder(DOMAIN plugins)).result

\* resolveLoadOrder throws when not every plugin was placed
ResolveThrows(plugins) == Len(KahnResult(plugins)) # Cardinality(DOMAIN plugins)
resolveLoadOrder(plugins) == KahnResult(plugins)

checkDependencies(n, plugins) ==
    /\ n \in DOMAIN plugins
    /\ \A i \in DOMAIN plugins[n] :
           plugins[n][i].required => plugins[n][i].name \in DOMAIN plugins

\* detectCycles: a depth-first search that stops at the first back edge
detectCycles(plugins) ==
    LET Names == DOMAIN plugins
        dfs[node \in Names, visited \in SUBSET Names, stack \in SUBSET Names] ==
            LET Visit(s, d) ==
                    IF s.cycles # <<>> THEN s
                    ELSE IF d.name \notin s.visited THEN dfs[d.name, s.visited, s.stack]
                    ELSE IF d.name \in s.stack THEN [s EXCEPT !.cycles = Append(@, d.name)]
                    ELSE s
                end == FoldLeft(Visit,
                                [visited |-> visited \cup {node},
                                 stack |-> stack \cup {node}, cycles |-> <<>>],
                                Followed(plugins, node))
            IN IF end.cycles # <<>> THEN end ELSE [end EXCEPT !.stack = @ \ {node}]
        Root(s, n) == IF s.cycles # <<>> \/ n \in s.visited THEN s
                      ELSE dfs[n, s.visited, s.stack]
    IN FoldLeft(Root, [visited |-> {}, stack |-> {}, cycles |-> <<>>],
                MapOrder(Names)).cycles

-----------------------------------------------------------------------------
(* What the functions above are for, stated independently of how they work *)

Requires(plugins) ==
    [a, b \in DOMAIN plugins |->
        \E i \in DOMAIN plugins[a] : plugins[a][i] = [name |-> b, required |-> TRUE]]

OnCycle(plugins, n) == TransitiveClosure(Requires(plugins), DOMAIN plugins)[n, n]

=============================================================================
