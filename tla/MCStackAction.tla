--------------------------- MODULE MCStackAction ---------------------------
(* Model checking stack actions: the stacks of the .cfg files. *)
EXTENDS StackAction

CONSTANTS a, b, c

\* Containers that are their own services, listed a, b, c.
Plain(label) ==
    [listing |-> <<a, b, c>>, service |-> [m \in Ids |-> m], label |-> label,
     shares |-> [m \in Ids |-> {}], checked |-> {}, oneshot |-> {}, broken |-> {}]

No == [m \in Ids |-> {}]
On1(s, cond) == {[service |-> s, condition |-> cond]}

\* Every dependency relation between three services.
EveryShape ==
    {Plain([m \in Ids |-> {[service |-> s, condition |-> "started"] : s \in f[m]}]) :
        f \in {g \in [Ids -> SUBSET Ids] : \A m \in Ids : m \notin g[m]}}

\* a waits for b to be healthy, b for c to complete.
Chain == [Plain([No EXCEPT ![a] = On1(b, "healthy"), ![b] = On1(c, "completed")])
            EXCEPT !.checked = {b}, !.oneshot = {c}]

\* a waits for b and c to be healthy; c shares the namespace of b.
Fan == [Plain([No EXCEPT ![a] = On1(b, "healthy") \union On1(c, "healthy")])
          EXCEPT !.checked = {b, c}, !.shares = [No EXCEPT ![c] = {b}]]

\* c can never start, a exits by itself.
Broken == [Plain([No EXCEPT ![b] = On1(a, "completed")])
             EXCEPT !.oneshot = {a}, !.broken = {c}]

\* Two containers of the service b, which has a healthcheck.
Scaled == [Plain([No EXCEPT ![a] = On1(b, "healthy")])
             EXCEPT !.service = [m \in Ids |-> IF m = c THEN b ELSE m],
                    !.checked = {b, c}]

AllStacks == EveryShape \union {Chain, Fan, Broken}
BrokenStacks == {Broken}
FanStacks == {Fan}
ScaledStacks == {Scaled}
=============================================================================
