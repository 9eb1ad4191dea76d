--------------------------- MODULE MCTrendStore ---------------------------
(* Model checking the store: files of earlier builds and their rows. *)
EXTENDS TrendStore

CONSTANTS c1, c2   \* a container and the one it was recreated as

\* Brief and low, long and high.
TwoEnvelopes == {[min |-> 1, med |-> 1, max |-> 2, n |-> 1],
                 [min |-> 0, med |-> 3, max |-> 4, n |-> 2]}

Hosts == {<<"sample", "host">>, <<"trend", "host">>}

Built(samples, columns, layout) ==
    [samples |-> samples, columns |-> columns, layout |-> layout, indexed |-> samples]

\* A new file, one host without I/O, several hosts, I/O rates, wide rows.
EveryBuild ==
    {Built(FALSE, {}, "none"), Built(TRUE, {}, "long"), Built(TRUE, Hosts, "long"),
     Built(TRUE, Range(Columns), "long"), Built(TRUE, Range(Columns), "wide")}

Old(id, b, m, e) == [flush |-> 0, id |-> id, bucket |-> b, metric |-> m, e |-> e]

\* Nothing; one container over two hours; recreated within a bucket; restarted
\* within a bucket, which gives it two rollups.
SomeLegacyRows ==
    LET Pairs == {p \in TwoEnvelopes \X TwoEnvelopes : p[1] # p[2]} IN
    {{}} \union
    {{Old(c1, 0, "cpu", p[1]), Old(c1, 0, "mem", p[2]), Old(c2, 2, "cpu", p[1])} :
        p \in Pairs} \union
    {{Old(c1, 1, "cpu", p[1]), Old(c2, 1, "cpu", p[2]), Old(c2, 1, "mem", p[2])} :
        p \in Pairs} \union
    {{Old(c1, 1, m, e) : m \in Metrics, e \in TwoEnvelopes}}

\* Not there; all metrics, of either kind; one metric missing.
FourCovers ==
    {[m \in Metrics |-> NoData]} \union
    {[m \in Metrics |-> e] : e \in TwoEnvelopes} \union
    {[m \in Metrics |-> IF m = "cpu" THEN NoData ELSE e] :
        e \in {x \in TwoEnvelopes : x.n = 1}}
=============================================================================
