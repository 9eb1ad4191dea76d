-------------------------- MODULE SampleLifecycle --------------------------
(***************************************************************************)
(* What the collectors and the store promise for every reading, without    *)
(* buckets, jobs or clocks: a reading is first open (in memory), then      *)
(* closed (its bucket is complete), then kept (in the trend table), then   *)
(* gone.  It never goes back, a reading that was not taken never shows up, *)
(* and the closed readings of a host become kept or are lost together.     *)
(***************************************************************************)
CONSTANTS Hosts, Names, Cycles

VARIABLE phase  \* of every reading [host, name, n] there can be

Reading == [host : Hosts, name : Names, n : Cycles]

In(p) == {s \in Reading : phase[s] = p}
Of(h, p) == {s \in In(p) : s.host = h}

\* The readings of S move to phase p, all others stay where they are.
Move(S, p) == phase' = [s \in Reading |-> IF s \in S THEN p ELSE phase[s]]

Init == phase = [s \in Reading |-> "none"]

\* A cycle of host h adds readings to the open ones, and may close the open
\* ones first, which it can only when no closed ones wait to be kept.
Take(h, new, closing) ==
    /\ new \subseteq Of(h, "none")
    /\ closing => Of(h, "closed") = {}
    /\ phase' = [s \in Reading |->
                   IF s \in new THEN "open"
                   ELSE IF closing /\ s \in Of(h, "open") THEN "closed"
                   ELSE phase[s]]

Keep(h) == Of(h, "closed") # {} /\ Move(Of(h, "closed"), "kept")

Lose(h) == Of(h, "closed") # {} /\ Move(Of(h, "closed"), "gone")

Expire(S) == S # {} /\ S \subseteq In("kept") /\ Move(S, "gone")

\* The process stops: open readings are lost, closed ones survive a shutdown
\* (their job finishes) and not a kill.
Stop(killed) ==
    Move(In("open") \union (IF killed THEN In("closed") ELSE {}), "gone")

Next ==
    \/ \E h \in Hosts : \/ \E new \in SUBSET Of(h, "none") :
                             \E closing \in BOOLEAN : Take(h, new, closing)
                        \/ Keep(h)
                        \/ Lose(h)
    \/ \E S \in SUBSET In("kept") : Expire(S)
    \/ \E killed \in BOOLEAN : Stop(killed)

Spec == Init /\ [][Next]_phase
=============================================================================
