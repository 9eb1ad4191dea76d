---------------------------- MODULE LatestRelay ----------------------------
(***************************************************************************)
(* What a chain of live views promises its last viewer: of the snapshots   *)
(* published so far it sees some, never one that was not published, and    *)
(* never an older one after a newer one.                                   *)
(***************************************************************************)
EXTENDS Naturals

VARIABLES published,  \* how many snapshots there are: 1 .. published
          seen        \* the one the viewer sees, 0 before the first

Init == published = 0 /\ seen = 0

Publish == published' = published + 1 /\ seen' = seen

See == seen' \in seen + 1 .. published /\ published' = published

Next == Publish \/ See

Spec == Init /\ [][Next]_<<published, seen>>
=============================================================================
