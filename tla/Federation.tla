----------------------------- MODULE Federation -----------------------------
(***************************************************************************)
(* A hub mirroring one federated node, and a browser watching the hub      *)
(* (src/federation.rs, the API and live streams of src/web.rs).            *)
(*                                                                         *)
(*   node collector -> node slot -> SSE or poll -> hub slot -> SSE -> page *)
(*                                                                         *)
(* Both hops are the same stream, dashboard_stream: once a second it looks *)
(* at the slot and sends the snapshot if it is not the one it sent last,   *)
(* with the read-only flag of that moment.  A snapshot is abstracted to    *)
(* its number, 0 meaning none yet; the code tells them apart by their      *)
(* timestamps.  HTTP is a byte stream: in order, cut off anywhere, and it  *)
(* reaches the hub in chunks that need not end where an event does: an     *)
(* event of the node travels in two pieces, the second with the blank line *)
(* that ends it.                                                           *)
(*                                                                         *)
(* Every await of the hub's loop is a step boundary.  So is the gap        *)
(* between its two stores, the flag and then the snapshot: the streams     *)
(* that serve the browsers read them from other threads.                   *)
(***************************************************************************)
EXTENDS Naturals, Sequences, FiniteSetsExt

CONSTANTS
    HostNames,   \* names the node's one host may have in its configuration
    Configured,  \* node_host of the hub's configuration
    NoName,      \* None, for Configured and for the node host to mirror
    NoPayload,   \* the hub is not handling a snapshot
    MaxPub,      \* bound on the snapshots the node publishes
    MaxWire,     \* snapshots that fit into the buffers of a connection
    MaxUpsets,   \* bound on network failures, restarts and hidden pages
    MaxDenials   \* bound on 403 answers to actions

ASSUME NameAssumption == Configured \in HostNames \union {NoName}
ASSUME FederationBounds == /\ MaxPub \in Nat /\ MaxWire \in Nat \ {0}
                           /\ MaxUpsets \in Nat /\ MaxDenials \in Nat

VARIABLES
    nodeUp,     \* the node's process is running
    modern,     \* it has the events endpoint (0.12 or later)
    nodeHost,   \* the name its host is configured under
    nodeSlot,   \* its shared dashboard
    nodeRO,     \* its read_only latch
    hubUp,      \* the hub's process is running
    target,     \* NodeClient.node_host
    streaming,  \* the loop assumes a node with the events endpoint
    pc,         \* where the loop is
    buf,        \* SseParser.buf: the pieces of an event not yet complete
    batch,      \* the events of the chunk still to be handled
    hand,       \* the snapshot whose flag is stored and which is not yet
    hubSlot,    \* the hub's shared dashboard for this host
    hubRO,      \* the hub's read_only for this host
    uplink,     \* connection between node and hub
    downlink,   \* connection between hub and browser
    view,       \* what the page shows
    pub,        \* ghost: snapshots published so far
    inSession,  \* ghost: snapshots taken from the present uplink session
    upsets,     \* ghost: failures so far
    denials     \* ghost: 403 answers so far

node == <<nodeUp, modern, nodeHost, nodeSlot, nodeRO>>
parser == <<buf, batch>>
hub == <<hubUp, target, streaming, pc, parser, hand, hubSlot, hubRO>>
ghosts == <<pub, inSession, upsets, denials>>
vars == <<node, hub, uplink, downlink, view, ghosts>>

Payload == [snap : Nat, ro : BOOLEAN]
Piece == [of : Payload, end : BOOLEAN]

-----------------------------------------------------------------------------
(* dashboard_stream: one connection, its dedup state and what it carries *)

Closed == [open |-> FALSE, last |-> 0, wire |-> <<>>]
OpenedSeen(slot) == [open |-> TRUE, last |-> slot, wire |-> <<>>]  \* mutant
Opened(slot) == [open |-> TRUE, last |-> 0, wire |-> <<>>]

\* Newer than what was sent last; nothing while the slot is empty.
Fresh(conn, slot) == conn.open /\ slot # 0 /\ slot # conn.last

PushedFront(conn, slot, event) ==  \* mutant: overtakes what is on its way
    [conn EXCEPT !.last = slot, !.wire = event \o @]
Pushed(conn, slot, event) == [conn EXCEPT !.last = slot, !.wire = @ \o event]

Taken(conn, n) == [conn EXCEPT !.wire = SubSeq(@, n + 1, Len(@))]

\* The sender is gone; the receiver may still read what had arrived.
Cut(conn) == [conn EXCEPT !.open = FALSE]

(* SseParser::push: blocks that end with a blank line, and what is left *)

Event(slot, ro) ==
    LET p == [snap |-> slot, ro |-> ro]
    IN <<[of |-> p, end |-> FALSE], [of |-> p, end |-> TRUE]>>

Ends(s) == {i \in DOMAIN s : s[i].end}

Rest(s) == SubSeq(s, Max(Ends(s) \union {0}) + 1, Len(s))

\* A block decodes if it is one whole event.
Whole(s, i) == i > 1 /\ ~s[i - 1].end /\ (i > 2 => s[i - 2].end)

Decoded(s) == {i \in Ends(s) : Whole(s, i) /\ s[i - 1].of = s[i].of}

Nth(S, k) == CHOOSE i \in S : Cardinality({j \in S : j <= i}) = k

Events(s) == [k \in 1..Cardinality(Decoded(s)) |-> s[Nth(Decoded(s), k)].of]

ParserKept == buf   \* mutant: the parser outlives its connection
NewParser == <<>>

-----------------------------------------------------------------------------
Init ==
    /\ nodeUp = TRUE /\ modern \in BOOLEAN /\ nodeHost \in HostNames
    /\ nodeSlot = 0 /\ nodeRO = FALSE
    /\ hubUp = TRUE /\ target = NoName /\ streaming = TRUE /\ pc = "tick"
    /\ buf = <<>> /\ batch = <<>>
    /\ hand = NoPayload /\ hubSlot = 0 /\ hubRO = FALSE
    /\ uplink = Closed /\ downlink = Closed
    /\ view = [snap |-> 0, ro |-> FALSE]
    /\ pub = 0 /\ inSession = 0 /\ upsets = 0 /\ denials = 0

\* Something goes wrong that need not.
Upset == upsets < MaxUpsets /\ upsets' = upsets + 1

-----------------------------------------------------------------------------
(* The node *)

\* Its collector publishes a snapshot.
NodePublish ==
    /\ nodeUp
    /\ pub < MaxPub
    /\ pub' = pub + 1
    /\ nodeSlot' = pub + 1
    /\ UNCHANGED <<nodeUp, modern, nodeHost, nodeRO, hub, uplink, downlink, view,
                   inSession, upsets, denials>>

\* Its Docker endpoint answers an action with 403: mark_read_only.  A hub that
\* forwarded the action gets a success and redraws its buttons from hubRO.
NodeDenied ==
    /\ nodeUp
    /\ denials < MaxDenials
    /\ nodeRO' = TRUE
    /\ denials' = denials + 1
    /\ UNCHANGED <<nodeUp, modern, nodeHost, nodeSlot, hub, uplink, downlink,
                   view, pub, inSession, upsets>>

\* api_events: a tick of the stream, its payload built in the same poll.
NodeFeed ==
    /\ nodeUp
    /\ Fresh(uplink, nodeSlot)
    /\ Len(uplink.wire) + 1 < 2 * MaxWire
    /\ uplink' = Pushed(uplink, nodeSlot, Event(nodeSlot, nodeRO))
    /\ UNCHANGED <<node, hub, downlink, view, ghosts>>

NodeStop ==
    /\ nodeUp
    /\ Upset
    /\ nodeUp' = FALSE
    /\ nodeSlot' = 0 /\ nodeRO' = FALSE
    /\ uplink' = Cut(uplink)
    /\ UNCHANGED <<modern, nodeHost, hub, downlink, view, pub, inSession, denials>>

\* It may come back as another version, and with its host renamed.
NodeStart ==
    /\ ~nodeUp
    /\ nodeUp' = TRUE
    /\ modern' \in BOOLEAN /\ nodeHost' \in HostNames
    /\ UNCHANGED <<nodeSlot, nodeRO, hub, uplink, downlink, view, ghosts>>

-----------------------------------------------------------------------------
(* The hub's loop *)

\* The ticker fires; a target that is known is never resolved again.
Tick ==
    /\ hubUp /\ pc = "tick"
    /\ pc' = IF target = NoName THEN "resolve"
             ELSE IF streaming THEN "connect" ELSE "poll"
    /\ UNCHANGED <<node, hubUp, target, streaming, parser, hand, hubSlot, hubRO, uplink,
                   downlink, view, ghosts>>

\* pick_host: the configured name if the node has it, else its only host.
Picks(name) == Configured \in {NoName, name}

Resolve ==
    /\ hubUp /\ pc = "resolve"
    /\ nodeUp /\ Picks(nodeHost)
    /\ target' = nodeHost
    /\ pc' = IF streaming THEN "connect" ELSE "poll"
    /\ UNCHANGED <<node, hubUp, streaming, parser, hand, hubSlot, hubRO, uplink, downlink,
                   view, ghosts>>

\* A request of the loop fails: the node is down, or the network is.  The
\* next tick retries.
RequestFails ==
    /\ hubUp /\ pc \in {"resolve", "connect", "poll"}
    /\ pc' = "tick"
    /\ \/ ~nodeUp /\ UNCHANGED upsets
       \/ nodeUp /\ pc = "resolve" /\ ~Picks(nodeHost) /\ UNCHANGED upsets
       \/ Upset
    /\ UNCHANGED <<node, hubUp, target, streaming, parser, hand, hubSlot, hubRO, uplink,
                   downlink, view, pub, inSession, denials>>

\* The node has the endpoint, and the host under this name.
Connect ==
    /\ hubUp /\ pc = "connect"
    /\ nodeUp /\ modern /\ target = nodeHost
    /\ uplink' = Opened(nodeSlot)
    /\ buf' = NewParser
    /\ pc' = "stream"
    /\ inSession' = 0
    /\ UNCHANGED <<node, hubUp, target, streaming, batch, hand, hubSlot, hubRO,
                   downlink, view, pub, upsets, denials>>

\* 404: StreamEnd::Unsupported, and on to polling for the rest of the run.
NotFound ==
    /\ hubUp /\ pc = "connect"
    /\ nodeUp /\ ~(modern /\ target = nodeHost)
    /\ streaming' = FALSE
    /\ pc' = "poll"
    /\ UNCHANGED <<node, hubUp, target, parser, hand, hubSlot, hubRO, uplink, downlink,
                   view, ghosts>>

\* What the flag is after a snapshot: what the snapshot says.
MirroredLatch(old, p) == old \/ p.ro   \* mutant: only ever set
Mirrored(old, p) == p.ro

\* A chunk, wherever it ends; its events are handled before the next one.
ReadChunk ==
    /\ hubUp /\ pc = "stream" /\ hand = NoPayload /\ batch = <<>>
    /\ \E n \in 1..Len(uplink.wire) :
        LET text == buf \o SubSeq(uplink.wire, 1, n)
        IN /\ batch' = Events(text)
           /\ buf' = Rest(text)
           /\ uplink' = Taken(uplink, n)
    /\ UNCHANGED <<node, hubUp, target, streaming, pc, hand, hubSlot, hubRO,
                   downlink, view, ghosts>>

\* The first store of a snapshot event ...
TakeEvent ==
    /\ hubUp /\ pc = "stream" /\ hand = NoPayload
    /\ batch # <<>>
    /\ hubRO' = Mirrored(hubRO, Head(batch))
    /\ hand' = Head(batch)
    /\ batch' = Tail(batch)
    /\ inSession' = inSession + 1
    /\ UNCHANGED <<node, hubUp, target, streaming, pc, buf, hubSlot, uplink,
                   downlink, view, pub, upsets, denials>>

\* ... or of a polled one, read in one request; 404 and 503 end it with none.
Poll ==
    /\ hubUp /\ pc = "poll"
    /\ nodeUp
    /\ IF target = nodeHost /\ nodeSlot # 0
         THEN pc' = "reply" /\ hand' = [snap |-> nodeSlot, ro |-> nodeRO]
         ELSE pc' = "tick" /\ hand' = NoPayload
    /\ UNCHANGED <<node, hubUp, target, streaming, parser, hubSlot, hubRO, uplink,
                   downlink, view, ghosts>>

TakeReply ==
    /\ hubUp /\ pc = "reply"
    /\ hubRO' = Mirrored(hubRO, hand)
    /\ pc' = "polled"
    /\ UNCHANGED <<node, hubUp, target, streaming, parser, hand, hubSlot, uplink,
                   downlink, view, ghosts>>

\* ... and the second.
HubPublish ==
    /\ hubUp /\ pc \in {"stream", "polled"} /\ hand # NoPayload
    /\ hubSlot' = hand.snap
    /\ hand' = NoPayload
    /\ pc' = IF pc = "polled" THEN "tick" ELSE pc
    /\ UNCHANGED <<node, hubUp, target, streaming, parser, hubRO, uplink, downlink, view,
                   ghosts>>

\* The reply is lost on the way back.
ReplyLost ==
    /\ hubUp /\ pc = "reply"
    /\ Upset
    /\ pc' = "tick" /\ hand' = NoPayload
    /\ UNCHANGED <<node, hubUp, target, streaming, parser, hubSlot, hubRO, uplink,
                   downlink, view, pub, inSession, denials>>

StreamEndsEarly ==  \* mutant: also between the two stores
    /\ hubUp /\ pc = "stream"
    /\ ~uplink.open
    /\ uplink' = Closed
    /\ pc' = "tick"
    /\ UNCHANGED <<node, hubUp, target, streaming, parser, hand, hubSlot, hubRO,
                   downlink, view, ghosts>>

\* The stream closes, fails or stays silent over STREAM_STALL; events that
\* have not been read may be lost with it.
StreamEnds ==
    /\ hubUp /\ pc = "stream" /\ hand = NoPayload /\ batch = <<>>
    /\ ~uplink.open
    /\ uplink' = Closed
    /\ pc' = "tick"
    /\ UNCHANGED <<node, hubUp, target, streaming, parser, hand, hubSlot, hubRO,
                   downlink, view, ghosts>>

-----------------------------------------------------------------------------
(* The hub's web layer, and its process *)

\* A forwarded action is answered 401 or 403, by the node or by a proxy in
\* front of it: mark_read_only, until the next snapshot says otherwise.
HubDenied ==
    /\ hubUp /\ target # NoName
    /\ denials < MaxDenials
    /\ hubRO' = TRUE
    /\ denials' = denials + 1
    /\ UNCHANGED <<node, hubUp, target, streaming, pc, parser, hand, hubSlot, uplink,
                   downlink, view, pub, inSession, upsets>>

\* events_dashboard: the same stream over the hub's slot.
HubFeed ==
    /\ hubUp
    /\ Fresh(downlink, hubSlot)
    /\ Len(downlink.wire) < MaxWire
    /\ downlink' = Pushed(downlink, hubSlot, <<[snap |-> hubSlot, ro |-> hubRO]>>)
    /\ UNCHANGED <<node, hub, uplink, view, ghosts>>

HubStop ==
    /\ hubUp
    /\ Upset
    /\ hubUp' = FALSE
    /\ target' = NoName /\ streaming' = TRUE /\ pc' = "tick"
    /\ buf' = <<>> /\ batch' = <<>>
    /\ hand' = NoPayload /\ hubSlot' = 0 /\ hubRO' = FALSE
    /\ uplink' = Closed
    /\ downlink' = Cut(downlink)
    /\ UNCHANGED <<node, view, pub, inSession, denials>>

HubStart ==
    /\ ~hubUp
    /\ hubUp' = TRUE
    /\ UNCHANGED <<node, target, streaming, pc, parser, hand, hubSlot, hubRO, uplink,
                   downlink, view, ghosts>>

-----------------------------------------------------------------------------
(* The network and the page *)

\* A connection breaks, or the other end is gone without a FIN.
Break ==
    /\ Upset
    /\ \/ uplink.open /\ uplink' = Cut(uplink) /\ UNCHANGED downlink
       \/ downlink.open /\ downlink' = Cut(downlink) /\ UNCHANGED uplink
    /\ UNCHANGED <<node, hub, view, pub, inSession, denials>>

\* openStream: the page is visible and has no connection.
PageConnects ==
    /\ hubUp
    /\ downlink = Closed
    /\ downlink' = Opened(hubSlot)
    /\ UNCHANGED <<node, hub, uplink, view, ghosts>>

PageShows ==
    /\ downlink.wire # <<>>
    /\ view' = Head(downlink.wire)
    /\ downlink' = Taken(downlink, 1)
    /\ UNCHANGED <<node, hub, uplink, ghosts>>

\* onerror: disconnect, and back through connect after three seconds.
PageDisconnects ==
    /\ ~downlink.open /\ downlink # Closed
    /\ downlink' = Closed
    /\ UNCHANGED <<node, hub, uplink, view, ghosts>>

\* The tab is hidden; it reconnects when it is visible again.
PageHides ==
    /\ downlink.open
    /\ Upset
    /\ downlink' = Closed
    /\ UNCHANGED <<node, hub, uplink, view, pub, inSession, denials>>

-----------------------------------------------------------------------------
Next ==
    \/ NodePublish \/ NodeDenied \/ NodeFeed \/ NodeStop \/ NodeStart
    \/ Tick \/ Resolve \/ RequestFails \/ Connect \/ NotFound
    \/ ReadChunk \/ TakeEvent \/ Poll \/ TakeReply \/ HubPublish \/ ReplyLost \/ StreamEnds
    \/ HubDenied \/ HubFeed \/ HubStop \/ HubStart
    \/ Break \/ PageConnects \/ PageShows \/ PageDisconnects \/ PageHides

Spec == Init /\ [][Next]_vars

\* The loop and the streams are tasks the runtime keeps polling, and their
\* tickers fire; a stopped process is started again; the page is open.
Fairness ==
    /\ WF_vars(NodeFeed) /\ WF_vars(NodeStart) /\ WF_vars(HubStart)
    /\ WF_vars(Tick) /\ WF_vars(Resolve) /\ WF_vars(RequestFails)
    /\ WF_vars(Connect) /\ WF_vars(NotFound) /\ WF_vars(ReadChunk)
    /\ WF_vars(TakeEvent)
    /\ WF_vars(Poll) /\ WF_vars(TakeReply) /\ WF_vars(HubPublish)
    /\ WF_vars(StreamEnds) /\ WF_vars(HubFeed) /\ WF_vars(PageConnects)
    /\ WF_vars(PageShows) /\ WF_vars(PageDisconnects)

\* The node's Docker daemon answers: its collector goes on publishing.
Live == Spec /\ Fairness /\ WF_vars(NodePublish)

-----------------------------------------------------------------------------
(* Properties *)

Link(item) == [open : BOOLEAN, last : Nat, wire : Seq(item)]

\* Every variable has its type, and the loop holds a snapshot in hand only
\* where it has one.
TypeOK ==
    /\ nodeUp \in BOOLEAN /\ modern \in BOOLEAN /\ nodeHost \in HostNames
    /\ nodeSlot \in Nat /\ nodeRO \in BOOLEAN
    /\ hubUp \in BOOLEAN /\ target \in HostNames \union {NoName}
    /\ streaming \in BOOLEAN
    /\ pc \in {"tick", "resolve", "connect", "stream", "poll", "reply", "polled"}
    /\ hand \in Payload \union {NoPayload}
    /\ hand # NoPayload => pc \in {"stream", "reply", "polled"}
    /\ hubSlot \in Nat /\ hubRO \in BOOLEAN
    /\ batch \in Seq(Payload)
    /\ buf \in Seq(Piece) /\ Len(buf) <= 1 /\ Ends(buf) = {}
    /\ batch # <<>> => pc = "stream"
    /\ uplink \in Link(Piece) /\ downlink \in Link(Payload) /\ view \in Payload
    /\ pub \in Nat /\ inSession \in Nat /\ upsets \in Nat /\ denials \in Nat

Relay == INSTANCE LatestRelay WITH published <- pub, seen <- view.snap

\* Through both hops, reconnects, polls in flight and restarts of either
\* side, the page never shows an older snapshot after a newer one, nor one
\* the node did not publish.
ImplementsRelay == Relay!Spec

\* Once things are quiet, the page shows the node's latest snapshot, whichever
\* way the hub fetches it, if the node has one and was not renamed under a hub
\* that had resolved it before.
CatchesUp ==
    <>[](nodeSlot # 0 /\ target \in {NoName, nodeHost} /\ Picks(nodeHost)
           => view.snap = nodeSlot)

\* "For a federated host this mirrors what the node reports" (web.rs): with a
\* snapshot still to come, a node that is read-only disables the buttons of a
\* page at the hub, and a hub that took a denial for the node's own comes off
\* it again, unless the node restarts first.
MirrorsReadOnly ==
    /\ (nodeRO /\ target = nodeHost /\ pub < MaxPub)
          ~> (view.ro \/ ~nodeRO)
    /\ (hubRO /\ ~nodeRO /\ target = nodeHost /\ pub < MaxPub)
          ~> (~hubRO \/ nodeRO \/ ~nodeUp \/ target # nodeHost)

\* "one long-lived connection, every sample as the node collects it"
\* (federation.rs): within one session the hub skips no snapshot.
EverySample ==
    [][inSession > 0 /\ inSession' = inSession + 1
         => hand'.snap = hubSlot + 1]_vars

\* "The node doesn't have the endpoint (404) -- it predates it; poll instead"
\* (federation.rs): the hub polls only a node without the endpoint.
PollsOnlyOldNodes == nodeUp /\ ~streaming => ~modern
=============================================================================
