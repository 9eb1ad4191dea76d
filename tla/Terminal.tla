------------------------------ MODULE Terminal ------------------------------
(***************************************************************************)
(* The terminal of a container: the page (assets/terminal.js), the bridge  *)
(* or bridges it talks through (src/web.rs, src/federation.rs), and the    *)
(* exec session behind them (src/docker.rs).                               *)
(*                                                                         *)
(*   page -leg 1-> bridge 1 -leg 2-> exec            a host of this instance*)
(*   page -leg 1-> hub -leg 2-> node -leg 3-> exec   a federated host      *)
(*                                                                         *)
(* A leg is a connection with a bounded buffer per direction; either end   *)
(* can be dropped, which the other end sees once it has read what is left. *)
(* A bridge is two pumps that each hold at most one frame between a read   *)
(* and a write, under a select: the first one to end takes both down.      *)
(*                                                                         *)
(* A frame is numbered within its session.  The page may have several      *)
(* sockets over its life; each is a session of its own.                    *)
(***************************************************************************)
EXTENDS Naturals, Sequences, FiniteSets

CONSTANTS
    Sockets,    \* 1 .. the WebSockets a page opens at most
    NoWs,       \* ws === null
    NoFrame,    \* a pump between two frames
    Buf,        \* frames that fit into a direction of a leg
    MaxFrames,  \* bound on keystrokes and on output chunks of a session
    MaxSizes,   \* bound on resizes of the window
    MaxUpsets,  \* bound on broken legs, refused requests and failed calls
    MaxHasty,   \* bound on clicks on Connect while a socket is connecting
    MaxEvents   \* bound on all of them together

ASSUME TerminalAssumption ==
    /\ Sockets = 1 .. Cardinality(Sockets) /\ NoWs \notin Sockets
    /\ Buf \in Nat \ {0}
    /\ {MaxFrames, MaxSizes, MaxUpsets, MaxHasty, MaxEvents} \subseteq Nat

Frame == [kind : {"stdin", "size", "output", "notice"}, n : Nat]

ASSUME FrameAssumption == NoFrame \notin Frame

VARIABLES
    hops,       \* bridges between the page and the exec: 1, or 2 if federated
    sock,       \* readyState of each socket
    hooked,     \* its onmessage, onclose and onerror are set
    ws,         \* the page's current socket
    connected,  \* the page's flag (and the button's label)
    size,       \* the size of the terminal in the page
    shown,      \* what was written to the terminal since it is there
    leg,        \* per session, the connections
    bridge,     \* per session, the bridges
    exec,       \* per session, the process in the container
    readOnly,   \* the latch of the instance that runs each bridge
    typed,      \* ghost: keystrokes sent into each session so far
    hasty,      \* ghost: clicks on Connect while a socket was connecting
    upsets      \* ghost: upsets so far

page == <<sock, hooked, ws, connected, size, shown>>
path == <<hops, leg, bridge, exec, readOnly>>
ghosts == <<typed, hasty, upsets>>
vars == <<page, path, ghosts>>

Legs == 1 .. 3
Bridges == 1 .. 2

SumOver(f) ==
    LET sum[k \in 0 .. Cardinality(Sockets)] == IF k = 0 THEN 0 ELSE sum[k - 1] + f[k]
    IN  sum[Cardinality(Sockets)]

\* What counts towards MaxEvents.
Events == SumOver(typed) + SumOver([s \in Sockets |-> exec[s].wrote])
            + (size - 1) + hasty + upsets
Upset == upsets < MaxUpsets /\ Events < MaxEvents /\ upsets' = upsets + 1

-----------------------------------------------------------------------------
(* Legs and bridges *)

NoLeg == [down |-> <<>>, up |-> <<>>, pageSide |-> FALSE, execSide |-> FALSE]
FreshLeg == [NoLeg EXCEPT !.pageSide = TRUE, !.execSide = TRUE]

\* What the dropped end had not read is lost.
DropPageSide(l) == [l EXCEPT !.pageSide = FALSE, !.up = <<>>]
DropExecSide(l) == [l EXCEPT !.execSide = FALSE, !.down = <<>>]

NoBridge == [st |-> "none", inHand |-> NoFrame, outHand |-> NoFrame]
NoExec == [st |-> "none", read |-> <<>>, wrote |-> 0, size |-> 0]

Up(s, k) == bridge[s][k].st = "up"

Init ==
    /\ hops \in {1, 2}
    /\ sock = [s \in Sockets |-> "unused"] /\ hooked = [s \in Sockets |-> FALSE]
    /\ ws = NoWs /\ connected = FALSE /\ size = 1 /\ shown = <<>>
    /\ leg = [s \in Sockets |-> [k \in Legs |-> NoLeg]]
    /\ bridge = [s \in Sockets |-> [k \in Bridges |-> NoBridge]]
    /\ exec = [s \in Sockets |-> NoExec]
    /\ readOnly = [k \in Bridges |-> FALSE]
    /\ typed = [s \in Sockets |-> 0] /\ hasty = 0 /\ upsets = 0

-----------------------------------------------------------------------------
(* The page *)

\* connect(): another socket, and a terminal of its own.
Connect ==
    /\ \E s \in Sockets :
         /\ sock[s] = "unused" /\ \A r \in Sockets : r < s => sock[r] # "unused"
         /\ sock' = [sock EXCEPT ![s] = "connecting"]
         /\ hooked' = [hooked EXCEPT ![s] = TRUE]
         /\ ws' = s
    /\ shown' = <<>>
    /\ IF ws = NoWs THEN UNCHANGED hasty
       ELSE hasty < MaxHasty /\ Events < MaxEvents /\ hasty' = hasty + 1
    /\ UNCHANGED <<connected, size, path, typed, upsets>>

\* teardown(), with the sockets and legs as they are when it is called: the
\* current socket is closed, whichever one's handler runs.
TeardownOpen(socks, legs) ==   \* mutant: forgotten, not closed
    /\ sock' = socks /\ leg' = legs
    /\ hooked' = [s \in Sockets |-> hooked[s] /\ s # ws]
    /\ ws' = NoWs /\ connected' = FALSE
Teardown(socks, legs) ==
    /\ sock' = [s \in Sockets |-> IF s = ws THEN "closed" ELSE socks[s]]
    /\ leg' = [s \in Sockets |-> IF s = ws THEN [legs[s] EXCEPT ![1] = DropPageSide(@)]
                                           ELSE legs[s]]
    /\ hooked' = [s \in Sockets |-> hooked[s] /\ s # ws]
    /\ ws' = NoWs /\ connected' = FALSE

\* The button: Disconnect if connected, Connect if not (also while connecting).
Click ==
    \/ ~connected /\ Connect
    \/ /\ connected
       /\ Teardown(sock, leg)
       /\ UNCHANGED <<size, shown, hops, bridge, exec, readOnly, ghosts>>

\* A frame of the page: sent on the current socket if that is open.
CanSend(s) == s # NoWs /\ sock[s] = "open" /\ Len(leg[s][1].down) < Buf
Sent(s, frame) == [leg EXCEPT ![s][1].down = IF leg[s][1].execSide THEN Append(@, frame) ELSE @]
SizeFrame(n) == [kind |-> "size", n |-> n]

Type ==
    /\ CanSend(ws) /\ typed[ws] < MaxFrames /\ Events < MaxEvents
    /\ typed' = [typed EXCEPT ![ws] = @ + 1]
    /\ leg' = Sent(ws, [kind |-> "stdin", n |-> typed'[ws]])
    /\ UNCHANGED <<page, hops, bridge, exec, readOnly, hasty, upsets>>

\* The window is resized; syncSize if connected, and if the socket is open.
Resize ==
    /\ size <= MaxSizes /\ Events < MaxEvents
    /\ size' = size + 1
    /\ \/ connected /\ CanSend(ws) /\ leg' = Sent(ws, SizeFrame(size'))
       \/ ~(connected /\ ws # NoWs /\ sock[ws] = "open") /\ leg' = leg
    /\ UNCHANGED <<sock, hooked, ws, connected, shown, hops, bridge, exec, readOnly,
                   ghosts>>

\* onopen, with its syncSize, which sends on the current socket.
SyncNever == leg            \* mutant: only a resize tells the size
SyncOnOpen == IF sock'[ws] = "open" THEN Sent(ws, SizeFrame(size)) ELSE leg

OnOpen(s) ==
    /\ sock[s] = "connecting" /\ bridge[s][1].st # "none"
    /\ ws # NoWs => Len(leg[ws][1].down) < Buf
    /\ sock' = [sock EXCEPT ![s] = "open"]
    /\ connected' = TRUE
    /\ leg' = IF ws = NoWs THEN leg ELSE SyncOnOpen
    /\ UNCHANGED <<hooked, ws, size, shown, hops, bridge, exec, readOnly, ghosts>>

OnMessage(s) ==
    /\ sock[s] = "open" /\ leg[s][1].up # <<>>
    /\ leg' = [leg EXCEPT ![s][1].up = Tail(@)]
    /\ shown' = IF hooked[s] THEN Append(shown, <<s, Head(leg[s][1].up)>>) ELSE shown
    /\ UNCHANGED <<sock, hooked, ws, connected, size, hops, bridge, exec, readOnly,
                   ghosts>>

\* The server ended the connection, or the closing of it is over.
OnClose(s) ==
    /\ \/ sock[s] = "open" /\ ~leg[s][1].execSide /\ leg[s][1].up = <<>>
       \/ sock[s] = "closing"
    /\ LET socks == [sock EXCEPT ![s] = "closed"]
           legs == [leg EXCEPT ![s][1] = DropPageSide(@)]
       IN  IF hooked[s] /\ (connected \/ ws # NoWs) THEN Teardown(socks, legs)
           ELSE sock' = socks /\ leg' = legs /\ UNCHANGED <<hooked, ws, connected>>
    /\ UNCHANGED <<size, shown, hops, bridge, exec, readOnly, ghosts>>

\* pagehide: the current socket is closed, its handlers stay.
Hide ==
    /\ ws # NoWs /\ sock[ws] \in {"connecting", "open"}
    /\ sock' = [sock EXCEPT ![ws] = "closing"]
    /\ leg' = [leg EXCEPT ![ws][1] = DropPageSide(@)]
    /\ UNCHANGED <<hooked, ws, connected, size, shown, hops, bridge, exec, readOnly,
                   ghosts>>

-----------------------------------------------------------------------------
(* Opening a session *)

\* ws_exec upgrades every request for a host it knows.
Upgrade(s) ==
    /\ sock[s] = "connecting" /\ bridge[s][1].st = "none"
    /\ bridge' = [bridge EXCEPT ![s][1].st = "dialing"]
    /\ leg' = [leg EXCEPT ![s][1] = FreshLeg]
    /\ UNCHANGED <<page, hops, exec, readOnly, ghosts>>

\* The server is not there, or answers something else: onerror.
UpgradeFails(s) ==
    /\ sock[s] = "connecting" /\ bridge[s][1].st = "none"
    /\ Upset
    /\ IF hooked[s] /\ (connected \/ ws # NoWs)
         THEN Teardown([sock EXCEPT ![s] = "closed"], leg)
         ELSE sock' = [sock EXCEPT ![s] = "closed"] /\ UNCHANGED <<leg, hooked, ws, connected>>
    /\ UNCHANGED <<size, shown, hops, bridge, exec, readOnly, typed, hasty>>

\* exec_start, or exec_socket at a hub, whose node upgrades in turn.
Dial(s, k) ==
    /\ bridge[s][k].st = "dialing"
    /\ leg' = [leg EXCEPT ![s][k + 1] = FreshLeg]
    /\ IF k = hops
         THEN /\ exec' = [exec EXCEPT ![s].st = "running"]
              /\ bridge' = [bridge EXCEPT ![s][k].st = "up"]
         ELSE /\ bridge' = [bridge EXCEPT ![s][k].st = "up", ![s][k + 1].st = "dialing"]
              /\ UNCHANGED exec
    /\ UNCHANGED <<page, hops, readOnly, ghosts>>

Told(l) ==
    [l EXCEPT !.up = IF l.pageSide THEN Append(@, [kind |-> "notice", n |-> 0]) ELSE @]

\* It fails, and latches the instance that asked when it was denied: a notice
\* to the client, and the end.
DialFails(s, k) ==
    /\ bridge[s][k].st = "dialing"
    /\ Upset
    /\ \E denied \in BOOLEAN : readOnly' = [readOnly EXCEPT ![k] = @ \/ denied]
    /\ bridge' = [bridge EXCEPT ![s][k].st = "gone"]
    /\ leg' = [leg EXCEPT ![s][k] = DropExecSide(Told(@))]
    /\ UNCHANGED <<page, hops, exec, typed, hasty>>

-----------------------------------------------------------------------------
(* The pumps *)

\* The select is over: everything the bridge holds is dropped.
EndedHolding(s, k) ==   \* mutant: the tasks of the pumps go on
    /\ bridge' = [bridge EXCEPT ![s][k].st = "gone"]
    /\ leg' = [leg EXCEPT ![s][k] = DropExecSide(@), ![s][k + 1] = DropPageSide(@)]
Ended(s, k) ==
    /\ bridge' = [bridge EXCEPT ![s][k] = [NoBridge EXCEPT !.st = "gone"]]
    /\ leg' = [leg EXCEPT ![s][k] = DropExecSide(@), ![s][k + 1] = DropPageSide(@)]

\* A pump takes the next frame only when it is rid of the last one.
MayReadAhead(hand) == TRUE     \* mutant: does not wait for its write
MayRead(hand) == hand = NoFrame

ReadIn(s, k) ==
    /\ Up(s, k) /\ MayRead(bridge[s][k].inHand) /\ leg[s][k].down # <<>>
    /\ bridge' = [bridge EXCEPT ![s][k].inHand = Head(leg[s][k].down)]
    /\ leg' = [leg EXCEPT ![s][k].down = Tail(@)]
    /\ UNCHANGED <<page, hops, exec, readOnly, ghosts>>

\* The bridge at the exec turns a resize into a call, whose failure it ignores.
ResizeExec(s, k) ==
    /\ Up(s, k) /\ k = hops /\ bridge[s][k].inHand # NoFrame
    /\ bridge[s][k].inHand.kind = "size"
    /\ \/ /\ exec' = [exec EXCEPT ![s].size = bridge[s][k].inHand.n]
          /\ UNCHANGED upsets
       \/ Upset /\ UNCHANGED exec
    /\ bridge' = [bridge EXCEPT ![s][k].inHand = NoFrame]
    /\ UNCHANGED <<page, hops, leg, readOnly, typed, hasty>>

\* All other frames are passed on once there is room; what is written to a
\* connection that is gone may still seem to succeed.
ToPassOn(s, k) ==
    LET f == bridge[s][k].inHand IN f # NoFrame /\ (k < hops \/ f.kind # "size")

WriteIn(s, k) ==
    /\ Up(s, k) /\ ToPassOn(s, k)
    /\ \/ /\ leg[s][k + 1].execSide /\ Len(leg[s][k + 1].down) < Buf
          /\ leg' = [leg EXCEPT ![s][k + 1].down = Append(@, bridge[s][k].inHand)]
       \/ ~leg[s][k + 1].execSide /\ UNCHANGED leg
    /\ bridge' = [bridge EXCEPT ![s][k].inHand = NoFrame]
    /\ UNCHANGED <<page, hops, exec, readOnly, ghosts>>

ReadOut(s, k) ==
    /\ Up(s, k) /\ MayRead(bridge[s][k].outHand) /\ leg[s][k + 1].up # <<>>
    /\ bridge' = [bridge EXCEPT ![s][k].outHand = Head(leg[s][k + 1].up)]
    /\ leg' = [leg EXCEPT ![s][k + 1].up = Tail(@)]
    /\ UNCHANGED <<page, hops, exec, readOnly, ghosts>>

WriteOut(s, k) ==
    /\ Up(s, k) /\ bridge[s][k].outHand # NoFrame
    /\ \/ /\ leg[s][k].pageSide /\ Len(leg[s][k].up) < Buf
          /\ leg' = [leg EXCEPT ![s][k].up = Append(@, bridge[s][k].outHand)]
       \/ ~leg[s][k].pageSide /\ UNCHANGED leg
    /\ bridge' = [bridge EXCEPT ![s][k].outHand = NoFrame]
    /\ UNCHANGED <<page, hops, exec, readOnly, ghosts>>

\* A pump ends: nothing more to read, or its write fails.
InEnds(s, k) ==
    \/ bridge[s][k].inHand = NoFrame /\ leg[s][k].down = <<>> /\ ~leg[s][k].pageSide
    \/ ToPassOn(s, k) /\ ~leg[s][k + 1].execSide
OutEnds(s, k) ==
    \/ bridge[s][k].outHand = NoFrame /\ leg[s][k + 1].up = <<>> /\ ~leg[s][k + 1].execSide
    \/ bridge[s][k].outHand # NoFrame /\ ~leg[s][k].pageSide

SelectsJoin(s, k) == InEnds(s, k) /\ OutEnds(s, k)   \* mutant: join!
Selects(s, k) == InEnds(s, k) \/ OutEnds(s, k)

End(s, k) ==
    /\ Up(s, k) /\ Selects(s, k)
    /\ Ended(s, k)
    /\ UNCHANGED <<page, hops, exec, readOnly, ghosts>>

\* A connection breaks, and both its ends notice.
Break(s, k) ==
    /\ leg[s][k].pageSide /\ leg[s][k].execSide /\ k <= hops
    /\ Upset
    /\ leg' = [leg EXCEPT ![s][k] = NoLeg]
    /\ UNCHANGED <<page, hops, bridge, exec, readOnly, typed, hasty>>

-----------------------------------------------------------------------------
(* The process in the container *)

Running(s) == exec[s].st = "running"
ExecLeg(s) == leg[s][hops + 1]

ExecRead(s) ==
    /\ Running(s) /\ ExecLeg(s).down # <<>>
    /\ exec' = [exec EXCEPT ![s].read = Append(@, Head(ExecLeg(s).down).n)]
    /\ leg' = [leg EXCEPT ![s][hops + 1].down = Tail(@)]
    /\ UNCHANGED <<page, hops, bridge, readOnly, ghosts>>

ExecWrite(s) ==
    /\ Running(s) /\ exec[s].wrote < MaxFrames /\ Events < MaxEvents
    /\ ExecLeg(s).pageSide /\ Len(ExecLeg(s).up) < Buf
    /\ exec' = [exec EXCEPT ![s].wrote = @ + 1]
    /\ leg' = [leg EXCEPT ![s][hops + 1].up =
                 Append(@, [kind |-> "output", n |-> exec[s].wrote + 1])]
    /\ UNCHANGED <<page, hops, bridge, readOnly, ghosts>>

\* It exits by itself, or because its input was dropped.
ExecExit(s) ==
    /\ Running(s)
    /\ exec' = [exec EXCEPT ![s].st = "gone"]
    /\ leg' = [leg EXCEPT ![s][hops + 1] = DropExecSide(@)]
    /\ UNCHANGED <<page, hops, bridge, readOnly, ghosts>>

HangUp(s) == ~ExecLeg(s).pageSide /\ ExecLeg(s).down = <<>> /\ ExecExit(s)

-----------------------------------------------------------------------------
Handlers(s) == OnOpen(s) \/ OnMessage(s) \/ OnClose(s)

Bridging(s, k) ==
    \/ Dial(s, k) \/ DialFails(s, k)
    \/ ReadIn(s, k) \/ ResizeExec(s, k) \/ WriteIn(s, k)
    \/ ReadOut(s, k) \/ WriteOut(s, k) \/ End(s, k)

Next ==
    \/ Click \/ Type \/ Resize \/ Hide
    \/ \E s \in Sockets :
         \/ Handlers(s)
         \/ Upgrade(s) \/ UpgradeFails(s)
         \/ \E k \in Bridges : Bridging(s, k)
         \/ \E k \in Legs : Break(s, k)
         \/ ExecRead(s) \/ ExecWrite(s) \/ ExecExit(s)

Spec == Init /\ [][Next]_vars

\* The browser runs its handlers, the runtime polls the bridges, calls return,
\* and the process reads what is typed into it: as long as any of that can go
\* on, it does.  A session of bounded length can only do so much of it, so this
\* needs no fairness between them.
Progress ==
    \E s \in Sockets :
        \/ Handlers(s) \/ Upgrade(s)
        \/ \E k \in Bridges : Bridging(s, k)
        \/ ExecRead(s) \/ HangUp(s)

Live == Spec /\ WF_vars(Progress)

-----------------------------------------------------------------------------
(* Properties *)

Queue == {q \in Seq(Frame) : Len(q) <= Buf}
Hand == Frame \union {NoFrame}

\* Every variable has its type; only a bridge that is up holds frames, a
\* session that has a process has the bridges before it, and the page has no
\* current socket that it knows to be closed.
TypeOK ==
    /\ hops \in Bridges
    /\ sock \in [Sockets -> {"unused", "connecting", "open", "closing", "closed"}]
    /\ hooked \in [Sockets -> BOOLEAN] /\ ws \in Sockets \union {NoWs}
    /\ connected \in BOOLEAN /\ size \in Nat
    /\ \A s \in Sockets :
         /\ \A k \in Legs : leg[s][k].down \in Queue /\ leg[s][k].up \in Queue
         /\ \A k \in Bridges :
              LET b == bridge[s][k] IN
              /\ b.st \in {"none", "dialing", "up", "gone"}
              /\ b.inHand \in Hand /\ b.outHand \in Hand
              /\ b.st # "up" => b.inHand = NoFrame /\ b.outHand = NoFrame
         /\ Running(s) => \A k \in 1 .. hops : bridge[s][k].st \in {"up", "gone"}
    /\ readOnly \in [Bridges -> BOOLEAN]
    /\ ws # NoWs => sock[ws] \in {"connecting", "open", "closing"}

\* The process reads what was typed into its session and the terminal shows
\* what it wrote, in order and without a gap, up to where the session was cut,
\* over one bridge or two (exec_bridge, federated_exec_bridge).
Counts(seq) == \A i \in DOMAIN seq : seq[i] = i

\* Output of session s on the terminal, and how much of it there is in the
\* first n places.
Shows(s, i) == shown[i][1] = s /\ shown[i][2].kind = "output"
ShownUpTo(s, n) == Cardinality({i \in 1 .. n : Shows(s, i)})

PipesFaithful ==
    \A s \in Sockets :
        /\ Counts(exec[s].read) /\ Len(exec[s].read) <= typed[s]
        /\ hasty = 0 =>
             /\ \A i \in DOMAIN shown :
                  Shows(s, i) => shown[i][2].n = ShownUpTo(s, i)
             /\ ShownUpTo(s, Len(shown)) <= exec[s].wrote

\* "A fresh terminal each session keeps reconnects clean" (terminal.js): the
\* page has one session at most and the terminal shows nothing of another, as
\* long as nobody clicks on Connect while a socket is connecting.
OneSession ==
    hasty = 0 =>
      /\ \A s \in Sockets : sock[s] \in {"connecting", "open", "closing"} => s = ws
      /\ ws # NoWs => \A i \in DOMAIN shown : shown[i][1] = ws

\* "Ends -- closing the exec -- as soon as either side does" (exec_bridge;
\* and through the hub): no process is left running behind a socket that the
\* page closed, and no page is left connected to a process that ended.
EndsTogether ==
    <>[](\A s \in Sockets :
            /\ sock[s] = "closed" => ~Running(s) /\ \A k \in Bridges : ~Up(s, k)
            /\ exec[s].st = "gone" => sock[s] = "closed")

\* While a session lasts and no call fails, the process gets to know the size
\* of the terminal, also when the window was resized while it was connecting.
SizeSettles ==
    <>[](\A s \in Sockets :
            ws = s /\ connected /\ Running(s) /\ upsets = 0 => exec[s].size = size)
=============================================================================
