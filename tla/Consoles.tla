------------------------------ MODULE Consoles ------------------------------
(***************************************************************************)
(* Consoles (api/consoles.py, services/consoletickets.py, ptybridge.py,    *)
(* consoleproxy.py).  A ticket is minted for one target with a session     *)
(* Proxmox has opened for it; a websocket redeems it, connects upstream    *)
(* and relays until either side ends.  Browsers leave, guests stop, rows   *)
(* are dropped and tickets expire at any point.                            *)
(***************************************************************************)
EXTENDS Naturals

CONSTANTS Tickets, Sockets, TargetIds, MaxUpsets
ASSUME ConsolesAssumption == MaxUpsets \in Nat /\ Tickets # {} /\ TargetIds # {}

VARIABLES
  ticket,   \* console_tickets
  there,    \* targets with a row whose host has one
  awake,    \* targets whose filed status is not a stopped one
  sock,     \* the websocket handlers
  upsets
consolesVars == <<ticket, there, awake, sock, upsets>>

Kinds == {"pty", "vnc"}            \* app_console and node_shell; vm_vnc
Target == Kinds \X TargetIds
NoTicket == [st |-> "none", of |-> CHOOSE t \in Target : TRUE]
Ticket == [st : {"none", "minted", "redeemed", "expired"}, of : Target]
NoSocket == [pc |-> "none", ticket |-> CHOOSE t \in Tickets : TRUE, url |-> NoTicket.of,
             browser |-> "there", up |-> "none", fromB |-> "off", fromU |-> "off",
             keep |-> "off", told |-> FALSE, frame |-> FALSE]
Socket == [pc : {"none", "looked", "redeemed", "accepted", "greeting", "greeted", "relaying",
                 "settling", "done", "abandoned"},
           ticket : Tickets, url : Target,
           browser : {"there", "left"}, up : {"none", "live", "dropped", "closed"},
           fromB : {"off", "on", "ended", "idle"}, fromU : {"off", "on", "ended"},
           keep : {"off", "on", "died"},
           told : BOOLEAN,       \* the browser was sent its exit frame
           frame : BOOLEAN]      \* output waits behind the first OK
ConsolesTypeOK ==
  /\ ticket \in [Tickets -> Ticket] /\ sock \in [Sockets -> Socket]
  /\ there \subseteq Target /\ awake \subseteq Target /\ upsets \in 0..MaxUpsets

ConsolesInit ==
  /\ ticket = [t \in Tickets |-> NoTicket] /\ sock = [s \in Sockets |-> NoSocket]
  /\ there = Target /\ awake = Target /\ upsets = 0

-----------------------------------------------------------------------------
(* Tickets.                                                                *)

\* The three ticket routes.  A guest known to be stopped is refused.
Mint(t, x) ==
  /\ ticket[t].st = "none" /\ x \in there /\ x \in awake
  /\ ticket' = [ticket EXCEPT ![t] = [st |-> "minted", of |-> x]]
  /\ UNCHANGED <<there, awake, sock, upsets>>

\* redeem_ticket, the SELECT: any number may find the same row.
Look(s, t, x) ==
  /\ sock[s].pc = "none" /\ ticket[t].st \in {"minted", "redeemed"}
  /\ sock' = [sock EXCEPT ![s] = [NoSocket EXCEPT !.pc = "looked", !.ticket = t, !.url = x]]
  /\ UNCHANGED <<ticket, there, awake, upsets>>

To(s, pc) == sock' = [sock EXCEPT ![s].pc = pc]
BugUnspent(t) == TRUE
\* UPDATE ... WHERE redeemed_at IS NULL
Unspent(t) == ticket[t].st # "redeemed"
RightPage(s) == ticket[sock[s].ticket].of = sock[s].url
\* Redeemed it is even by a request for something else, which is then closed.
Redeem(s) ==
  LET t == sock[s].ticket IN
    /\ sock[s].pc = "looked"
    /\ ticket' = IF Unspent(t) THEN [ticket EXCEPT ![t].st = "redeemed"] ELSE ticket
    /\ To(s, IF Unspent(t) /\ RightPage(s) THEN "redeemed" ELSE "done")
    /\ UNCHANGED <<there, awake, upsets>>
\* The target and its host may have gone since: closed as not found.
Accept(s) ==
  /\ sock[s].pc = "redeemed"
  /\ To(s, IF ticket[sock[s].ticket].of \in there THEN "accepted" ELSE "done")
  /\ UNCHANGED <<ticket, there, awake, upsets>>

-----------------------------------------------------------------------------
(* Upstream: connect_upstream_pty and connect_upstream_vnc.                *)

PtyOf(s) == sock[s].url[1] = "pty"
\* A PTY still wants to be greeted; VNC's greeting is the browser's business.
Connect(s) ==
  /\ sock[s].pc = "accepted"
  /\ sock' = [sock EXCEPT ![s].up = "live", ![s].pc = IF PtyOf(s) THEN "greeting" ELSE "greeted"]
  /\ UNCHANGED <<ticket, there, awake, upsets>>
\* A changed certificate or a refused upgrade; a PTY's browser is told.
Unreached(s) ==
  /\ sock[s].pc = "accepted"
  /\ sock' = [sock EXCEPT ![s].pc = "done", ![s].told = PtyOf(s) /\ sock[s].browser = "there"]
  /\ UNCHANGED <<ticket, there, awake, upsets>>
Greeted(s) ==
  /\ sock[s].pc = "greeting" /\ sock[s].up = "live"
  /\ \E frame \in BOOLEAN : sock' = [sock EXCEPT ![s].pc = "greeted", ![s].frame = frame]
  /\ UNCHANGED <<ticket, there, awake, upsets>>
\* An answer that is not OK hangs up.
Rejected(s) ==
  /\ sock[s].pc = "greeting" /\ sock[s].up = "live"
  /\ sock' = [sock EXCEPT ![s].pc = "done", ![s].up = "closed", ![s].told = sock[s].browser = "there"]
  /\ UNCHANGED <<ticket, there, awake, upsets>>
\* No answer in ten seconds, or the connection drops: nobody hangs up.
Silent(s) ==
  /\ sock[s].pc = "greeting"
  /\ sock' = [sock EXCEPT ![s].pc = "abandoned", ![s].told = sock[s].browser = "there"]
  /\ UNCHANGED <<ticket, there, awake, upsets>>
\* What was waiting behind the OK goes first; sent to a browser that left, it ends the handler.
StartRelay(s) ==
  /\ sock[s].pc = "greeted"
  /\ sock' = IF sock[s].frame /\ sock[s].browser = "left" THEN [sock EXCEPT ![s].pc = "abandoned"]
             ELSE [sock EXCEPT ![s] = [@ EXCEPT !.pc = "relaying", !.fromB = "on", !.fromU = "on",
                                         !.keep = IF PtyOf(s) THEN "on" ELSE "off"]]
  /\ UNCHANGED <<ticket, there, awake, upsets>>

-----------------------------------------------------------------------------
(* bridge_pty and bridge_binary: one task a direction, the first to end    *)
(* ends both.                                                              *)

Relaying(s) == sock[s].pc = "relaying"
FromBrowserEnds(s) ==                    \* it left, or said nothing for too long
  /\ Relaying(s) /\ sock[s].fromB = "on"
  /\ \E how \in {"ended", "idle"} :
       /\ how = "ended" => sock[s].browser = "left" \/ sock[s].up # "live"
       /\ sock' = [sock EXCEPT ![s].fromB = how]
  /\ UNCHANGED <<ticket, there, awake, upsets>>
FromUpstreamEnds(s) ==                   \* it dropped, or the browser takes no more
  /\ Relaying(s) /\ sock[s].fromU = "on" /\ (sock[s].up # "live" \/ sock[s].browser = "left")
  /\ sock' = [sock EXCEPT ![s].fromU = "ended"]
  /\ UNCHANGED <<ticket, there, awake, upsets>>
\* A keepalive into a dropped connection ends that task, and nobody looks yet.
KeepaliveDies(s) ==
  /\ Relaying(s) /\ sock[s].keep = "on" /\ sock[s].up = "dropped"
  /\ sock' = [sock EXCEPT ![s].keep = "died"]
  /\ UNCHANGED <<ticket, there, awake, upsets>>
\* asyncio.wait(FIRST_COMPLETED), then the other task is cancelled.
FirstEnded(s) == sock[s].fromB # "on" \/ sock[s].fromU # "on"
Settle(s) ==
  /\ Relaying(s) /\ FirstEnded(s)
  /\ sock' = [sock EXCEPT ![s] = [@ EXCEPT !.pc = "settling", !.fromB = "off", !.fromU = "off"]]
  /\ UNCHANGED <<ticket, there, awake, upsets>>
\* The finally, each step best effort: a browser that left does not keep the
\* upstream open.  A keepalive that died raises there, before the exit frame is sent.
Cleanup(s) ==
  /\ sock[s].pc = "settling"
  /\ sock' = [sock EXCEPT ![s] = [@ EXCEPT !.pc = "done",
                !.told = PtyOf(s) /\ ~sock[s].told /\ sock[s].browser = "there" /\ sock[s].keep # "died",
                !.up = IF sock[s].up = "live" /\ sock[s].keep # "died" THEN "closed" ELSE sock[s].up]]
  /\ UNCHANGED <<ticket, there, awake, upsets>>

-----------------------------------------------------------------------------
(* Everybody else.                                                         *)

Upset == upsets < MaxUpsets /\ upsets' = upsets + 1
Expire(t) == /\ ticket[t].st = "minted" /\ Upset
             /\ ticket' = [ticket EXCEPT ![t].st = "expired"]
             /\ UNCHANGED <<there, awake, sock>>
Stops(x) == x \in awake /\ awake' = awake \ {x} /\ Upset /\ UNCHANGED <<ticket, there, sock>>
RowGoes(x) == x \in there /\ there' = there \ {x} /\ Upset /\ UNCHANGED <<ticket, awake, sock>>
Leaves(s) ==
  /\ sock[s].pc \notin {"none", "done", "abandoned"} /\ sock[s].browser = "there" /\ Upset
  /\ sock' = [sock EXCEPT ![s].browser = "left"] /\ UNCHANGED <<ticket, there, awake>>
Drops(s) ==
  /\ sock[s].up = "live" /\ Upset
  /\ sock' = [sock EXCEPT ![s].up = "dropped"] /\ UNCHANGED <<ticket, there, awake>>

ConsolesNext ==
  \/ \E t \in Tickets : Expire(t) \/ \E x \in Target : Mint(t, x) \/ \E s \in Sockets : Look(s, t, x)
  \/ \E s \in Sockets :
       \/ Redeem(s) \/ Accept(s) \/ Connect(s) \/ Unreached(s) \/ Greeted(s) \/ Rejected(s)
       \/ Silent(s) \/ StartRelay(s) \/ FromBrowserEnds(s) \/ FromUpstreamEnds(s)
       \/ KeepaliveDies(s) \/ Settle(s) \/ Cleanup(s) \/ Leaves(s) \/ Drops(s)
  \/ \E x \in Target : Stops(x) \/ RowGoes(x)
ConsolesSpec == ConsolesInit /\ [][ConsolesNext]_consolesVars

-----------------------------------------------------------------------------
Inside(s) == sock[s].up # "none"
\* Of all the websockets that found a ticket, one gets through the redemption,
\* and only on the page of the target it was minted for.
OneEach ==
  \A s \in Sockets : Inside(s) =>
    /\ ticket[sock[s].ticket].of = sock[s].url
    /\ \A r \in Sockets \ {s} : Inside(r) => sock[r].ticket # sock[s].ticket
\* A handler that ran to its end leaves no session open on the node, whoever ended it.
NoneLeftOpen == \A s \in Sockets : sock[s].pc = "done" => sock[s].up # "live"
\* A ticket opens one console, and an ended console is over on the node as well.
ConsolesSound == ConsolesTypeOK /\ OneEach /\ NoneLeftOpen

\* _best_effort: "upstream_ws.close() must still fire or the PVE-side termproxy session
\* leaks".  Two handlers end without it: one nobody greeted in time, and one whose
\* browser left before the first output was sent.
NoSessionLeaks == \A s \in Sockets : sock[s].pc \in {"done", "abandoned"} => sock[s].up # "live"
=============================================================================
