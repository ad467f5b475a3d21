---------------------------- MODULE UdpForwarder ----------------------------
(***************************************************************************)
(* The client's side of one udp session: one local socket per visitor.     *)
(*                                                                         *)
(* The forwarder task takes the visitors' packets from the data connection *)
(* and sends each from the socket of its visitor, which it binds when the  *)
(* map has none; the first packet of a new socket carries the PROXY        *)
(* protocol header.  Every socket has a reader task that carries the       *)
(* replies back.  Forwarder and readers take sockets out of the map by the *)
(* visitor's address, whichever socket stands there.                       *)
(***************************************************************************)
EXTENDS Naturals

CONSTANTS UfVisitors, UfSockets, UfNone

ASSUME UfAssumptions == UfNone \notin UfVisitors \cup UfSockets

VARIABLES
    ufMap,      \* visitor -> socket
    ufSock,     \* per socket: its visitor, its reader, and what the service received on it
    ufFwd,      \* the forwarder: where it is, and the packet it handles
    ufFailed    \* visitors for which a send failed (history)

ufVars == <<ufMap, ufSock, ufFwd, ufFailed>>

\* got: what the local service makes of the socket's packets: "nothing" so far, a flow
\* that began with the header and has no other, or something else.
UfFresh == [visitor |-> UfNone, reader |-> "none", got |-> "nothing"]
UfIdle == [pc |-> "recv", visitor |-> UfNone, sock |-> UfNone, new |-> FALSE]

UfInit ==
    /\ ufMap = [v \in UfVisitors |-> UfNone]
    /\ ufSock = [s \in UfSockets |-> UfFresh]
    /\ ufFwd = UfIdle
    /\ ufFailed = {}

\* The next packet is v's; the map is looked up and unlocked.
UfRecv(v) ==
    /\ ufFwd.pc = "recv"
    /\ ufFwd' = [pc |-> IF ufMap[v] = UfNone THEN "bind" ELSE "send",
                 visitor |-> v, sock |-> ufMap[v], new |-> FALSE]
    /\ UNCHANGED <<ufMap, ufSock, ufFailed>>

\* Binding or connecting a socket fails: the packet is dropped.
UfBindFails ==
    /\ ufFwd.pc = "bind"
    /\ ufFwd' = UfIdle
    /\ UNCHANGED <<ufMap, ufSock, ufFailed>>

\* A socket nobody uses any more stands for a new one.
UfUnused(s) ==
    /\ ufSock[s].reader \in {"none", "gone"}
    /\ \A v \in UfVisitors : ufMap[v] # s
    /\ ufFwd.sock # s

\* Only the forwarder inserts: the entry it found vacant still is.
UfBind ==
    /\ ufFwd.pc = "bind"
    /\ LET v == ufFwd.visitor
       IN  \E s \in UfSockets :
               /\ UfUnused(s)
               /\ ufMap' = [ufMap EXCEPT ![v] = s]
               /\ ufSock' = [ufSock EXCEPT ![s] = [UfFresh EXCEPT !.visitor = v]]
               /\ ufFwd' = [ufFwd EXCEPT !.pc = "send", !.sock = s, !.new = TRUE]
    /\ UNCHANGED ufFailed

UfReceive(got, header) ==
    CASE got = "nothing" /\ header -> "flow"
      [] got = "flow" /\ ~header -> "flow"
      [] OTHER -> "garbled"

\* The packet reaches the local service; a new socket gets its reader.
UfSend ==
    /\ ufFwd.pc = "send"
    /\ LET s == ufFwd.sock
       IN  ufSock' = [ufSock EXCEPT ![s].got = UfReceive(@, ufFwd.new),
                                    ![s].reader = IF ufFwd.new THEN "read" ELSE @]
    /\ ufFwd' = UfIdle
    /\ UNCHANGED <<ufMap, ufFailed>>

\* The service refuses the packet.  The reader of an older socket goes on.
UfSendFails ==
    /\ ufFwd.pc = "send"
    /\ ufMap' = [ufMap EXCEPT ![ufFwd.visitor] = UfNone]
    /\ ufFailed' = ufFailed \cup {ufFwd.visitor}
    /\ ufFwd' = UfIdle
    /\ UNCHANGED ufSock

\* writer_fn leaves its loop: no reply for CLIENT_IDLE, a receive error, or a reply that
\* the full or closed channel to the data connection does not take.
UfReaderBreaks(s) ==
    /\ ufSock[s].reader = "read"
    /\ ufSock' = [ufSock EXCEPT ![s].reader = "remove"]
    /\ UNCHANGED <<ufMap, ufFwd, ufFailed>>

\* MUTANT: the reader ends without touching the map.
UfReaderRemovesNothing(s) ==
    /\ ufSock[s].reader = "remove"
    /\ ufSock' = [ufSock EXCEPT ![s].reader = "gone"]
    /\ UNCHANGED <<ufMap, ufFwd, ufFailed>>

\* It removes the entry of its visitor, and drops its reference to the socket.
UfReaderRemoves(s) ==
    /\ ufSock[s].reader = "remove"
    /\ ufMap' = IF ufFwd.pc = "over" THEN ufMap ELSE [ufMap EXCEPT ![ufSock[s].visitor] = UfNone]
    /\ ufSock' = [ufSock EXCEPT ![s].reader = "gone"]
    /\ UNCHANGED <<ufFwd, ufFailed>>

\* run_udp_session ends and aborts the forwarder at one of its awaits; readers go on.
UfAbort ==
    /\ ufFwd.pc # "over"
    /\ ufFwd' = [UfIdle EXCEPT !.pc = "over"]
    /\ ufMap' = [v \in UfVisitors |-> UfNone]
    /\ UNCHANGED <<ufSock, ufFailed>>

UfNext ==
    \/ \E v \in UfVisitors : UfRecv(v)
    \/ UfBindFails \/ UfBind \/ UfSend \/ UfSendFails \/ UfAbort
    \/ \E s \in UfSockets : UfReaderBreaks(s) \/ UfReaderRemoves(s)

\* A reader whose channel is closed or whose service is silent leaves its loop.
UfFairness == \A s \in UfSockets : WF_ufVars(UfReaderBreaks(s)) /\ WF_ufVars(UfReaderRemoves(s))

UfSpec == UfInit /\ [][UfNext]_ufVars /\ UfFairness

-----------------------------------------------------------------------------
UfSocks == [visitor : UfVisitors \cup {UfNone}, reader : {"none", "read", "remove", "gone"},
            got : {"nothing", "flow", "garbled"}]

\* The types of the variables.
UfTypeOK ==
    /\ ufMap \in [UfVisitors -> UfSockets \cup {UfNone}]
    /\ ufSock \in [UfSockets -> UfSocks]
    /\ ufFwd \in [pc : {"recv", "bind", "send", "over"}, visitor : UfVisitors \cup {UfNone},
                  sock : UfSockets \cup {UfNone}, new : BOOLEAN]
    /\ ufFailed \subseteq UfVisitors

\* A visitor's packets go out of a socket of its own whose replies somebody reads: the
\* reader is there, or about to remove the entry, or started when the first packet is out.
UfEntryHasReader ==
    \A v \in UfVisitors : ufMap[v] # UfNone =>
        /\ ufSock[ufMap[v]].visitor = v
        /\ \/ ufSock[ufMap[v]].reader \in {"read", "remove"}
           \/ ufFwd.pc = "send" /\ ufFwd.sock = ufMap[v] /\ ufFwd.new

\* On every socket the service receives the header first and once, whatever fails on the
\* way: a socket whose first packet failed is not used again.
UfHeaderFirst == \A s \in UfSockets : ufSock[s].got # "garbled"

\* Two sockets of one visitor are read at the same time, and a reader takes the entry of
\* another socket out of the map, only after a send for that visitor had failed.
UfDoubleHasCause ==
    \A s, t \in UfSockets :
        /\ s # t /\ ufSock[s].visitor = ufSock[t].visitor
        /\ {ufSock[s].reader, ufSock[t].reader} \subseteq {"read", "remove"}
        => ufSock[s].visitor \in ufFailed

\* When the session is over its sockets are closed.
UfSocketsClosed ==
    (ufFwd.pc = "over") ~> (\A s \in UfSockets : ufSock[s].reader \in {"none", "gone"})

\* Every packet of a visitor is on a socket of its own that begins with the header and
\* whose replies are read, and by one reader unless a send had failed.
UfSound == UfTypeOK /\ UfEntryHasReader /\ UfHeaderFirst /\ UfDoubleHasCause
=============================================================================
