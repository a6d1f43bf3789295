-------------------------------- MODULE Nat --------------------------------
(***************************************************************************)
(* NAT (src/src/lib/util/nat): the address translation of one protocol,    *)
(* nat_tcp.c or nat_udp.c.  The two files have the same tables, timers and *)
(* port allocation and differ in their status machines; they share nothing *)
(* at run time, so a behaviour of this module is one of them: which is     *)
(* chosen at the start.                                                    *)
(*                                                                         *)
(* Every entry point runs under the protocol's mutex: each is one step.    *)
(* Ports are the indices bitmap1 hands out (usMinPort + index - 1 in the   *)
(* code).  A map is found by its private endpoint (address, port, domain)  *)
(* in one table and by its public port in the other.  The timer of a map   *)
(* is the abstract one of TimerService, which the wheel is checked to      *)
(* implement: left is the ticks until it expires.                          *)
(*                                                                         *)
(* A new public address frees all maps and leaves them linked in the       *)
(* public table: stale is the buckets where it does.  Who follows such a   *)
(* link uses freed memory; what the program does then is undefined, and    *)
(* nothing more is said of it (defined).                                   *)
(***************************************************************************)
EXTENDS Integers, FiniteSetsExt, Functions

CONSTANTS Endpoints,          \* private endpoints
          Protocols,          \* the protocols a behaviour may be of
          WordBits, PortNum,  \* the port bitmap
          SynTick,            \* uiSynTcpTimeOutTick, uiSynUdpTimeOutTick
          TimeOutTicks,       \* values uiTcpTimeOutTick, uiUdpTimeOutTick take
          PubIps,             \* values auiPubIp[0] takes, 0 for none
          Buckets,            \* of the public table
          NoMap               \* an endpoint that has no map

\* The statuses a map keeps, in the order of NAT_TCP_STATUS_E; a map that comes
\* to TIME_WAIT or CLOSED is freed at once.
Order == <<"SYN_SEND", "SYN_RECEIVED", "ESTABLISHED",
           "I_FIN_WAIT_1", "I_FIN_WAIT_2", "I_TIME_WAIT",
           "O_FIN_WAIT_1", "O_FIN_WAIT_2", "O_TIME_WAIT">>

Sides == {"private", "pub"}

\* A map: its public port, its status and its timer (ticks left, period).
\* fins, the sides that have sent a FIN, is there for the properties.
Node == [port : 1..PortNum, status : Range(Order), left : Nat, tick : {0, SynTick},
         fins : SUBSET Sides]

ASSUME NatAssumption ==
    /\ Protocols \subseteq {"tcp", "udp"}
    /\ PubIps \subseteq Nat /\ 0 \in PubIps /\ Buckets \in Nat /\ Buckets > 0
    /\ WordBits \in Nat /\ WordBits > 0 /\ PortNum \in Nat /\ PortNum > 0
    /\ SynTick \in Nat /\ SynTick > 0
    /\ TimeOutTicks \subseteq Nat \ {0}
    /\ \E most \in TimeOutTicks : \A k \in TimeOutTicks : k <= most  \* they are UINTs
    /\ NoMap \notin Node

VARIABLES protocol,          \* "tcp" for nat_tcp.c, "udp" for nat_udp.c; fixed
          pubIp,             \* auiPubIp[0]
          bits, uiScanIndex, \* the port bitmap
          map,               \* the private table
          pubTable,          \* the endpoints whose maps the public table links
          before,            \* its order: the pairs of them, the older one first
          stale,             \* its buckets that link freed nodes
          defined,           \* no such node has been used
          timeOutTick        \* uiTcpTimeOutTick or uiUdpTimeOutTick

ports == <<bits, uiScanIndex>>
table == <<pubTable, before>>
config == <<protocol, pubIp, timeOutTick>>
vars == <<config, ports, map, table, stale, defined>>

PortMap == INSTANCE Bitmap WITH BitNum <- PortNum

Live(e) == map[e] # NoMap

Init ==
    /\ protocol \in Protocols
    /\ pubIp = 0
    /\ PortMap!Init
    /\ map = [e \in Endpoints |-> NoMap]
    /\ pubTable = {} /\ before = {} /\ stale = {} /\ defined = TRUE
    /\ timeOutTick \in TimeOutTicks

-----------------------------------------------------------------------------
(* The status machines.  A packet is the set of its TCP flags. *)

Tcp == protocol = "tcp"

Packets == IF Tcp THEN SUBSET {"SYN", "ACK", "FIN", "RST"} ELSE {{}}

HalfOpen == {"SYN_SEND", "SYN_RECEIVED"}
Inside == {"I_FIN_WAIT_1", "I_FIN_WAIT_2", "I_TIME_WAIT"}
Outside == {"O_FIN_WAIT_1", "O_FIN_WAIT_2", "O_TIME_WAIT"}

\* Slip: a reset connection is not over.
OverNoReset == {"TIME_WAIT"}

\* The statuses in which a packet's map is freed at once.
Over == {"TIME_WAIT", "CLOSED"}

\* Following one row of a status machine, when it starts at the status.
Row(from, to) == [from |-> from, to |-> to]
Move(status, rows) ==
    IF \E r \in rows : status \in r.from
    THEN (CHOOSE r \in rows : status \in r.from).to ELSE status

FinFrom(first, second, last) ==
    {Row(HalfOpen \cup {"ESTABLISHED"}, first), Row({second}, last)}

\* Slip: a FIN is taken for the first one in every status.
nat_tcp_StepPrivateStatusAnyFin(status, pkt) ==
    IF "FIN" \in pkt THEN "I_FIN_WAIT_1"
    ELSE IF "RST" \in pkt THEN "CLOSED" ELSE status

\* Flags are looked at in this order, each on the status the last one left.
nat_tcp_StepPrivateStatus(status, pkt) ==
    LET rst == IF "RST" \in pkt THEN "CLOSED" ELSE status
        ack == IF "ACK" \notin pkt THEN rst
               ELSE Move(rst, {Row({"SYN_RECEIVED"}, "ESTABLISHED"),
                               Row({"I_TIME_WAIT"}, "TIME_WAIT"),
                               Row({"O_FIN_WAIT_1"}, "O_FIN_WAIT_2")})
    IN  IF "FIN" \notin pkt THEN ack
        ELSE Move(ack, FinFrom("I_FIN_WAIT_1", "O_FIN_WAIT_2", "O_TIME_WAIT"))

\* Slip: the other side's FIN is not waited for.
nat_tcp_StepPubStatusOneFin(status, pkt) ==
    IF "ACK" \in pkt /\ status = "I_FIN_WAIT_1" THEN "TIME_WAIT"
    ELSE IF "SYN" \in pkt /\ status = "SYN_SEND" THEN "SYN_RECEIVED" ELSE status

nat_tcp_StepPubStatus(status, pkt) ==
    LET rst == IF "RST" \in pkt THEN "CLOSED" ELSE status
        syn == IF "SYN" \notin pkt THEN rst
               ELSE Move(rst, {Row({"SYN_SEND"}, "SYN_RECEIVED")})
        ack == IF "ACK" \notin pkt THEN syn
               ELSE Move(syn, {Row({"I_FIN_WAIT_1"}, "I_FIN_WAIT_2"),
                               Row({"O_TIME_WAIT"}, "TIME_WAIT")})
    IN  IF "FIN" \notin pkt THEN ack
        ELSE Move(ack, FinFrom("O_FIN_WAIT_1", "I_FIN_WAIT_2", "I_TIME_WAIT"))

nat_udp_StepPrivateStatus(status) ==
    Move(status, {Row({"SYN_RECEIVED"}, "ESTABLISHED")})

nat_udp_StepPubStatus(status) ==
    Move(status, {Row({"SYN_SEND"}, "SYN_RECEIVED")})

StepPrivateStatus(status, pkt) ==
    IF Tcp THEN nat_tcp_StepPrivateStatus(status, pkt)
           ELSE nat_udp_StepPrivateStatus(status)

StepPubStatus(status, pkt) ==
    IF Tcp THEN nat_tcp_StepPubStatus(status, pkt)
           ELSE nat_udp_StepPubStatus(status)

-----------------------------------------------------------------------------
(* Ports, maps and timers. *)

\* The index GetPort takes, 0 when there is none.
FreeIndex == PortMap!BITMAP1_GetFreeCycle(bits, uiScanIndex)

\* GetPort hands its index, counted from 1, to BITMAP_SET, which counts
\* from 0: the bit that is set is the next port's.
GetPort(index) == bits \cup {index}

\* FreePort goes through BITMAP1_CLR, which takes the 1 off again.
FreePort(b, port) == b \ {port - 1}

\* The node AddMapNode fills in.
NewNode(port) ==
    [port |-> port, status |-> "SYN_SEND", left |-> SynTick + 1, tick |-> SynTick,
     fins |-> {}]

Fins(side, pkt) == IF "FIN" \in pkt THEN {side} ELSE {}

\* Slip: a map that is not established keeps the time it had left.
RearmedHalf(node) ==
    IF node.status \notin HalfOpen
    THEN [node EXCEPT !.left = timeOutTick, !.tick = 0] ELSE node

\* The timer after a packet: VCLOCK_RestartWithTick for a map that was ever
\* established, which also zeroes the period; VCLOCK_Refresh for the others.
Rearmed(node) ==
    IF node.status \notin HalfOpen
    THEN [node EXCEPT !.left = timeOutTick, !.tick = 0]
    ELSE [node EXCEPT !.left = node.tick]

\* nat_tcp_PubHashIndex adds the address and the port.
Bucket(port) == (pubIp + port) % Buckets

\* HASH_Add puts a node at the tail of its bucket.
Link(e) == pubTable' = pubTable \cup {e} /\ before' = before \cup (pubTable \X {e})

Unlink(gone) ==
    /\ pubTable' = pubTable \ gone
    /\ before' = {p \in before : p[1] \notin gone /\ p[2] \notin gone}

\* Slip: the node is freed but stays in the public table.
FreeMapNodePriv(e) ==
    /\ map' = [map EXCEPT ![e] = NoMap]
    /\ bits' = FreePort(bits, map[e].port)
    /\ UNCHANGED <<table, uiScanIndex>>

FreeMapNode(e) ==
    /\ map' = [map EXCEPT ![e] = NoMap]
    /\ Unlink({e})
    /\ bits' = FreePort(bits, map[e].port)
    /\ UNCHANGED uiScanIndex

\* ProcessPrivatePkt and ProcessPubPkt, for a map that already exists.
Process(e, status, fins) ==
    IF status \in Over THEN FreeMapNode(e)
    ELSE /\ map' = [map EXCEPT ![e] =
                       Rearmed([map[e] EXCEPT !.status = status,
                                              !.fins = map[e].fins \cup fins])]
         /\ UNCHANGED <<table, ports>>

-----------------------------------------------------------------------------
(* The entry points. *)

\* The map a packet creates goes through ProcessPrivatePkt at once: when
\* that closes it (a SYN that carries a RST), it is gone again.
AddMap(e, pkt) ==
    LET status == StepPrivateStatus("SYN_SEND", pkt)
    IN  IF status \in Over
        THEN /\ bits' = FreePort(GetPort(FreeIndex), FreeIndex)
             /\ UNCHANGED <<map, table>>
        ELSE /\ bits' = GetPort(FreeIndex)
             /\ map' = [map EXCEPT ![e] =
                           Rearmed([NewNode(FreeIndex) EXCEPT
                                       !.status = status,
                                       !.fins = Fins("private", pkt)])]
             /\ Link(e)

\* Neither the node nor its timer could be allocated: the port goes back.
AddMapFails ==
    /\ bits' = FreePort(GetPort(FreeIndex), FreeIndex)
    /\ UNCHANGED <<map, table>>

\* TCP opens a map for a SYN only, UDP for every packet.
PermitAdd(pkt) == pubIp # 0 /\ FreeIndex # 0 /\ (Tcp => "SYN" \in pkt)

PrivatePktIn(e, pkt) ==
    /\ IF Live(e)
       THEN Process(e, StepPrivateStatus(map[e].status, pkt), Fins("private", pkt))
       ELSE /\ PermitAdd(pkt)
            /\ uiScanIndex' = PortMap!NextScan(FreeIndex - 1)
            /\ \/ Bucket(FreeIndex) \notin stale /\ AddMap(e, pkt)
               \/ AddMapFails
    /\ UNCHANGED <<config, stale, defined>>

\* The public table is searched from the head of the bucket: of two maps
\* with one port, the older is found.
Owner(port, e) ==
    /\ e \in pubTable /\ map[e].port = port
    /\ \A d \in pubTable : <<d, e>> \in before => map[d].port # port

PubPktIn(port, pkt) ==
    /\ Bucket(port) \notin stale
    /\ \E e \in Endpoints :
          /\ Owner(port, e)
          /\ Process(e, StepPubStatus(map[e].status, pkt), Fins("pub", pkt))
    /\ UNCHANGED <<config, stale, defined>>

\* HASH_Find goes through a bucket from its head, and HASH_Add writes to its
\* last node: a packet, from outside or one that opens a map, comes upon a
\* node that was freed.
FollowStale ==
    /\ stale # {}
    /\ defined' = FALSE
    /\ UNCHANGED <<config, ports, map, table, stale>>

\* Slip: the timer of a map runs out and is started again.
TimerStepRestarts ==
    /\ map' = [e \in Endpoints |->
                  IF ~Live(e) THEN NoMap
                  ELSE [map[e] EXCEPT !.left = IF @ = 1 THEN SynTick ELSE @ - 1]]
    /\ UNCHANGED <<config, ports, table, stale, defined>>

\* One VCLOCK_Step: every timer that runs out frees its map.
TimerStep ==
    LET expired == {e \in Endpoints : Live(e) /\ map[e].left = 1}
    IN  /\ map' = [e \in Endpoints |->
                      IF ~Live(e) \/ e \in expired THEN NoMap
                      ELSE [map[e] EXCEPT !.left = @ - 1]]
        /\ Unlink(expired)
        /\ bits' = bits \ {map[e].port - 1 : e \in expired}
        /\ UNCHANGED <<config, uiScanIndex, stale, defined>>

\* The maps go with their timers, without giving their ports back, and
\* HASH_DelAll, which has no function to free the public table's nodes with,
\* leaves them linked there: it only sets uiNodeCount to 0.
SetPubIp(ip) ==
    /\ pubIp' = ip
    /\ map' = [e \in Endpoints |-> NoMap]
    /\ pubTable' = {} /\ before' = {}
    /\ stale' = stale \cup {Bucket(map[e].port) : e \in {d \in Endpoints : Live(d)}}
    /\ UNCHANGED <<protocol, ports, timeOutTick, defined>>

SetTimeOutTick(k) ==
    /\ timeOutTick' = k
    /\ UNCHANGED <<protocol, pubIp, ports, map, table, stale, defined>>

Work ==
    \/ \E e \in Endpoints, pkt \in Packets : PrivatePktIn(e, pkt)
    \/ \E port \in 1..PortNum, pkt \in Packets : PubPktIn(port, pkt)
    \/ \E k \in TimeOutTicks : SetTimeOutTick(k)
    \/ \E ip \in PubIps : SetPubIp(ip)
    \/ TimerStep \/ FollowStale

Next == (defined /\ Work) \/ (~defined /\ UNCHANGED vars)

Spec == Init /\ [][Next]_vars

\* The timer thread keeps calling NAT_TimerStep.
FairSpec == Spec /\ WF_vars(defined /\ TimerStep)

-----------------------------------------------------------------------------
(* Properties. *)

Rank(status) == CHOOSE i \in DOMAIN Order : Order[i] = status

\* Every field keeps its type.  GetPort's mark can fall one past the bitmap.
TypeOK ==
    /\ protocol \in Protocols /\ pubIp \in PubIps
    /\ bits \subseteq 0..PortNum /\ uiScanIndex \in 0..PortNum-1
    /\ timeOutTick \in TimeOutTicks
    /\ map \in [Endpoints -> Node \cup {NoMap}]
    /\ stale \subseteq 0..Buckets-1 /\ defined \in BOOLEAN

\* The two tables hold the same maps, each at one place of the public one: no
\* packet and no timer leaves a freed node where a public packet would find
\* it.  Those that SetPubIp leaves are in buckets where no map is.
TablesAgree ==
    /\ pubTable = {e \in Endpoints : Live(e)}
    /\ before \subseteq pubTable \X pubTable
    /\ \A d, e \in pubTable : d # e <=> (<<d, e>> \in before) # (<<e, d>> \in before)
    /\ \A e \in Endpoints : Live(e) => Bucket(map[e].port) \notin stale

\* Every map has a running timer that fits its status: a half-open map is
\* never kept longer than the SYN time-out, and a map whose period was
\* zeroed is never refreshed with it.
TimersFit ==
    \A e \in Endpoints : Live(e) =>
        LET node == map[e]
        IN  /\ node.left > 0
            /\ IF node.status \in HalfOpen THEN node.left <= SynTick /\ node.tick = SynTick
               ELSE node.left \in 1..Max(TimeOutTicks) /\ node.tick = 0

\* A packet for e that meets a map.
Meets(e, pkt) ==
    /\ Live(e)
    /\ \/ PrivatePktIn(e, pkt)
       \/ \E port \in 1..PortNum : Owner(port, e) /\ PubPktIn(port, pkt)

\* A packet ends a map only if it resets the connection or if both sides
\* have sent their FIN by then, whatever order flags and packets come in.
ClosedByBoth ==
    [][\A e \in Endpoints :
          Live(e) /\ map'[e] = NoMap /\ map[e].fins # {"private", "pub"} =>
              \A pkt \in Packets : Meets(e, pkt) => "RST" \in pkt]_vars

\* A connection never goes back: its status only moves forward in the order
\* of NAT_TCP_STATUS_E, and the side that closed first stays the first.
OnlyForward ==
    [][\A e \in Endpoints : Live(e) /\ map'[e] # NoMap =>
          /\ Rank(map[e].status) <= Rank(map'[e].status)
          /\ map[e].status \in Inside => map'[e].status \in Inside]_vars

\* A map that no packet meets any more goes away, in every status, unless
\* freed memory has been used.
AgesOut ==
    \/ <>~defined
    \/ \A e \in Endpoints :
          \/ []<>~Live(e)
          \/ []<><<\E pkt \in Packets : Meets(e, pkt)>>_vars

\* The bit of every port in use is set, counting indices from 1 as bitmap1
\* does: so no port is handed out twice.
AllocatedIsSet == \A e \in Endpoints : Live(e) => map[e].port - 1 \in bits
=============================================================================
