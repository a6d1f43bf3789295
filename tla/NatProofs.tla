----------------------------- MODULE NatProofs -----------------------------
(***************************************************************************)
(* Proofs about address translation, for any endpoints, number of ports    *)
(* and time-outs.                                                          *)
(*                                                                         *)
(* The two status machines are looked at first, one flag after the other:  *)
(* whatever flags a segment has, the status it leads to is Legal.  The     *)
(* inductive invariant is that every map is Sound: its timer fits its      *)
(* status (TimerFits), and so do the sides that have sent a FIN (FinsFit). *)
(* TypeOK is not inductive without it, as the period of a map is 0 or that *)
(* of a half-open one by its status.  A packet from outside meets a map    *)
(* because the tables agree (TablesAgree), which is shown beside it: links *)
(* to freed nodes, which a new public address leaves, are in buckets where *)
(* no map is.  Ports come from the bitmap, about which BitmapProofs says   *)
(* enough.                                                                 *)
(***************************************************************************)
EXTENDS Nat, TLAPS

Searches == INSTANCE BitmapProofs WITH BitNum <- PortNum

\* GetPort answers with a port, or with 0.
LEMMA FreeIndexIsPort ==
  ASSUME uiScanIndex \in 0..PortNum-1
  PROVE  FreeIndex \in 0..PortNum
  <1> DEFINE index == Searches!BITMAP_GetFreeCycle(bits, uiScanIndex)
  <1>1. Searches!BitmapAssumption  BY NatAssumption DEF Searches!BitmapAssumption
  <1>2. index \in (0..PortNum-1) \ bits \/ index = -1
    BY <1>1, Searches!CycleIsFree
  <1>3. FreeIndex = index + 1
    BY DEF FreeIndex, PortMap!BITMAP1_GetFreeCycle, PortMap!BITMAP_GetFreeCycle,
           PortMap!ArrayBit_GetFreeFrom, PortMap!ArrayBit_GetFree, PortMap!First,
           PortMap!Words, PortMap!Word, PortMap!EntryBit, PortMap!Min,
           Searches!BITMAP_GetFreeCycle,
           Searches!ArrayBit_GetFreeFrom, Searches!ArrayBit_GetFree, Searches!First,
           Searches!Words, Searches!Word, Searches!EntryBit, Searches!Min
  <1> HIDE DEF index
  <1> QED  BY <1>2, <1>3, NatAssumption

-----------------------------------------------------------------------------
(* The status machines. *)

Statuses == {"SYN_SEND", "SYN_RECEIVED", "ESTABLISHED",
             "I_FIN_WAIT_1", "I_FIN_WAIT_2", "I_TIME_WAIT",
             "O_FIN_WAIT_1", "O_FIN_WAIT_2", "O_TIME_WAIT"}

LEMMA StatusesAre == Range(Order) = Statuses
  <1>1. DOMAIN Order = 1..9  BY DEF Order
  <1>2. /\ Order[1] = "SYN_SEND" /\ Order[2] = "SYN_RECEIVED" /\ Order[3] = "ESTABLISHED"
        /\ Order[4] = "I_FIN_WAIT_1" /\ Order[5] = "I_FIN_WAIT_2" /\ Order[6] = "I_TIME_WAIT"
        /\ Order[7] = "O_FIN_WAIT_1" /\ Order[8] = "O_FIN_WAIT_2" /\ Order[9] = "O_TIME_WAIT"
    BY DEF Order
  <1> HIDE DEF Order
  <1>3. ASSUME NEW s \in Range(Order)  PROVE s \in Statuses
    <2>1. PICK i \in 1..9 : s = Order[i]  BY <1>1 DEF Range
    <2>2. \/ i = 1 \/ i = 2 \/ i = 3 \/ i = 4 \/ i = 5 \/ i = 6 \/ i = 7 \/ i = 8 \/ i = 9
      OBVIOUS
    <2> QED  BY <1>2, <2>1, <2>2 DEF Statuses
  <1>4. ASSUME NEW s \in Statuses  PROVE s \in Range(Order)
    <2>1. \E i \in 1..9 : s = Order[i]  BY <1>2 DEF Statuses
    <2> QED  BY <1>1, <2>1 DEF Range
  <1> QED  BY <1>3, <1>4

\* The rank of a status is its place in the enumeration.
LEMMA RankIs ==
  /\ Rank("SYN_SEND") = 1 /\ Rank("SYN_RECEIVED") = 2 /\ Rank("ESTABLISHED") = 3
  /\ Rank("I_FIN_WAIT_1") = 4 /\ Rank("I_FIN_WAIT_2") = 5 /\ Rank("I_TIME_WAIT") = 6
  /\ Rank("O_FIN_WAIT_1") = 7 /\ Rank("O_FIN_WAIT_2") = 8 /\ Rank("O_TIME_WAIT") = 9
  <1>1. DOMAIN Order = 1..9  BY DEF Order
  <1>2. /\ Order[1] = "SYN_SEND" /\ Order[2] = "SYN_RECEIVED" /\ Order[3] = "ESTABLISHED"
        /\ Order[4] = "I_FIN_WAIT_1" /\ Order[5] = "I_FIN_WAIT_2" /\ Order[6] = "I_TIME_WAIT"
        /\ Order[7] = "O_FIN_WAIT_1" /\ Order[8] = "O_FIN_WAIT_2" /\ Order[9] = "O_TIME_WAIT"
    BY DEF Order
  <1> HIDE DEF Order
  <1>3. \A i, k \in 1..9 : Order[i] = Order[k] => i = k
    <2>1. \A i \in 1..9 : \/ i = 1 \/ i = 2 \/ i = 3 \/ i = 4 \/ i = 5 \/ i = 6
                          \/ i = 7 \/ i = 8 \/ i = 9
      OBVIOUS
    <2> QED  BY <1>2, <2>1
  <1>4. \A i \in 1..9 : Rank(Order[i]) = i  BY <1>1, <1>3 DEF Rank
  <1>5. /\ Rank(Order[1]) = 1 /\ Rank(Order[2]) = 2 /\ Rank(Order[3]) = 3
        /\ Rank(Order[4]) = 4 /\ Rank(Order[5]) = 5 /\ Rank(Order[6]) = 6
        /\ Rank(Order[7]) = 7 /\ Rank(Order[8]) = 8 /\ Rank(Order[9]) = 9
    BY <1>4
  <1> QED  BY <1>2, <1>5

\* Following the one row that starts at the status, or none.
LEMMA MoveAlong ==
  ASSUME NEW s, NEW rows, NEW r \in rows, s \in r.from,
         \A q \in rows : s \in q.from => q = r
  PROVE  Move(s, rows) = r.to
  <1>1. (CHOOSE x \in rows : s \in x.from) = r  OBVIOUS
  <1> QED  BY <1>1 DEF Move

LEMMA MoveNot ==
  ASSUME NEW s, NEW rows, \A q \in rows : s \notin q.from
  PROVE  Move(s, rows) = s
  BY DEF Move

\* What a status says of the FINs seen so far: the side it is named after has
\* sent its FIN, and in a TIME_WAIT of one side both have.
FinsFit(status, fins) ==
    /\ status \in Inside => "private" \in fins
    /\ status \in Outside => "pub" \in fins
    /\ status \in {"I_TIME_WAIT", "O_TIME_WAIT"} => {"private", "pub"} \subseteq fins

\* What a packet of a side may make of a status.
Legal(old, side, pkt, new) ==
    /\ new \in Statuses \cup Over
    /\ new \in Over /\ "RST" \notin pkt => old \in {"I_TIME_WAIT", "O_TIME_WAIT"}
    /\ new \notin Over =>
          /\ Rank(old) <= Rank(new)
          /\ old \in Inside => new \in Inside
          /\ new \in HalfOpen => old \in HalfOpen
          /\ \A fins : FinsFit(old, fins) => FinsFit(new, fins \cup Fins(side, pkt))

\* A FIN of the side named first, on the status the other flags left.
LEMMA FinIs ==
  ASSUME NEW s, NEW first, NEW second, NEW last, second \notin HalfOpen \cup {"ESTABLISHED"}
  PROVE  Move(s, FinFrom(first, second, last)) =
           IF s \in HalfOpen \cup {"ESTABLISHED"} THEN first
           ELSE IF s = second THEN last ELSE s
  <1> DEFINE p == Row(HalfOpen \cup {"ESTABLISHED"}, first)
             q == Row({second}, last)
             rows == {p, q}
  <1>1. /\ p.from = HalfOpen \cup {"ESTABLISHED"} /\ p.to = first
        /\ q.from = {second} /\ q.to = last
    BY DEF Row
  <1>2. FinFrom(first, second, last) = rows  BY DEF FinFrom
  <1> HIDE DEF p, q
  <1>3. CASE s \in HalfOpen \cup {"ESTABLISHED"}
    <2>1. Move(s, rows) = p.to  BY <1>1, <1>3, MoveAlong
    <2> QED  BY <1>1, <1>2, <1>3, <2>1
  <1>4. CASE s = second
    <2>1. Move(s, rows) = q.to  BY <1>1, <1>4, MoveAlong
    <2> QED  BY <1>1, <1>2, <1>4, <2>1
  <1>5. CASE s \notin HalfOpen \cup {"ESTABLISHED"} /\ s # second
    <2>1. Move(s, rows) = s  BY <1>1, <1>5, MoveNot
    <2> QED  BY <1>2, <1>5, <2>1
  <1> QED  BY <1>3, <1>4, <1>5

\* The same for rows that start at one status each.
LEMMA RowIs ==
  ASSUME NEW s, NEW a, NEW b
  PROVE  Move(s, {Row({a}, b)}) = IF s = a THEN b ELSE s
  <1> DEFINE p == Row({a}, b)
             rows == {p}
  <1>1. p.from = {a} /\ p.to = b  BY DEF Row
  <1> HIDE DEF p
  <1>2. CASE s = a
    <2>1. Move(s, rows) = p.to  BY <1>1, <1>2, MoveAlong
    <2> QED  BY <1>1, <1>2, <2>1 DEF p
  <1>3. CASE s # a
    <2>1. Move(s, rows) = s  BY <1>1, <1>3, MoveNot
    <2> QED  BY <1>3, <2>1 DEF p
  <1> QED  BY <1>2, <1>3

LEMMA PrivateIs ==
  ASSUME NEW s, NEW pkt
  PROVE  LET rst == IF "RST" \in pkt THEN "CLOSED" ELSE s
             ack == IF "ACK" \notin pkt THEN rst
                    ELSE IF rst = "SYN_RECEIVED" THEN "ESTABLISHED"
                    ELSE IF rst = "I_TIME_WAIT" THEN "TIME_WAIT"
                    ELSE IF rst = "O_FIN_WAIT_1" THEN "O_FIN_WAIT_2" ELSE rst
         IN  nat_tcp_StepPrivateStatus(s, pkt) =
               IF "FIN" \notin pkt THEN ack
               ELSE IF ack \in HalfOpen \cup {"ESTABLISHED"} THEN "I_FIN_WAIT_1"
               ELSE IF ack = "O_FIN_WAIT_2" THEN "O_TIME_WAIT" ELSE ack
  <1> DEFINE rst == IF "RST" \in pkt THEN "CLOSED" ELSE s
             rows == {Row({"SYN_RECEIVED"}, "ESTABLISHED"), Row({"I_TIME_WAIT"}, "TIME_WAIT"),
                      Row({"O_FIN_WAIT_1"}, "O_FIN_WAIT_2")}
  <1>1. \A x : Move(x, rows) =
           IF x = "SYN_RECEIVED" THEN "ESTABLISHED"
           ELSE IF x = "I_TIME_WAIT" THEN "TIME_WAIT"
           ELSE IF x = "O_FIN_WAIT_1" THEN "O_FIN_WAIT_2" ELSE x
    <2> TAKE x
    <2> DEFINE p == Row({"SYN_RECEIVED"}, "ESTABLISHED")
               q == Row({"I_TIME_WAIT"}, "TIME_WAIT")
               r == Row({"O_FIN_WAIT_1"}, "O_FIN_WAIT_2")
    <2>1. /\ p.from = {"SYN_RECEIVED"} /\ p.to = "ESTABLISHED"
          /\ q.from = {"I_TIME_WAIT"} /\ q.to = "TIME_WAIT"
          /\ r.from = {"O_FIN_WAIT_1"} /\ r.to = "O_FIN_WAIT_2"
      BY DEF Row
    <2>2. rows = {p, q, r}  OBVIOUS
    <2> HIDE DEF p, q, r, rows
    <2>3. x = "SYN_RECEIVED" => Move(x, rows) = p.to  BY <2>1, <2>2, MoveAlong
    <2>4. x = "I_TIME_WAIT" => Move(x, rows) = q.to  BY <2>1, <2>2, MoveAlong
    <2>5. x = "O_FIN_WAIT_1" => Move(x, rows) = r.to  BY <2>1, <2>2, MoveAlong
    <2>6. x \notin {"SYN_RECEIVED", "I_TIME_WAIT", "O_FIN_WAIT_1"} => Move(x, rows) = x
      BY <2>1, <2>2, MoveNot
    <2> QED  BY <2>1, <2>3, <2>4, <2>5, <2>6
  <1>2. \A x : Move(x, FinFrom("I_FIN_WAIT_1", "O_FIN_WAIT_2", "O_TIME_WAIT")) =
           IF x \in HalfOpen \cup {"ESTABLISHED"} THEN "I_FIN_WAIT_1"
           ELSE IF x = "O_FIN_WAIT_2" THEN "O_TIME_WAIT" ELSE x
    <2> TAKE x
    <2>1. "O_FIN_WAIT_2" \notin HalfOpen \cup {"ESTABLISHED"}  BY DEF HalfOpen
    <2> QED  BY <2>1, FinIs
  <1> HIDE DEF rows
  <1>3. nat_tcp_StepPrivateStatus(s, pkt) =
          LET ack == IF "ACK" \notin pkt THEN rst ELSE Move(rst, rows)
          IN  IF "FIN" \notin pkt THEN ack
              ELSE Move(ack, FinFrom("I_FIN_WAIT_1", "O_FIN_WAIT_2", "O_TIME_WAIT"))
    BY DEF nat_tcp_StepPrivateStatus, rows
  <1> QED  BY <1>1, <1>2, <1>3

LEMMA PubIs ==
  ASSUME NEW s, NEW pkt
  PROVE  LET rst == IF "RST" \in pkt THEN "CLOSED" ELSE s
             syn == IF "SYN" \notin pkt THEN rst
                    ELSE IF rst = "SYN_SEND" THEN "SYN_RECEIVED" ELSE rst
             ack == IF "ACK" \notin pkt THEN syn
                    ELSE IF syn = "I_FIN_WAIT_1" THEN "I_FIN_WAIT_2"
                    ELSE IF syn = "O_TIME_WAIT" THEN "TIME_WAIT" ELSE syn
         IN  nat_tcp_StepPubStatus(s, pkt) =
               IF "FIN" \notin pkt THEN ack
               ELSE IF ack \in HalfOpen \cup {"ESTABLISHED"} THEN "O_FIN_WAIT_1"
               ELSE IF ack = "I_FIN_WAIT_2" THEN "I_TIME_WAIT" ELSE ack
  <1> DEFINE rst == IF "RST" \in pkt THEN "CLOSED" ELSE s
             one == {Row({"SYN_SEND"}, "SYN_RECEIVED")}
             rows == {Row({"I_FIN_WAIT_1"}, "I_FIN_WAIT_2"), Row({"O_TIME_WAIT"}, "TIME_WAIT")}
  <1>0. \A x : Move(x, one) = IF x = "SYN_SEND" THEN "SYN_RECEIVED" ELSE x
    <2> TAKE x
    <2> QED  BY RowIs, Zenon
  <1>1. \A x : Move(x, rows) =
           IF x = "I_FIN_WAIT_1" THEN "I_FIN_WAIT_2"
           ELSE IF x = "O_TIME_WAIT" THEN "TIME_WAIT" ELSE x
    <2> TAKE x
    <2> DEFINE p == Row({"I_FIN_WAIT_1"}, "I_FIN_WAIT_2")
               q == Row({"O_TIME_WAIT"}, "TIME_WAIT")
    <2>1. /\ p.from = {"I_FIN_WAIT_1"} /\ p.to = "I_FIN_WAIT_2"
          /\ q.from = {"O_TIME_WAIT"} /\ q.to = "TIME_WAIT"
      BY DEF Row
    <2>2. rows = {p, q}  OBVIOUS
    <2> HIDE DEF p, q, rows
    <2>3. x = "I_FIN_WAIT_1" => Move(x, rows) = p.to  BY <2>1, <2>2, MoveAlong
    <2>4. x = "O_TIME_WAIT" => Move(x, rows) = q.to  BY <2>1, <2>2, MoveAlong
    <2>5. x \notin {"I_FIN_WAIT_1", "O_TIME_WAIT"} => Move(x, rows) = x
      BY <2>1, <2>2, MoveNot
    <2> QED  BY <2>1, <2>3, <2>4, <2>5
  <1>2. \A x : Move(x, FinFrom("O_FIN_WAIT_1", "I_FIN_WAIT_2", "I_TIME_WAIT")) =
           IF x \in HalfOpen \cup {"ESTABLISHED"} THEN "O_FIN_WAIT_1"
           ELSE IF x = "I_FIN_WAIT_2" THEN "I_TIME_WAIT" ELSE x
    <2> TAKE x
    <2>1. "I_FIN_WAIT_2" \notin HalfOpen \cup {"ESTABLISHED"}  BY DEF HalfOpen
    <2> QED  BY <2>1, FinIs
  <1> HIDE DEF rows, one
  <1>3. nat_tcp_StepPubStatus(s, pkt) =
          LET syn == IF "SYN" \notin pkt THEN rst ELSE Move(rst, one)
              ack == IF "ACK" \notin pkt THEN syn ELSE Move(syn, rows)
          IN  IF "FIN" \notin pkt THEN ack
              ELSE Move(ack, FinFrom("O_FIN_WAIT_1", "I_FIN_WAIT_2", "I_TIME_WAIT"))
    BY DEF nat_tcp_StepPubStatus, rows, one
  <1> QED  BY <1>0, <1>1, <1>2, <1>3

\* Every step of the machines is legal, whatever flags come together.
LEMMA PrivateLegal ==
  ASSUME NEW s \in Statuses, NEW pkt
  PROVE  Legal(s, "private", pkt, nat_tcp_StepPrivateStatus(s, pkt))
  <1> DEFINE new == nat_tcp_StepPrivateStatus(s, pkt)
  <1>1. CASE "RST" \in pkt
    <2>1. new = "CLOSED"  BY <1>1, PrivateIs DEF HalfOpen
    <2> QED  BY <1>1, <2>1 DEF Legal, Over
  <1>2. CASE "RST" \notin pkt
    <2> DEFINE ack == IF "ACK" \notin pkt THEN s
                      ELSE IF s = "SYN_RECEIVED" THEN "ESTABLISHED"
                      ELSE IF s = "I_TIME_WAIT" THEN "TIME_WAIT"
                      ELSE IF s = "O_FIN_WAIT_1" THEN "O_FIN_WAIT_2" ELSE s
    <2>1. new = IF "FIN" \notin pkt THEN ack
                ELSE IF ack \in HalfOpen \cup {"ESTABLISHED"} THEN "I_FIN_WAIT_1"
                ELSE IF ack = "O_FIN_WAIT_2" THEN "O_TIME_WAIT" ELSE ack
      BY <1>2, PrivateIs
    <2> HIDE DEF new
    <2>2. \/ ack = s
          \/ s = "SYN_RECEIVED" /\ ack = "ESTABLISHED"
          \/ s = "I_TIME_WAIT" /\ ack = "TIME_WAIT"
          \/ s = "O_FIN_WAIT_1" /\ ack = "O_FIN_WAIT_2"
      OBVIOUS
    <2> HIDE DEF ack
    <2>3. \/ new = ack
          \/ "FIN" \in pkt /\ ack \in HalfOpen \cup {"ESTABLISHED"} /\ new = "I_FIN_WAIT_1"
          \/ "FIN" \in pkt /\ ack = "O_FIN_WAIT_2" /\ new = "O_TIME_WAIT"
      BY <2>1
    <2>4. new \in Statuses \cup Over
      BY <2>2, <2>3 DEF Statuses, Over
    <2>5. new \in Over => s \in {"I_TIME_WAIT", "O_TIME_WAIT"}
      BY <2>2, <2>3 DEF Statuses, Over
    <2>6. new \notin Over => Rank(s) <= Rank(new)
      BY <2>2, <2>3, RankIs DEF Statuses, Over, HalfOpen
    <2>7. new \notin Over => /\ s \in Inside => new \in Inside
                             /\ new \in HalfOpen => s \in HalfOpen
      BY <2>2, <2>3 DEF Statuses, Over, HalfOpen, Inside
    <2>8. ASSUME new \notin Over, NEW fins, FinsFit(s, fins)
          PROVE  FinsFit(new, fins \cup Fins("private", pkt))
      BY <2>2, <2>3, <2>8 DEF Statuses, Over, HalfOpen, Inside, Outside, FinsFit, Fins
    <2> QED  BY <2>4, <2>5, <2>6, <2>7, <2>8 DEF Legal, new
  <1> QED  BY <1>1, <1>2

LEMMA PubLegal ==
  ASSUME NEW s \in Statuses, NEW pkt
  PROVE  Legal(s, "pub", pkt, nat_tcp_StepPubStatus(s, pkt))
  <1> DEFINE new == nat_tcp_StepPubStatus(s, pkt)
  <1>1. CASE "RST" \in pkt
    <2>1. new = "CLOSED"  BY <1>1, PubIs DEF HalfOpen
    <2> QED  BY <1>1, <2>1 DEF Legal, Over
  <1>2. CASE "RST" \notin pkt
    <2> DEFINE syn == IF "SYN" \notin pkt THEN s
                      ELSE IF s = "SYN_SEND" THEN "SYN_RECEIVED" ELSE s
               ack == IF "ACK" \notin pkt THEN syn
                      ELSE IF syn = "I_FIN_WAIT_1" THEN "I_FIN_WAIT_2"
                      ELSE IF syn = "O_TIME_WAIT" THEN "TIME_WAIT" ELSE syn
    <2>1. new = IF "FIN" \notin pkt THEN ack
                ELSE IF ack \in HalfOpen \cup {"ESTABLISHED"} THEN "O_FIN_WAIT_1"
                ELSE IF ack = "I_FIN_WAIT_2" THEN "I_TIME_WAIT" ELSE ack
      BY <1>2, PubIs
    <2> HIDE DEF new
    <2>2. \/ ack = s
          \/ s = "SYN_SEND" /\ ack = "SYN_RECEIVED"
          \/ s = "I_FIN_WAIT_1" /\ ack = "I_FIN_WAIT_2"
          \/ s = "O_TIME_WAIT" /\ ack = "TIME_WAIT"
      OBVIOUS
    <2> HIDE DEF ack
    <2>3. \/ new = ack
          \/ "FIN" \in pkt /\ ack \in HalfOpen \cup {"ESTABLISHED"} /\ new = "O_FIN_WAIT_1"
          \/ "FIN" \in pkt /\ ack = "I_FIN_WAIT_2" /\ new = "I_TIME_WAIT"
      BY <2>1
    <2>4. new \in Statuses \cup Over
      BY <2>2, <2>3 DEF Statuses, Over
    <2>5. new \in Over => s \in {"I_TIME_WAIT", "O_TIME_WAIT"}
      BY <2>2, <2>3 DEF Statuses, Over
    <2>6. new \notin Over => Rank(s) <= Rank(new)
      BY <2>2, <2>3, RankIs DEF Statuses, Over, HalfOpen
    <2>7. new \notin Over => /\ s \in Inside => new \in Inside
                             /\ new \in HalfOpen => s \in HalfOpen
      BY <2>2, <2>3 DEF Statuses, Over, HalfOpen, Inside
    <2>8. ASSUME new \notin Over, NEW fins, FinsFit(s, fins)
          PROVE  FinsFit(new, fins \cup Fins("pub", pkt))
      BY <2>2, <2>3, <2>8 DEF Statuses, Over, HalfOpen, Inside, Outside, FinsFit, Fins
    <2> QED  BY <2>4, <2>5, <2>6, <2>7, <2>8 DEF Legal, new
  <1> QED  BY <1>1, <1>2

\* The machines of UDP take two of the same steps.
LEMMA UdpLegal ==
  ASSUME NEW s \in Statuses, NEW pkt
  PROVE  /\ Legal(s, "private", pkt, nat_udp_StepPrivateStatus(s))
         /\ Legal(s, "pub", pkt, nat_udp_StepPubStatus(s))
  <1>1. /\ nat_udp_StepPrivateStatus(s) = IF s = "SYN_RECEIVED" THEN "ESTABLISHED" ELSE s
        /\ nat_udp_StepPubStatus(s) = IF s = "SYN_SEND" THEN "SYN_RECEIVED" ELSE s
    BY RowIs, Zenon DEF nat_udp_StepPrivateStatus, nat_udp_StepPubStatus
  <1>2. ASSUME NEW side, NEW new,
               \/ new = s
               \/ s = "SYN_RECEIVED" /\ new = "ESTABLISHED"
               \/ s = "SYN_SEND" /\ new = "SYN_RECEIVED"
        PROVE  Legal(s, side, pkt, new)
    <2>1. new \in Statuses /\ new \notin Over
      BY <1>2 DEF Statuses, Over
    <2>2. Rank(s) <= Rank(new)
      BY <1>2, RankIs DEF Statuses
    <2>3. s \in Inside => new \in Inside
      BY <1>2 DEF Inside
    <2>4. new \in HalfOpen => s \in HalfOpen
      BY <1>2 DEF HalfOpen
    <2>5. ASSUME NEW fins, FinsFit(s, fins)
          PROVE  FinsFit(new, fins \cup Fins(side, pkt))
      BY <1>2, <2>5 DEF FinsFit, Inside, Outside
    <2> QED  BY <2>1, <2>2, <2>3, <2>4, <2>5 DEF Legal
  <1> QED  BY <1>1, <1>2

LEMMA StepsLegal ==
  ASSUME NEW s \in Statuses, NEW pkt
  PROVE  /\ Legal(s, "private", pkt, StepPrivateStatus(s, pkt))
         /\ Legal(s, "pub", pkt, StepPubStatus(s, pkt))
  BY PrivateLegal, PubLegal, UdpLegal DEF StepPrivateStatus, StepPubStatus

-----------------------------------------------------------------------------
(* The maps. *)

\* The timer of a map fits its status: what TimersFit says of one map.
TimerFits(node) ==
    /\ node.left > 0
    /\ IF node.status \in HalfOpen THEN node.left <= SynTick /\ node.tick = SynTick
       ELSE node.left \in 1..Max(TimeOutTicks) /\ node.tick = 0

\* A map that is in order.
Sound(node) ==
    /\ node \in Node
    /\ TimerFits(node)
    /\ FinsFit(node.status, node.fins)

\* The inductive invariant: every field has its type and every map is in order.
IInv == TypeOK /\ \A e \in Endpoints : Live(e) => Sound(map[e])

\* Time-outs have a largest value.
LEMMA TicksBounded ==
  ASSUME NEW k \in TimeOutTicks
  PROVE  k \in 1..Max(TimeOutTicks) /\ Max(TimeOutTicks) \in Nat
  <1>1. PICK m \in TimeOutTicks : \A j \in TimeOutTicks : j <= m  BY NatAssumption
  <1>2. \A j \in TimeOutTicks : j \in Nat /\ j > 0  BY NatAssumption
  <1>3. \A j \in TimeOutTicks : m >= j  BY <1>1, <1>2
  <1>4. Max(TimeOutTicks) \in TimeOutTicks /\ \A j \in TimeOutTicks : Max(TimeOutTicks) >= j
    BY <1>3 DEF Max
  <1> QED  BY <1>2, <1>4

\* The record operations of a packet.
LEMMA RearmedIs ==
  ASSUME NEW node \in Node, NEW status \in Statuses, NEW fins \in SUBSET Sides,
         timeOutTick \in TimeOutTicks
  PROVE  LET r == Rearmed([node EXCEPT !.status = status, !.fins = fins])
         IN  /\ r \in Node
             /\ r.status = status /\ r.fins = fins /\ r.port = node.port
             /\ status \in HalfOpen => r.tick = node.tick /\ r.left = node.tick
             /\ status \notin HalfOpen => r.tick = 0 /\ r.left = timeOutTick
  <1> DEFINE n == [node EXCEPT !.status = status, !.fins = fins]
  <1>1. /\ n \in Node /\ n.status = status /\ n.fins = fins
        /\ n.port = node.port /\ n.tick = node.tick
    BY StatusesAre DEF Node
  <1> HIDE DEF n
  <1>2. timeOutTick \in Nat /\ SynTick \in Nat  BY NatAssumption
  <1>3. CASE status \in HalfOpen
    <2>1. Rearmed(n) = [n EXCEPT !.left = n.tick]  BY <1>1, <1>3 DEF Rearmed
    <2>2. n.tick \in Nat  BY <1>1, <1>2 DEF Node
    <2>3. /\ Rearmed(n) \in Node /\ Rearmed(n).status = n.status /\ Rearmed(n).fins = n.fins
          /\ Rearmed(n).port = n.port /\ Rearmed(n).tick = n.tick /\ Rearmed(n).left = n.tick
      BY <1>1, <2>1, <2>2 DEF Node
    <2> QED  BY <1>1, <1>3, <2>3 DEF n
  <1>4. CASE status \notin HalfOpen
    <2>1. Rearmed(n) = [n EXCEPT !.left = timeOutTick, !.tick = 0]  BY <1>1, <1>4 DEF Rearmed
    <2>3. /\ Rearmed(n) \in Node /\ Rearmed(n).status = n.status /\ Rearmed(n).fins = n.fins
          /\ Rearmed(n).port = n.port /\ Rearmed(n).tick = 0 /\ Rearmed(n).left = timeOutTick
      BY <1>1, <1>2, <2>1 DEF Node
    <2> QED  BY <1>1, <1>4, <2>3 DEF n
  <1> QED  BY <1>3, <1>4

\* A packet leaves a map in order.
LEMMA RearmedSound ==
  ASSUME NEW node \in Node, NEW status \in Statuses, NEW fins \in SUBSET Sides,
         timeOutTick \in TimeOutTicks,
         status \in HalfOpen => node.tick = SynTick,
         FinsFit(status, fins)
  PROVE  Sound(Rearmed([node EXCEPT !.status = status, !.fins = fins]))
  <1> DEFINE r == Rearmed([node EXCEPT !.status = status, !.fins = fins])
  <1>1. /\ r \in Node /\ r.status = status /\ r.fins = fins
        /\ status \in HalfOpen => r.tick = node.tick /\ r.left = node.tick
        /\ status \notin HalfOpen => r.tick = 0 /\ r.left = timeOutTick
    BY RearmedIs
  <1> HIDE DEF r
  <1>2. timeOutTick \in 1..Max(TimeOutTicks)  BY TicksBounded
  <1>3. SynTick \in Nat /\ SynTick > 0 /\ timeOutTick \in Nat /\ timeOutTick > 0
    BY NatAssumption
  <1>4. TimerFits(r)
    <2>1. CASE status \in HalfOpen
      <3>1. r.left = SynTick /\ r.tick = SynTick  BY <1>1, <2>1
      <3> QED  BY <1>1, <1>3, <2>1, <3>1 DEF TimerFits
    <2>2. CASE status \notin HalfOpen
      <3>1. r.left = timeOutTick /\ r.tick = 0  BY <1>1, <2>2
      <3> QED  BY <1>1, <1>2, <1>3, <2>2, <3>1 DEF TimerFits
    <2> QED  BY <2>1, <2>2
  <1> QED  BY <1>1, <1>4 DEF Sound, r

\* A record is a map.
LEMMA NodeIsMap ==
  ASSUME NEW node \in Node
  PROVE  node # NoMap
  BY NatAssumption

\* What a packet does to the map it meets: it frees it or leaves it in order.
LEMMA PacketMeets ==
  ASSUME IInv, NEW e \in Endpoints, Live(e), NEW side \in Sides, NEW pkt, NEW status,
         Legal(map[e].status, side, pkt, status),
         Process(e, status, Fins(side, pkt))
  PROVE  /\ \/ status \in Over /\ map' = [map EXCEPT ![e] = NoMap]
            \/ /\ status \notin Over
               /\ map'[e].status = status
               /\ Sound(map'[e])
               /\ map' = [map EXCEPT ![e] = map'[e]]
         /\ status \notin Over => map'[e].port = map[e].port
         /\ uiScanIndex' = uiScanIndex
         /\ bits' \subseteq bits
  <1> DEFINE fins == map[e].fins \cup Fins(side, pkt)
             new == Rearmed([map[e] EXCEPT !.status = status, !.fins = fins])
  <1>1. /\ map \in [Endpoints -> Node \cup {NoMap}] /\ map[e] \in Node
        /\ Sound(map[e]) /\ timeOutTick \in TimeOutTicks
    BY DEF IInv, TypeOK, Sound
  <1>2. CASE status \in Over
    BY <1>2 DEF Process, FreeMapNode, FreePort
  <1>3. CASE status \notin Over
    <2>1. status \in Statuses /\ (status \in HalfOpen => map[e].status \in HalfOpen)
      BY <1>3 DEF Legal
    <2>2. FinsFit(status, fins)  BY <1>1, <1>3 DEF Legal, Sound
    <2>3. fins \in SUBSET Sides  BY <1>1 DEF Node, Fins, Sides
    <2>4. status \in HalfOpen => map[e].tick = SynTick
      BY <1>1, <2>1 DEF Sound, TimerFits
    <2>5. Sound(new) /\ new.status = status /\ new.port = map[e].port
      <3> HIDE DEF fins
      <3> QED  BY <1>1, <2>1, <2>2, <2>3, <2>4, RearmedSound, RearmedIs
    <2>6. map' = [map EXCEPT ![e] = new] /\ UNCHANGED <<pubTable, before, bits, uiScanIndex>>
      BY <1>3 DEF Process, table, ports
    <2> HIDE DEF new
    <2>7. map'[e] = new  BY <1>1, <2>6
    <2> QED  BY <1>3, <2>5, <2>6, <2>7
  <1> QED  BY <1>2, <1>3

\* The map a SYN opens.
LEMMA OpenedSound ==
  ASSUME IInv, NEW pkt, FreeIndex # 0, StepPrivateStatus("SYN_SEND", pkt) \notin Over
  PROVE  LET n == Rearmed([NewNode(FreeIndex) EXCEPT
                              !.status = StepPrivateStatus("SYN_SEND", pkt),
                              !.fins = Fins("private", pkt)])
         IN  Sound(n) /\ n.port = FreeIndex
  <1> DEFINE status == StepPrivateStatus("SYN_SEND", pkt)
             node == NewNode(FreeIndex)
             fins == Fins("private", pkt)
  <1>1. FreeIndex \in 1..PortNum /\ timeOutTick \in TimeOutTicks
    <2>1. uiScanIndex \in 0..PortNum-1 /\ timeOutTick \in TimeOutTicks  BY DEF IInv, TypeOK
    <2>2. FreeIndex \in 0..PortNum  BY <2>1, FreeIndexIsPort
    <2> QED  BY <2>1, <2>2, NatAssumption
  <1>2. node \in Node /\ node.tick = SynTick /\ node.port = FreeIndex
    BY <1>1, NatAssumption, StatusesAre DEF NewNode, Node, Statuses
  <1>3. "SYN_SEND" \in Statuses  BY DEF Statuses
  <1>4. Legal("SYN_SEND", "private", pkt, status)  BY <1>3, StepsLegal
  <1>5. status \in Statuses  BY <1>4 DEF Legal
  <1>6. FinsFit(status, {} \cup fins)
    <2>1. FinsFit("SYN_SEND", {})  BY DEF FinsFit, Inside, Outside
    <2> QED  BY <1>4, <2>1 DEF Legal
  <1>7. {} \cup fins = fins /\ fins \in SUBSET Sides  BY DEF Fins, Sides
  <1> HIDE DEF status, node, fins
  <1>8. Sound(Rearmed([node EXCEPT !.status = status, !.fins = fins]))
    BY <1>1, <1>2, <1>5, <1>6, <1>7, RearmedSound
  <1>9. Rearmed([node EXCEPT !.status = status, !.fins = fins]).port = node.port
    BY <1>1, <1>2, <1>5, <1>7, RearmedIs
  <1> QED  BY <1>2, <1>8, <1>9 DEF status, node, fins

\* A step that changes one map keeps the invariant when it leaves that one in
\* order or frees it.
LEMMA OneChanges ==
  ASSUME IInv, NEW e \in Endpoints, NEW n, n = NoMap \/ Sound(n),
         map' = [map EXCEPT ![e] = n],
         bits' \subseteq 0..PortNum, uiScanIndex' \in 0..PortNum-1,
         UNCHANGED <<config, stale, defined>>
  PROVE  IInv'
  <1>1. map \in [Endpoints -> Node \cup {NoMap}] /\ (Sound(n) => n \in Node)
    BY DEF IInv, TypeOK, Sound
  <1>2. map' \in [Endpoints -> Node \cup {NoMap}]  BY <1>1
  <1>3. TypeOK'  BY <1>2 DEF IInv, TypeOK, config
  <1>4. ASSUME NEW d \in Endpoints, map'[d] # NoMap  PROVE Sound(map'[d])
    <2>1. CASE d = e  BY <1>1, <1>4, <2>1
    <2>2. CASE d # e
      <3>1. map'[d] = map[d]  BY <1>1, <2>2
      <3> QED  BY <1>4, <3>1 DEF IInv, Live
    <2> QED  BY <2>1, <2>2
  <1> QED  BY <1>3, <1>4 DEF IInv, Live, Sound, TimerFits

\* A packet that meets a map, whichever side it comes from.
LEMMA MetKeeps ==
  ASSUME IInv, NEW e \in Endpoints, Live(e), NEW side \in Sides, NEW pkt, NEW status,
         Legal(map[e].status, side, pkt, status),
         Process(e, status, Fins(side, pkt)),
         UNCHANGED <<config, stale, defined>>
  PROVE  IInv'
  <1>1. bits' \subseteq bits /\ uiScanIndex' = uiScanIndex  BY PacketMeets
  <1>2. bits' \subseteq 0..PortNum /\ uiScanIndex' \in 0..PortNum-1
    BY <1>1 DEF IInv, TypeOK
  <1>3. CASE status \in Over
    <2>1. map' = [map EXCEPT ![e] = NoMap]  BY <1>3, PacketMeets
    <2> QED  BY <1>2, <2>1, OneChanges
  <1>4. CASE status \notin Over
    <2>1. Sound(map'[e]) /\ map' = [map EXCEPT ![e] = map'[e]]  BY <1>4, PacketMeets
    <2> QED  BY <1>2, <2>1, OneChanges
  <1> QED  BY <1>3, <1>4

\* A map is typed: the facts the steps keep needing.
LEMMA LiveIs ==
  ASSUME IInv, NEW e \in Endpoints, Live(e)
  PROVE  map[e] \in Node /\ Sound(map[e]) /\ map[e].status \in Statuses
  BY StatusesAre DEF IInv, Sound, Node

\* A packet of the private side.
LEMMA PrivateKeeps ==
  ASSUME IInv, NEW e \in Endpoints, NEW pkt, PrivatePktIn(e, pkt)
  PROVE  IInv'
  <1>0. UNCHANGED <<config, stale, defined>>  BY DEF PrivatePktIn
  <1>1. CASE Live(e)
    <2>1. Legal(map[e].status, "private", pkt, StepPrivateStatus(map[e].status, pkt))
      BY <1>1, LiveIs, StepsLegal
    <2>2. Process(e, StepPrivateStatus(map[e].status, pkt), Fins("private", pkt))
      BY <1>1 DEF PrivatePktIn
    <2>3. "private" \in Sides  BY DEF Sides
    <2> QED  BY <1>0, <1>1, <2>1, <2>2, <2>3, MetKeeps
  <1>2. CASE ~Live(e)
    <2>1. FreeIndex # 0 /\ uiScanIndex' = PortMap!NextScan(FreeIndex - 1)
      BY <1>2 DEF PrivatePktIn, PermitAdd
    <2>2. bits \subseteq 0..PortNum /\ uiScanIndex \in 0..PortNum-1  BY DEF IInv, TypeOK
    <2>3. FreeIndex \in 1..PortNum
      <3>1. FreeIndex \in 0..PortNum  BY <2>2, FreeIndexIsPort
      <3> QED  BY <2>1, <3>1, NatAssumption
    <2>4. uiScanIndex' \in 0..PortNum-1
      BY <2>1, <2>3, NatAssumption DEF PortMap!NextScan
    <2>5. GetPort(FreeIndex) \subseteq 0..PortNum
      BY <2>2, <2>3, NatAssumption DEF GetPort
    <2>6. bits' \subseteq 0..PortNum
      BY <1>2, <2>5 DEF PrivatePktIn, AddMap, AddMapFails, FreePort
    <2>7. CASE AddMap(e, pkt) /\ StepPrivateStatus("SYN_SEND", pkt) \notin Over
      <3> DEFINE n == Rearmed([NewNode(FreeIndex) EXCEPT
                                  !.status = StepPrivateStatus("SYN_SEND", pkt),
                                  !.fins = Fins("private", pkt)])
      <3>1. map' = [map EXCEPT ![e] = n]  BY <2>7 DEF AddMap
      <3>2. Sound(n)  BY <2>1, <2>7, OpenedSound
      <3> HIDE DEF n
      <3> QED  BY <1>0, <2>4, <2>6, <3>1, <3>2, OneChanges
    <2>8. CASE AddMapFails \/ (AddMap(e, pkt) /\ StepPrivateStatus("SYN_SEND", pkt) \in Over)
      <3>1. map' = map  BY <2>8 DEF AddMapFails, AddMap
      <3>2. map \in [Endpoints -> Node \cup {NoMap}] /\ map[e] = NoMap
        BY <1>2 DEF IInv, TypeOK, Live
      <3>3. map' = [map EXCEPT ![e] = NoMap]  BY <3>1, <3>2
      <3> QED  BY <1>0, <2>4, <2>6, <3>3, OneChanges
    <2> QED  BY <1>2, <2>7, <2>8 DEF PrivatePktIn
  <1> QED  BY <1>1, <1>2

\* The map of a public packet: its process is a legal step.
LEMMA PubMeets ==
  ASSUME IInv, TablesAgree, NEW port, NEW pkt, PubPktIn(port, pkt)
  PROVE  \E e \in Endpoints :
            /\ Live(e) /\ Owner(port, e)
            /\ Legal(map[e].status, "pub", pkt, StepPubStatus(map[e].status, pkt))
            /\ Process(e, StepPubStatus(map[e].status, pkt), Fins("pub", pkt))
  <1>1. PICK e \in Endpoints :
          /\ Owner(port, e)
          /\ Process(e, StepPubStatus(map[e].status, pkt), Fins("pub", pkt))
    BY DEF PubPktIn
  <1>2. Live(e)  BY <1>1 DEF Owner, TablesAgree
  <1>3. Legal(map[e].status, "pub", pkt, StepPubStatus(map[e].status, pkt))
    BY <1>2, LiveIs, StepsLegal
  <1> QED  BY <1>1, <1>2, <1>3

\* One tick: what is left of a map's time stays positive, or the map is freed.
LEMMA TimerKeeps ==
  ASSUME IInv, TimerStep
  PROVE  IInv'
  <1> DEFINE expired == {e \in Endpoints : Live(e) /\ map[e].left = 1}
  <1>1. /\ map' = [e \in Endpoints |->
                      IF ~Live(e) \/ e \in expired THEN NoMap
                      ELSE [map[e] EXCEPT !.left = map[e].left - 1]]
        /\ bits' \subseteq bits
        /\ UNCHANGED <<config, uiScanIndex, stale, defined>>
    BY DEF TimerStep
  <1>2. ASSUME NEW e \in Endpoints
        PROVE  map'[e] = NoMap \/ Sound(map'[e])
    <2>1. CASE ~Live(e) \/ e \in expired  BY <1>1, <2>1
    <2>2. CASE Live(e) /\ e \notin expired
      <3> DEFINE n == [map[e] EXCEPT !.left = map[e].left - 1]
      <3>1. map'[e] = n  BY <1>1, <2>2
      <3>2. map[e] \in Node /\ Sound(map[e])  BY <2>2, LiveIs
      <3>3. map[e].left \in Nat /\ map[e].left > 1
        BY <2>2, <3>2 DEF Node, Sound, TimerFits
      <3>4. /\ n \in Node /\ n.left = map[e].left - 1 /\ n.status = map[e].status
            /\ n.tick = map[e].tick /\ n.fins = map[e].fins
        BY <3>2, <3>3 DEF Node
      <3> HIDE DEF n
      <3>5. SynTick \in Nat /\ Max(TimeOutTicks) \in Int
        <4>1. timeOutTick \in TimeOutTicks  BY DEF IInv, TypeOK
        <4>2. Max(TimeOutTicks) \in Nat  BY <4>1, TicksBounded
        <4>3. SynTick \in Nat  BY NatAssumption
        <4> QED  BY <4>2, <4>3
      <3>6. TimerFits(n)
        <4>1. CASE map[e].status \in HalfOpen
          BY <3>2, <3>3, <3>4, <3>5, <4>1 DEF Sound, TimerFits
        <4>2. CASE map[e].status \notin HalfOpen
          BY <3>2, <3>3, <3>4, <3>5, <4>2 DEF Sound, TimerFits
        <4> QED  BY <4>1, <4>2
      <3> QED  BY <3>1, <3>2, <3>4, <3>6 DEF Sound
    <2> QED  BY <2>1, <2>2
  <1>3. map' \in [Endpoints -> Node \cup {NoMap}]
    <2>1. \A e \in Endpoints : map'[e] \in Node \cup {NoMap}  BY <1>2 DEF Sound
    <2>2. map' = [e \in Endpoints |-> map'[e]]  BY <1>1
    <2> QED  BY <2>1, <2>2
  <1>4. TypeOK'  BY <1>1, <1>3 DEF IInv, TypeOK, config
  <1> QED  BY <1>2, <1>4 DEF IInv, Live, Sound, TimerFits

\* A new public address: no maps, and more buckets that link freed nodes.
LEMMA SetPubIpKeeps ==
  ASSUME IInv, NEW ip \in PubIps, SetPubIp(ip)
  PROVE  IInv'
  <1>1. map' = [e \in Endpoints |-> NoMap]  BY DEF SetPubIp
  <1>2. ASSUME NEW e \in Endpoints, Live(e)
        PROVE  Bucket(map[e].port) \in 0..Buckets-1
    <2>1. map[e].port \in Nat /\ pubIp \in Nat
      BY <1>2, LiveIs, NatAssumption DEF IInv, TypeOK, Node
    <2> QED  BY <2>1, NatAssumption DEF Bucket
  <1>3. stale' \subseteq 0..Buckets-1  BY <1>2 DEF SetPubIp, IInv, TypeOK
  <1>4. TypeOK'  BY <1>1, <1>3 DEF SetPubIp, ports, IInv, TypeOK
  <1> QED  BY <1>1, <1>4 DEF IInv, Live

LEMMA IInvKept == IInv /\ TablesAgree /\ [Next]_vars => IInv'
  <1> SUFFICES ASSUME IInv, TablesAgree, [Next]_vars  PROVE IInv'
    OBVIOUS
  <1>1. ASSUME NEW e \in Endpoints, NEW pkt \in Packets, PrivatePktIn(e, pkt)
        PROVE  IInv'
    BY <1>1, PrivateKeeps
  <1>2. ASSUME NEW port \in 1..PortNum, NEW pkt \in Packets, PubPktIn(port, pkt)
        PROVE  IInv'
    <2>1. PICK e \in Endpoints :
            /\ Live(e)
            /\ Legal(map[e].status, "pub", pkt, StepPubStatus(map[e].status, pkt))
            /\ Process(e, StepPubStatus(map[e].status, pkt), Fins("pub", pkt))
      BY <1>2, PubMeets
    <2>2. UNCHANGED <<config, stale, defined>>  BY <1>2 DEF PubPktIn
    <2>3. "pub" \in Sides  BY DEF Sides
    <2> QED  BY <2>1, <2>2, <2>3, MetKeeps
  <1>3. ASSUME NEW k \in TimeOutTicks, SetTimeOutTick(k)
        PROVE  IInv'
    BY <1>3 DEF SetTimeOutTick, table, ports, IInv, TypeOK, Live, Sound, TimerFits
  <1>4. CASE TimerStep  BY <1>4, TimerKeeps
  <1>5. ASSUME NEW ip \in PubIps, SetPubIp(ip)  PROVE IInv'
    BY <1>5, SetPubIpKeeps
  <1>6. CASE FollowStale
    BY <1>6 DEF FollowStale, config, table, ports, IInv, TypeOK, Live, Sound, TimerFits
  <1>7. CASE UNCHANGED vars
    BY <1>7 DEF vars, config, ports, table, IInv, TypeOK, Live, Sound, TimerFits
  <1> QED  BY <1>1, <1>2, <1>3, <1>4, <1>5, <1>6, <1>7 DEF Next, Work

-----------------------------------------------------------------------------
(* The two tables. *)

\* The order of the public table stays total when maps are taken out of it, ...
LEMMA UnlinkAgrees ==
  ASSUME TablesAgree, NEW gone, Unlink(gone),
         UNCHANGED <<pubIp, stale>>,
         \A e \in Endpoints : map'[e] # NoMap <=> map[e] # NoMap /\ e \notin gone,
         \A e \in Endpoints : map'[e] # NoMap => map'[e].port = map[e].port
  PROVE  TablesAgree'
  <1>1. /\ pubTable = {e \in Endpoints : map[e] # NoMap}
        /\ before \subseteq pubTable \X pubTable
        /\ \A d, e \in pubTable : d # e <=> (<<d, e>> \in before) # (<<e, d>> \in before)
    BY DEF TablesAgree, Live
  <1>2. /\ pubTable' = pubTable \ gone
        /\ before' = {p \in before : p[1] \notin gone /\ p[2] \notin gone}
    BY DEF Unlink
  <1>3. pubTable' = {e \in Endpoints : map'[e] # NoMap}  BY <1>1, <1>2
  <1>4. before' \subseteq pubTable' \X pubTable'  BY <1>1, <1>2
  <1>5. ASSUME NEW d \in pubTable', NEW e \in pubTable'
        PROVE  d # e <=> (<<d, e>> \in before') # (<<e, d>> \in before')
    <2>1. d \in pubTable /\ e \in pubTable /\ d \notin gone /\ e \notin gone  BY <1>2
    <2>2. /\ <<d, e>> \in before' <=> <<d, e>> \in before
          /\ <<e, d>> \in before' <=> <<e, d>> \in before
      BY <1>2, <2>1
    <2>3. d # e <=> (<<d, e>> \in before) # (<<e, d>> \in before)  BY <1>1, <2>1
    <2> QED  BY <2>2, <2>3
  <1>6. \A e \in Endpoints : map'[e] # NoMap => Bucket(map[e].port)' \notin stale'
    BY DEF TablesAgree, Live, Bucket
  <1> QED  BY <1>3, <1>4, <1>5, <1>6 DEF TablesAgree, Live, Bucket

\* ... and when one is put at its end.
LEMMA LinkAgrees ==
  ASSUME TablesAgree, NEW n \in Endpoints, map[n] = NoMap, Link(n),
         UNCHANGED <<pubIp, stale>>, Bucket(map'[n].port) \notin stale,
         \A e \in Endpoints : map'[e] # NoMap <=> map[e] # NoMap \/ e = n,
         \A e \in Endpoints : e # n => map'[e] = map[e]
  PROVE  TablesAgree'
  <1>1. /\ pubTable = {e \in Endpoints : map[e] # NoMap}
        /\ before \subseteq pubTable \X pubTable
        /\ \A d, e \in pubTable : d # e <=> (<<d, e>> \in before) # (<<e, d>> \in before)
    BY DEF TablesAgree, Live
  <1>2. /\ pubTable' = pubTable \cup {n}
        /\ before' = before \cup (pubTable \X {n})
    BY DEF Link
  <1>3. pubTable' = {e \in Endpoints : map'[e] # NoMap}  BY <1>1, <1>2
  <1>4. before' \subseteq pubTable' \X pubTable'  BY <1>1, <1>2
  <1>5. n \notin pubTable  BY <1>1
  <1>6. \A d : <<n, d>> \notin before /\ <<d, n>> \notin before  BY <1>1, <1>5
  <1>7. ASSUME NEW d \in pubTable', NEW e \in pubTable'
        PROVE  d # e <=> (<<d, e>> \in before') # (<<e, d>> \in before')
    <2>1. CASE d \in pubTable /\ e \in pubTable
      <3>1. /\ <<d, e>> \in before' <=> <<d, e>> \in before
            /\ <<e, d>> \in before' <=> <<e, d>> \in before
        BY <1>2, <1>5, <2>1
      <3>2. d # e <=> (<<d, e>> \in before) # (<<e, d>> \in before)  BY <1>1, <2>1
      <3> QED  BY <3>1, <3>2
    <2>2. CASE d = n /\ e \in pubTable
      <3>1. <<e, d>> \in before' /\ <<d, e>> \notin before' /\ d # e
        BY <1>2, <1>5, <1>6, <2>2
      <3> QED  BY <3>1
    <2>3. CASE d \in pubTable /\ e = n
      <3>1. <<d, e>> \in before' /\ <<e, d>> \notin before' /\ d # e
        BY <1>2, <1>5, <1>6, <2>3
      <3> QED  BY <3>1
    <2>4. CASE d = n /\ e = n  BY <2>4
    <2> QED  BY <1>2, <2>1, <2>2, <2>3, <2>4
  <1>8. \A e \in Endpoints : map'[e] # NoMap => Bucket(map[e].port)' \notin stale'
    BY DEF TablesAgree, Live, Bucket
  <1> QED  BY <1>3, <1>4, <1>7, <1>8 DEF TablesAgree, Live, Bucket

\* A step that leaves the tables alone frees no map and opens none.
LEMMA SameAgrees ==
  ASSUME TablesAgree, UNCHANGED <<pubTable, before, pubIp, stale>>,
         \A e \in Endpoints : map'[e] # NoMap <=> map[e] # NoMap,
         \A e \in Endpoints : map'[e] # NoMap => map'[e].port = map[e].port
  PROVE  TablesAgree'
  BY DEF TablesAgree, Live, Bucket

\* A packet that meets a map.
LEMMA ProcessAgrees ==
  ASSUME IInv, TablesAgree, NEW e \in Endpoints, Live(e), NEW side \in Sides, NEW pkt,
         NEW status, Legal(map[e].status, side, pkt, status),
         Process(e, status, Fins(side, pkt)), UNCHANGED <<pubIp, stale>>
  PROVE  TablesAgree'
  <1>1. map \in [Endpoints -> Node \cup {NoMap}]  BY DEF IInv, TypeOK
  <1>2. CASE status \in Over
    <2>1. map' = [map EXCEPT ![e] = NoMap] /\ Unlink({e})
      BY <1>2 DEF Process, FreeMapNode
    <2>2. \A d \in Endpoints : map'[d] # NoMap <=> map[d] # NoMap /\ d \notin {e}
      BY <1>1, <2>1
    <2>3. \A d \in Endpoints : map'[d] # NoMap => map'[d].port = map[d].port
      BY <1>1, <2>1
    <2> QED  BY <2>1, <2>2, <2>3, UnlinkAgrees
  <1>3. CASE status \notin Over
    <2>1. Sound(map'[e]) /\ map' = [map EXCEPT ![e] = map'[e]]  BY <1>3, PacketMeets
    <2>2. map'[e] # NoMap  BY <2>1, NodeIsMap DEF Sound
    <2>3. \A d \in Endpoints : map'[d] # NoMap <=> map[d] # NoMap
      BY <1>1, <2>1, <2>2 DEF Live
    <2>4. UNCHANGED <<pubTable, before>>  BY <1>3 DEF Process, table
    <2>5. \A d \in Endpoints : map'[d] # NoMap => map'[d].port = map[d].port
      BY <1>1, <1>3, <2>1, PacketMeets DEF Live
    <2> QED  BY <2>3, <2>4, <2>5, SameAgrees
  <1> QED  BY <1>2, <1>3

\* A packet of the private side.
LEMMA PrivateAgrees ==
  ASSUME IInv, TablesAgree, NEW e \in Endpoints, NEW pkt, PrivatePktIn(e, pkt)
  PROVE  TablesAgree'
  <1>0. UNCHANGED <<pubIp, stale>>  BY DEF PrivatePktIn, config
  <1>1. CASE Live(e)
    <2>1. Legal(map[e].status, "private", pkt, StepPrivateStatus(map[e].status, pkt))
      BY <1>1, LiveIs, StepsLegal
    <2>2. Process(e, StepPrivateStatus(map[e].status, pkt), Fins("private", pkt))
      BY <1>1 DEF PrivatePktIn
    <2>3. "private" \in Sides  BY DEF Sides
    <2> QED  BY <1>0, <1>1, <2>1, <2>2, <2>3, ProcessAgrees
  <1>2. CASE ~Live(e)
    <2>1. FreeIndex # 0  BY <1>2 DEF PrivatePktIn, PermitAdd
    <2>2. map \in [Endpoints -> Node \cup {NoMap}] /\ map[e] = NoMap
      BY <1>2 DEF IInv, TypeOK, Live
    <2>3. CASE /\ Bucket(FreeIndex) \notin stale /\ AddMap(e, pkt)
               /\ StepPrivateStatus("SYN_SEND", pkt) \notin Over
      <3> DEFINE n == Rearmed([NewNode(FreeIndex) EXCEPT
                                  !.status = StepPrivateStatus("SYN_SEND", pkt),
                                  !.fins = Fins("private", pkt)])
      <3>1. map' = [map EXCEPT ![e] = n] /\ Link(e)  BY <2>3 DEF AddMap
      <3>2. Sound(n) /\ n.port = FreeIndex  BY <2>1, <2>3, OpenedSound
      <3> HIDE DEF n
      <3>3. n # NoMap  BY <3>2, NodeIsMap DEF Sound
      <3>4. \A d \in Endpoints : map'[d] # NoMap <=> map[d] # NoMap \/ d = e
        BY <2>2, <3>1, <3>3
      <3>5. map'[e] = n /\ \A d \in Endpoints : d # e => map'[d] = map[d]
        BY <2>2, <3>1
      <3> QED  BY <1>0, <2>2, <2>3, <3>1, <3>2, <3>4, <3>5, LinkAgrees
    <2>4. CASE AddMapFails \/ (AddMap(e, pkt) /\ StepPrivateStatus("SYN_SEND", pkt) \in Over)
      <3>1. UNCHANGED <<map, pubTable, before>>  BY <2>4 DEF AddMapFails, AddMap, table
      <3> QED  BY <1>0, <3>1, SameAgrees
    <2> QED  BY <1>2, <2>3, <2>4 DEF PrivatePktIn
  <1> QED  BY <1>1, <1>2

\* Expired timers.
LEMMA TimerAgrees ==
  ASSUME IInv, TablesAgree, TimerStep
  PROVE  TablesAgree'
  <1> DEFINE gone == {e \in Endpoints : Live(e) /\ map[e].left = 1}
  <1>1. /\ map' = [e \in Endpoints |->
                      IF ~Live(e) \/ e \in gone THEN NoMap
                      ELSE [map[e] EXCEPT !.left = map[e].left - 1]]
        /\ Unlink(gone)
        /\ UNCHANGED <<pubIp, stale>>
    BY DEF TimerStep, config
  <1>2. ASSUME NEW e \in Endpoints
        PROVE  /\ map'[e] # NoMap <=> map[e] # NoMap /\ e \notin gone
               /\ map'[e] # NoMap => map'[e].port = map[e].port
    <2>1. CASE ~Live(e) \/ e \in gone  BY <1>1, <2>1 DEF Live
    <2>2. CASE Live(e) /\ e \notin gone
      <3>1. map'[e] = [map[e] EXCEPT !.left = map[e].left - 1]  BY <1>1, <2>2
      <3>2. map[e] \in Node /\ Sound(map[e])  BY <2>2, LiveIs
      <3>3. map[e].left \in Nat /\ map[e].left > 0
        BY <3>2 DEF Node, Sound, TimerFits
      <3>4. map'[e] \in Node /\ map'[e].port = map[e].port  BY <3>1, <3>2, <3>3 DEF Node
      <3> QED  BY <2>2, <3>4, NodeIsMap DEF Live
    <2> QED  BY <2>1, <2>2
  <1> HIDE DEF gone
  <1> QED  BY <1>1, <1>2, UnlinkAgrees

\* A new public address: the tables are empty.
LEMMA SetPubIpAgrees ==
  ASSUME NEW ip, SetPubIp(ip)
  PROVE  TablesAgree'
  <1>1. \A e \in Endpoints : map'[e] = NoMap  BY DEF SetPubIp
  <1> QED  BY <1>1 DEF SetPubIp, TablesAgree, Live

LEMMA AgreesKept == IInv /\ TablesAgree /\ [Next]_vars => TablesAgree'
  <1> SUFFICES ASSUME IInv, TablesAgree, [Next]_vars  PROVE TablesAgree'
    OBVIOUS
  <1>1. ASSUME NEW e \in Endpoints, NEW pkt \in Packets, PrivatePktIn(e, pkt)
        PROVE  TablesAgree'
    BY <1>1, PrivateAgrees
  <1>2. ASSUME NEW port \in 1..PortNum, NEW pkt \in Packets, PubPktIn(port, pkt)
        PROVE  TablesAgree'
    <2>1. PICK e \in Endpoints :
            /\ Live(e)
            /\ Legal(map[e].status, "pub", pkt, StepPubStatus(map[e].status, pkt))
            /\ Process(e, StepPubStatus(map[e].status, pkt), Fins("pub", pkt))
      BY <1>2, PubMeets
    <2>2. UNCHANGED <<pubIp, stale>>  BY <1>2 DEF PubPktIn, config
    <2>3. "pub" \in Sides  BY DEF Sides
    <2> QED  BY <2>1, <2>2, <2>3, ProcessAgrees
  <1>3. ASSUME NEW k \in TimeOutTicks, SetTimeOutTick(k)
        PROVE  TablesAgree'
    BY <1>3, SameAgrees DEF SetTimeOutTick, table
  <1>4. CASE TimerStep  BY <1>4, TimerAgrees
  <1>5. ASSUME NEW ip \in PubIps, SetPubIp(ip)  PROVE TablesAgree'
    BY <1>5, SetPubIpAgrees
  <1>6. CASE FollowStale
    BY <1>6, SameAgrees DEF FollowStale, config, table
  <1>7. CASE UNCHANGED vars  BY <1>7, SameAgrees DEF vars, config, table
  <1> QED  BY <1>1, <1>2, <1>3, <1>4, <1>5, <1>6, <1>7 DEF Next, Work

\* The two are an invariant together.
LEMMA Inductive == Spec => [](IInv /\ TablesAgree)
  <1>1. Init => IInv
    <2> SUFFICES ASSUME Init  PROVE IInv
      OBVIOUS
    <2>1. map = [e \in Endpoints |-> NoMap]  BY DEF Init
    <2>2. bits \subseteq 0..PortNum /\ uiScanIndex \in 0..PortNum-1
      BY NatAssumption DEF Init, PortMap!Init
    <2>3. map \in [Endpoints -> Node \cup {NoMap}]  BY <2>1
    <2>4. TypeOK  BY <2>2, <2>3, NatAssumption DEF Init, TypeOK
    <2> QED  BY <2>1, <2>4 DEF IInv, Live
  <1>2. Init => TablesAgree  BY DEF Init, TablesAgree, Live
  <1> QED  BY <1>1, <1>2, IInvKept, AgreesKept, PTL DEF Spec

-----------------------------------------------------------------------------
(* The theorems. *)

\* Every field of the NAT keeps its type: no packet leaves a map in a status
\* outside the machine's, and no port outside the range is handed out.
THEOREM NatTypeCorrect == Spec => []TypeOK
  <1>1. IInv => TypeOK  BY DEF IInv
  <1> QED  BY <1>1, Inductive, PTL

\* Every map has a running timer that fits its status, so none is kept for
\* ever and a half-open one is never kept longer than the SYN time-out.
THEOREM NatTimersFit == Spec => []TimersFit
  <1>1. IInv => TimersFit  BY DEF IInv, Sound, TimerFits, TimersFit
  <1> QED  BY <1>1, Inductive, PTL

\* No packet takes a connection back, whatever flags its segments combine.
THEOREM NatOnlyForward == Spec => OnlyForward
  <1> DEFINE Forward(e) ==
        Live(e) /\ map'[e] # NoMap =>
          /\ Rank(map[e].status) <= Rank(map'[e].status)
          /\ map[e].status \in Inside => map'[e].status \in Inside
  <1>1. ASSUME IInv, TablesAgree, [Next]_vars, NEW e \in Endpoints  PROVE Forward(e)
    <2> SUFFICES ASSUME Live(e), map'[e] # NoMap
                 PROVE  /\ Rank(map[e].status) <= Rank(map'[e].status)
                        /\ map[e].status \in Inside => map'[e].status \in Inside
      OBVIOUS
    <2>1. map \in [Endpoints -> Node \cup {NoMap}]  BY <1>1 DEF IInv, TypeOK
    <2>2. map[e] \in Node /\ map[e].status \in Statuses  BY <1>1, LiveIs
    <2>3. Rank(map[e].status) <= Rank(map[e].status)  BY <2>2, RankIs DEF Statuses
    <2>4. ASSUME NEW d \in Endpoints, Live(d), NEW side \in Sides, NEW pkt, NEW status,
                 Legal(map[d].status, side, pkt, status),
                 Process(d, status, Fins(side, pkt))
          PROVE  Forward(e)
      <3>1. CASE d = e
        <4>1. status \notin Over /\ map'[e].status = status
          BY <1>1, <2>1, <2>4, <3>1, PacketMeets
        <4> QED  BY <2>4, <3>1, <4>1 DEF Legal
      <3>2. CASE d # e
        <4>1. map'[e] = map[e]  BY <1>1, <2>1, <2>4, <3>2, PacketMeets
        <4> QED  BY <2>3, <4>1
      <3> QED  BY <3>1, <3>2
    <2>5. ASSUME NEW d \in Endpoints, NEW pkt, PrivatePktIn(d, pkt)  PROVE Forward(e)
      <3>1. CASE Live(d)
        <4>1. Legal(map[d].status, "private", pkt, StepPrivateStatus(map[d].status, pkt))
          BY <1>1, <3>1, LiveIs, StepsLegal
        <4>2. Process(d, StepPrivateStatus(map[d].status, pkt), Fins("private", pkt))
          BY <2>5, <3>1 DEF PrivatePktIn
        <4>3. "private" \in Sides  BY DEF Sides
        <4> QED  BY <2>4, <3>1, <4>1, <4>2, <4>3
      <3>2. CASE ~Live(d)
        <4>1. d # e /\ (map' = map \/ \E n : map' = [map EXCEPT ![d] = n])
          BY <2>5, <3>2 DEF PrivatePktIn, AddMap, AddMapFails
        <4>2. map'[e] = map[e]  BY <2>1, <4>1
        <4> QED  BY <2>3, <4>2
      <3> QED  BY <3>1, <3>2
    <2>6. ASSUME NEW port, NEW pkt, PubPktIn(port, pkt)
          PROVE  Forward(e)
      <3>1. PICK d \in Endpoints :
              /\ Live(d)
              /\ Legal(map[d].status, "pub", pkt, StepPubStatus(map[d].status, pkt))
              /\ Process(d, StepPubStatus(map[d].status, pkt), Fins("pub", pkt))
        BY <1>1, <2>6, PubMeets
      <3>2. "pub" \in Sides  BY DEF Sides
      <3> QED  BY <2>4, <3>1, <3>2
    <2>7. CASE TimerStep
      <3>1. map'[e] = NoMap \/ map'[e] = [map[e] EXCEPT !.left = map[e].left - 1]
        BY <2>7 DEF TimerStep
      <3>2. map'[e].status = map[e].status  BY <2>2, <3>1 DEF Node
      <3> QED  BY <2>3, <3>2
    <2>8. ASSUME NEW ip, SetPubIp(ip)  PROVE Forward(e)
      <3>1. map'[e] = NoMap  BY <2>8 DEF SetPubIp
      <3> QED  BY <3>1
    <2>9. CASE UNCHANGED map
      BY <2>3, <2>9
    <2>10. \/ UNCHANGED map \/ TimerStep
           \/ \E ip \in PubIps : SetPubIp(ip)
           \/ \E d \in Endpoints, pkt \in Packets : PrivatePktIn(d, pkt)
           \/ \E port \in 1..PortNum, pkt \in Packets : PubPktIn(port, pkt)
      BY <1>1 DEF Next, Work, vars, SetTimeOutTick, FollowStale
    <2> QED  BY <2>5, <2>6, <2>7, <2>8, <2>9, <2>10
  <1>2. IInv /\ TablesAgree /\ [Next]_vars => [\A e \in Endpoints : Forward(e)]_vars  BY <1>1
  <1> QED  BY <1>2, Inductive, PTL DEF Spec, OnlyForward

\* A packet that ends a map resets the connection, or both sides have closed.
THEOREM NatClosedByBoth == Spec => ClosedByBoth
  <1> DEFINE Closed(e) ==
        Live(e) /\ map'[e] = NoMap /\ map[e].fins # {"private", "pub"} =>
          \A pkt \in Packets : Meets(e, pkt) => "RST" \in pkt
  <1>1. ASSUME IInv, TablesAgree, [Next]_vars, NEW e \in Endpoints  PROVE Closed(e)
    <2> SUFFICES ASSUME Live(e), map'[e] = NoMap, map[e].fins # {"private", "pub"},
                        NEW pkt \in Packets, Meets(e, pkt)
                 PROVE  "RST" \in pkt
      OBVIOUS
    <2>1. map \in [Endpoints -> Node \cup {NoMap}]  BY <1>1 DEF IInv, TypeOK
    <2>2. map[e] \in Node /\ Sound(map[e])  BY <1>1, LiveIs
    <2>3. ASSUME NEW side \in Sides, NEW status, Legal(map[e].status, side, pkt, status),
                 Process(e, status, Fins(side, pkt))
          PROVE  "RST" \in pkt
      <3>1. status \in Over
        <4>1. status \notin Over => map'[e] \in Node
          BY <1>1, <2>3, PacketMeets DEF Sound
        <4> QED  BY <4>1, NodeIsMap
      <3>2. map[e].status \in {"I_TIME_WAIT", "O_TIME_WAIT"} => {"private", "pub"} \subseteq map[e].fins
        BY <2>2 DEF Sound, FinsFit
      <3>3. map[e].fins \subseteq {"private", "pub"}  BY <2>2 DEF Node, Sides
      <3>4. map[e].status \notin {"I_TIME_WAIT", "O_TIME_WAIT"}  BY <3>2, <3>3
      <3> QED  BY <2>3, <3>1, <3>4 DEF Legal
    <2>4. CASE PrivatePktIn(e, pkt)
      <3>1. Legal(map[e].status, "private", pkt, StepPrivateStatus(map[e].status, pkt))
        BY <1>1, LiveIs, StepsLegal
      <3>2. Process(e, StepPrivateStatus(map[e].status, pkt), Fins("private", pkt))
        BY <2>4 DEF PrivatePktIn
      <3>3. "private" \in Sides  BY DEF Sides
      <3> QED  BY <2>3, <3>1, <3>2, <3>3
    <2>5. ASSUME NEW port \in 1..PortNum, PubPktIn(port, pkt)  PROVE "RST" \in pkt
      <3>2. PICK d \in Endpoints :
              /\ Live(d)
              /\ Legal(map[d].status, "pub", pkt, StepPubStatus(map[d].status, pkt))
              /\ Process(d, StepPubStatus(map[d].status, pkt), Fins("pub", pkt))
        BY <1>1, <2>5, PubMeets
      <3>3. "pub" \in Sides  BY DEF Sides
      <3>4. d = e
        <4>1. d # e => map'[e] = map[e]  BY <1>1, <2>1, <3>2, <3>3, PacketMeets
        <4> QED  BY <4>1 DEF Live
      <3> QED  BY <2>3, <3>2, <3>3, <3>4
    <2> QED  BY <2>4, <2>5 DEF Meets
  <1>2. IInv /\ TablesAgree /\ [Next]_vars => [\A e \in Endpoints : Closed(e)]_vars  BY <1>1
  <1> QED  BY <1>2, Inductive, PTL DEF Spec, ClosedByBoth

\* No packet, time-out, failed allocation or new public address leaves a freed
\* map in the public table, but for the links that a new address leaves; and
\* those are never in a bucket where a map is.
THEOREM NatTablesAgree == Spec => []TablesAgree
  BY Inductive, PTL

=============================================================================
