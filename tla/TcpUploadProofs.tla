-------------------------- MODULE TcpUploadProofs --------------------------
(***************************************************************************)
(* Proofs about the upload path, for every sequence space, initial         *)
(* sequence number, packet size and queue: as long as every write is taken *)
(* whole and no probe is taken for an acknowledgement, the upstream host   *)
(* receives a prefix of what the app sent, and where there are no such     *)
(* writes and probes it always does.  All of this holds for connections    *)
(* whose numbers stay below 2^31, where the code's comparison of signed    *)
(* and unwrapped numbers breaks, and do not pass 0, where the code takes   *)
(* recSequence for unset.                                                  *)
(***************************************************************************)
EXTENDS TcpUpload, SequenceTheorems, TLAPS

-----------------------------------------------------------------------------
(* Arithmetic modulo the size of the sequence space. *)

\* The remainder and the quotient of a division by a positive number.
LEMMA ModDef ==
    ASSUME NEW m \in Nat \ {0}, NEW x \in Int
    PROVE  /\ x % m \in 0 .. m - 1
           /\ x = (x \div m) * m + (x % m)
           /\ x \div m \in Int
  BY SMT

\* Zero is the only multiple of m strictly between -m and m.
LEMMA SmallMultiple ==
    ASSUME NEW m \in Nat \ {0}, NEW k \in Int, k * m < m, -m < k * m
    PROVE  k = 0
  <1>1. CASE k >= 1
    <2>1. k * m >= 1 * m
      BY <1>1, SMT
    <2>2. QED
      BY <2>1, SMT
  <1>2. CASE k <= -1
    <2>1. k * m <= (-1) * m
      BY <1>2, SMT
    <2>2. QED
      BY <2>1, SMT
  <1>3. QED
    BY <1>1, <1>2

\* The remainder is the only number in 0 .. m - 1 that differs from x by a
\* multiple of m.
LEMMA ModUnique ==
    ASSUME NEW m \in Nat \ {0}, NEW x \in Int, NEW q \in Int, NEW r \in 0 .. m - 1,
           x = q * m + r
    PROVE  x % m = r
  <1> DEFINE d == x \div m
             s == x % m
  <1>1. s \in 0 .. m - 1 /\ x = d * m + s /\ d \in Int
    BY ModDef
  <1> HIDE DEF d, s
  <1>2. (q - d) * m = s - r
    BY <1>1, SMT
  <1>3. q - d = 0
    BY <1>1, <1>2, SmallMultiple, SMT
  <1>4. s = r
    BY <1>1, <1>2, <1>3, SMT
  <1>5. QED
    BY <1>4 DEF s

\* Numbers that differ by a multiple of m have the same remainder.
LEMMA ModSame ==
    ASSUME NEW m \in Nat \ {0}, NEW x \in Int, NEW y \in Int, NEW q \in Int, x = q * m + y
    PROVE  x % m = y % m
  <1>1. y % m \in 0 .. m - 1 /\ y = (y \div m) * m + (y % m) /\ y \div m \in Int
    BY ModDef
  <1>2. PICK d \in Int, r \in 0 .. m - 1 : d = y \div m /\ r = y % m
    BY <1>1
  <1>3. x = (q + d) * m + r
    BY <1>1, <1>2, SMT
  <1>4. q + d \in Int
    BY <1>2, SMT
  <1>5. QED
    BY <1>2, <1>3, <1>4, ModUnique

-----------------------------------------------------------------------------
(* The inductive invariant. *)

\* The number byte i has for recSequence, which counts on past 2^31.
Unwrapped(i) == Signed(ClientIsn) + i

\* recSequence # 0 once a byte is held: `recSequence == 0' in handleTCPPacket
\* does not mistake a number of the stream for an unset one.
NeverZero == \A i \in 2 .. TotalBytes + 2 : Unwrapped(i) # 0

\* No number of the stream, the FIN's included, passes 2^31.
StaysBelow == Unwrapped(TotalBytes + 2) < Half

\* The bytes of q are those that follow byte n.
Runs(q, n) == \A i \in 1 .. Len(q) : q[i] = n + i

\* The session is in the table and not yet told to end, and neither a part
\* write nor a probe has disturbed it.
Sound == intact /\ open /\ ~aborting

\* Of the first k bytes of the stream, h were sent before packet p: p brings
\* the others, or repeats, or has no data.
Follows(h, k, p) ==
    \/ p.len > 0 /\ p.pos = h + 1 /\ k = h + p.len
    \/ k = h /\ p.pos <= h /\ p.pos + p.len <= h + 1 /\ (p.len > 0 \/ KeepAlives)
    \/ k = h /\ p.len = 0 /\ p.pos = h + 1
    \/ k = h /\ p.len = 0 /\ p.pos = h + 2 /\ h = sent /\ fin # "none"

\* The app's packets under way lead from what the engine holds to what was
\* sent: f[i] bytes were sent when packet i was.
Leads(f) ==
    /\ f \in [0 .. Len(fromClient) -> 0 .. sent]
    /\ f[0] = Held /\ f[Len(fromClient)] = sent
    /\ \A i \in 1 .. Len(fromClient) : Follows(f[i - 1], f[i], fromClient[i])

\* What packets say of themselves; a RST is the last of them.
PacketInv ==
    \A i \in 1 .. Len(fromClient) :
       LET p == fromClient[i]
       IN  /\ p.pos \in Nat /\ p.seq = Signed(SeqOf(p.pos))
           /\ p.len > 0 => p.pos >= 1 /\ p.pos + p.len <= TotalBytes + 1
           /\ p.flag = "rst" => dead /\ i = Len(fromClient)

\* After a RST nothing comes any more, though the session is still open.
ResetInv == open /\ aborting => dead /\ fromClient = <<>>

\* What is written is a prefix; what waits to be written continues it.
StreamInv ==
    /\ intact => Runs(written, 0)
    /\ intact /\ open => Runs(sendingStream, Len(written))

\* recSequence is the number of the next byte, or of the one behind the FIN.
PlaceInv ==
    Sound => /\ Held <= sent
             /\ \/ recSequence = Unwrapped(Held + 1)
                \/ recSequence = Unwrapped(Held + 2) /\ Held = sent /\ fin # "none"

\* Nothing new is dropped.
QueueInv ==
    Sound => \E f \in [0 .. Len(fromClient) -> 0 .. sent] : Leads(f)

\* Every acknowledgement, under way or received, is for bytes the engine has
\* taken.
RepliesInv ==
    intact /\ open =>
       /\ acked <= Held
       /\ \A i \in 1 .. Len(toClient) :
             \E n \in 0 .. Held : toClient[i].ack = SeqOf(n + 1) % Mod

UploadInv == TypeOK /\ PacketInv /\ ResetInv /\ StreamInv /\ PlaceInv /\ QueueInv

-----------------------------------------------------------------------------
(* Sequence numbers. *)

\* The sequence space has at least two numbers.
LEMMA ModFacts == Half \in Nat \ {0} /\ Mod \in Nat \ {0} /\ Mod = Half + Half /\ ClientIsn \in Nat
  <1>1. Half \in Nat \ {0} /\ ClientIsn \in 0 .. 2 * Half - 1
    BY UploadAssumption
  <1>2. QED
    BY <1>1, SMT DEF Mod

\* getInt() yields a number of 32 bits with a sign.
LEMMA SignedRange ==
    ASSUME NEW n \in Int
    PROVE  Signed(n) \in Int /\ -Half <= Signed(n) /\ Signed(n) < Half
  <1>1. n + Half \in Int /\ Mod \in Nat \ {0}
    BY ModFacts, SMT
  <1>2. (n + Half) % Mod \in 0 .. Mod - 1
    BY <1>1, ModDef
  <1>3. QED
    BY <1>2, ModFacts, SMT DEF Signed

\* The number in a packet is the unwrapped one as long as that is below 2^31,
\* and smaller from there on.
LEMMA SignedUnwraps ==
    ASSUME NEW i \in Nat
    PROVE  /\ Unwrapped(i) \in Int /\ Signed(SeqOf(i)) \in Int
           /\ Signed(SeqOf(i)) <= Unwrapped(i) /\ Signed(SeqOf(i)) < Half
           /\ Unwrapped(i) < Half => Signed(SeqOf(i)) = Unwrapped(i)
  <1> DEFINE c == ClientIsn + Half
             q == c \div Mod
             r == c % Mod
             x == SeqOf(i) + Half
  <1>1. c \in Int /\ x \in Int /\ x = c + i /\ SeqOf(i) \in Int /\ ClientIsn \in Int
    BY ModFacts, SMT DEF SeqOf
  <1>2. r \in 0 .. Mod - 1 /\ c = q * Mod + r /\ q \in Int
    BY <1>1, ModFacts, ModDef
  <1>3. Unwrapped(i) = r - Half + i
    BY DEF Unwrapped, Signed
  <1>4. Signed(SeqOf(i)) = (x % Mod) - Half
    BY DEF Signed
  <1> HIDE DEF c, q, r, x
  <1>5. x % Mod \in 0 .. Mod - 1
    BY <1>1, ModFacts, ModDef
  <1>6. CASE r + i < Mod
    <2>1. r + i \in 0 .. Mod - 1
      BY <1>2, <1>6, ModFacts, SMT
    <2>2. x = q * Mod + (r + i)
      <3>1. q * Mod \in Int
        BY <1>2, ModFacts, SMT
      <3>2. QED
        BY <1>1, <1>2, <3>1, SMT
    <2>3. x % Mod = r + i
      <3>1. Mod \in Nat \ {0} /\ x \in Int /\ q \in Int
        BY <1>1, <1>2, ModFacts
      <3>2. QED
        BY <2>1, <2>2, <3>1, ModUnique
    <2>4. QED
      BY <1>2, <1>3, <1>4, <1>6, <2>3, ModFacts, SMT
  <1>7. CASE ~(r + i < Mod)
    BY <1>2, <1>3, <1>4, <1>5, <1>7, ModFacts, SMT
  <1>8. QED
    BY <1>6, <1>7

\* Where no number passes 2^31, a packet carries the unwrapped one.
LEMMA NumbersAgree ==
    ASSUME StaysBelow, NEW i \in Nat, i <= TotalBytes + 2
    PROVE  Signed(SeqOf(i)) = Unwrapped(i)
  <1>1. Signed(ClientIsn) \in Int /\ TotalBytes \in Nat /\ Half \in Nat
    BY UploadAssumption, ModFacts, SignedRange, SMT
  <1>2. Signed(ClientIsn) + (TotalBytes + 2) < Half
    BY DEF StaysBelow, Unwrapped
  <1>3. Signed(ClientIsn) + i < Half
    BY <1>1, <1>2, SMT
  <1>4. QED
    BY <1>3, SignedUnwraps DEF Unwrapped

\* Modulo 2^32 the unwrapped number is the packet's.
LEMMA UnwrappedMod ==
    ASSUME NEW i \in Int
    PROVE  Unwrapped(i) % Mod = SeqOf(i) % Mod
  <1> DEFINE c == ClientIsn + Half
             d == c \div Mod
  <1>1. c \in Int /\ SeqOf(i) \in Int /\ Mod \in Nat \ {0} /\ ClientIsn \in Nat /\ Half \in Nat
    BY ModFacts, SMT DEF SeqOf
  <1>2. c = d * Mod + (c % Mod) /\ d \in Int /\ c % Mod \in 0 .. Mod - 1
    BY <1>1, ModDef
  <1>3. Unwrapped(i) = ((c % Mod) - Half) + i
    BY DEF Unwrapped, Signed
  <1>4. SeqOf(i) = c - Half + i
    BY <1>1, SMT DEF SeqOf
  <1> HIDE DEF c, d
  <1>5. Unwrapped(i) \in Int /\ SeqOf(i) = d * Mod + Unwrapped(i)
    BY <1>1, <1>2, <1>3, <1>4, SMT
  <1>6. QED
    BY <1>1, <1>2, <1>5, ModSame

\* What the app's TCP makes of an acknowledgement for n bytes when it has one
\* for a already.
LEMMA AckMeans ==
    ASSUME NEW n \in Nat, NEW a \in Nat, n < Mod, a < Mod
    PROVE  ((SeqOf(n + 1) % Mod) - SeqOf(a + 1)) % Mod = IF n >= a THEN n - a ELSE Mod + n - a
  <1> DEFINE x == SeqOf(n + 1)
             q == x \div Mod
             y == x % Mod
  <1>1. Mod \in Nat \ {0} /\ x \in Int /\ SeqOf(a + 1) = x - n + a
    BY ModFacts, SMT DEF SeqOf
  <1>2. x = q * Mod + y /\ q \in Int /\ y \in 0 .. Mod - 1
    BY <1>1, ModDef
  <1> HIDE DEF x, q, y
  <1>3. /\ y - SeqOf(a + 1) \in Int
        /\ y - SeqOf(a + 1) = (-q) * Mod + (n - a)
        /\ y - SeqOf(a + 1) = (-q - 1) * Mod + (Mod + n - a)
        /\ -q \in Int /\ -q - 1 \in Int
    BY <1>1, <1>2, SMT
  <1>4. CASE n >= a
    <2>1. n - a \in 0 .. Mod - 1
      BY <1>1, <1>4, SMT
    <2>2. QED
      BY <1>1, <1>3, <1>4, <2>1, ModUnique DEF x, y
  <1>5. CASE ~(n >= a)
    <2>1. Mod + n - a \in 0 .. Mod - 1
      BY <1>1, <1>5, SMT
    <2>2. QED
      BY <1>1, <1>3, <1>5, <2>1, ModUnique DEF x, y
  <1>6. QED
    BY <1>4, <1>5

\* A connection whose numbers stay below 2^31 is shorter than the space.
LEMMA Shorter ==
    ASSUME StaysBelow
    PROVE  TotalBytes \in Nat /\ Mod \in Nat \ {0} /\ TotalBytes + 2 < Mod
  <1>1. /\ TotalBytes \in Nat /\ Half \in Nat /\ Mod = Half + Half /\ Mod \in Nat \ {0}
        /\ Signed(ClientIsn) \in Int /\ -Half <= Signed(ClientIsn)
    BY UploadAssumption, ModFacts, SignedRange, SMT
  <1>2. Signed(ClientIsn) + (TotalBytes + 2) < Half
    BY DEF StaysBelow, Unwrapped
  <1>3. QED
    BY <1>1, <1>2, SMT

\* A packet at or before the next byte h + 1 whose number s is not below
\* recSequence r starts with that byte.
LEMMA OnlyNext ==
    ASSUME NEW c \in Int, NEW h \in Nat, NEW p \in Nat, NEW s \in Int, NEW r \in Int,
           p <= h + 1, s <= c + p, s >= r, r = c + (h + 1) \/ r = c + (h + 2)
    PROVE  p = h + 1 /\ r = c + (h + 1)
  BY SMT

-----------------------------------------------------------------------------
(* Sequences of bytes and packets. *)

\* Taking a packet from a queue.
LEMMA TailFacts ==
    ASSUME NEW S, NEW q \in Seq(S), q # <<>>
    PROVE  /\ Tail(q) \in Seq(S) /\ Len(q) \in Nat /\ Len(q) >= 1
           /\ Len(Tail(q)) = Len(q) - 1
           /\ Head(q) = q[1] /\ q[1] \in S
           /\ \A i \in 1 .. Len(q) - 1 : Tail(q)[i] = q[i + 1]
  BY SMT

\* Putting a packet into a queue.
LEMMA AppendFacts ==
    ASSUME NEW S, NEW q \in Seq(S), NEW e \in S
    PROVE  /\ Append(q, e) \in Seq(S) /\ Len(q) \in Nat
           /\ Len(Append(q, e)) = Len(q) + 1
           /\ Append(q, e)[Len(q) + 1] = e
           /\ \A i \in 1 .. Len(q) : Append(q, e)[i] = q[i]
  BY SMT

\* Joining two runs of bytes that follow one another.
LEMMA ConcatRuns ==
    ASSUME NEW S, NEW p \in Seq(S), NEW q \in Seq(S), NEW n \in Nat
    PROVE  /\ p \o q \in Seq(S) /\ Len(p) \in Nat /\ Len(q) \in Nat
           /\ Len(p \o q) = Len(p) + Len(q)
           /\ Runs(p, n) /\ Runs(q, n + Len(p)) => Runs(p \o q, n)
  <1>1. /\ p \o q \in Seq(S) /\ Len(p) \in Nat /\ Len(q) \in Nat
        /\ Len(p \o q) = Len(p) + Len(q)
        /\ \A i \in 1 .. Len(p) + Len(q) : (p \o q)[i] = IF i <= Len(p) THEN p[i] ELSE q[i - Len(p)]
    BY ConcatProperties, LenProperties
  <1>2. ASSUME Runs(p, n), Runs(q, n + Len(p)), NEW i \in 1 .. Len(p) + Len(q)
        PROVE  (p \o q)[i] = n + i
    <2>1. CASE i <= Len(p)
      <3>1. i \in 1 .. Len(p)
        BY <1>1, <2>1, SMT
      <3>2. QED
        BY <1>1, <1>2, <2>1, <3>1 DEF Runs
    <2>2. CASE ~(i <= Len(p))
      <3>1. i - Len(p) \in 1 .. Len(q)
        BY <1>1, <2>2, SMT
      <3>2. q[i - Len(p)] = (n + Len(p)) + (i - Len(p))
        BY <1>2, <3>1 DEF Runs
      <3>3. (p \o q)[i] = q[i - Len(p)]
        BY <1>1, <2>2
      <3>4. QED
        BY <1>1, <3>2, <3>3, SMT
    <2>3. QED
      BY <2>1, <2>2
  <1>3. QED
    BY <1>1, <1>2 DEF Runs

\* The bytes of a packet.
LEMMA BytesFacts ==
    ASSUME NEW a \in Nat, NEW n \in Nat, a >= 1, a + n <= TotalBytes + 1
    PROVE  /\ Bytes(a, a + n - 1) \in Seq(1 .. TotalBytes)
           /\ Len(Bytes(a, a + n - 1)) = n
           /\ Runs(Bytes(a, a + n - 1), a - 1)
  <1> DEFINE q == [i \in 1 .. n |-> a + i - 1]
  <1>0. TotalBytes \in Nat
    BY UploadAssumption
  <1>1. Bytes(a, a + n - 1) = q
    <2>1. (a + n - 1) - a + 1 = n
      BY SMT
    <2>2. QED
      BY <2>1 DEF Bytes
  <1>2. \A i \in 1 .. n : a + i - 1 \in 1 .. TotalBytes
    BY <1>0, SMT
  <1>3. q \in Seq(1 .. TotalBytes) /\ Len(q) = n
    BY <1>2, SMT
  <1>4. \A i \in 1 .. n : q[i] = (a - 1) + i
    BY SMT
  <1> HIDE DEF q
  <1>5. QED
    BY <1>1, <1>3, <1>4 DEF Runs

-----------------------------------------------------------------------------
(* What single operations do in a state of the invariant. *)

\* The packet the VPN thread looks at.
LEMMA HeadPacket ==
    ASSUME TypeOK, PacketInv, fromClient # <<>>
    PROVE  /\ Packet = fromClient[1] /\ Packet \in FromClient
           /\ Tail(fromClient) \in Seq(FromClient)
           /\ Packet.pos \in Nat /\ Packet.seq = Signed(SeqOf(Packet.pos))
           /\ Packet.seq \in Int /\ Packet.seq < Half
           /\ Packet.seq <= Unwrapped(Packet.pos)
           /\ Packet.len \in Nat /\ Packet.psh \in BOOLEAN
           /\ Packet.len > 0 => Packet.pos >= 1 /\ Packet.pos + Packet.len <= TotalBytes + 1
           /\ Packet.flag = "rst" => dead /\ Len(fromClient) = 1
  <1>1. /\ Packet = fromClient[1] /\ Packet \in FromClient
        /\ Tail(fromClient) \in Seq(FromClient)
        /\ 1 \in 1 .. Len(fromClient)
    BY TailFacts, SMT DEF TypeOK, Packet
  <1>2. /\ Packet.pos \in Nat /\ Packet.seq = Signed(SeqOf(Packet.pos))
        /\ Packet.len > 0 => Packet.pos >= 1 /\ Packet.pos + Packet.len <= TotalBytes + 1
        /\ Packet.flag = "rst" => dead /\ Len(fromClient) = 1
    BY <1>1 DEF PacketInv
  <1>3. Packet.len \in 0 .. MaxLen /\ Packet.psh \in BOOLEAN
    BY <1>1 DEF FromClient
  <1>4. Packet.len \in Nat
    BY <1>3, UploadAssumption, SMT
  <1>5. QED
    BY <1>1, <1>2, <1>3, <1>4, SignedUnwraps

\* A packet of the engine is well formed.
LEMMA ReplyType ==
    ASSUME TypeOK, NEW kind \in {"ack", "finack", "fin", "rst"}, NEW n \in Int, Reply(kind, n)
    PROVE  toClient' \in Seq(ToClient)
  <1>1. n % Mod \in 0 .. Mod - 1
    BY ModFacts, ModDef
  <1>2. [kind |-> kind, ack |-> n % Mod] \in ToClient
    BY <1>1 DEF ToClient
  <1>3. toClient \in Seq(ToClient)
    BY DEF TypeOK
  <1>4. QED
    BY <1>2, <1>3, AppendFacts DEF Reply

\* A packet of the app is well formed.
LEMMA ClientPacketType ==
    ASSUME TypeOK, NEW flag \in {"none", "fin", "rst"}, NEW psh \in BOOLEAN, NEW pos \in Nat,
           NEW len \in 0 .. MaxLen, ClientPacket(flag, psh, pos, len)
    PROVE  \E p \in FromClient :
              /\ p = [flag |-> flag, psh |-> psh, seq |-> Signed(SeqOf(pos)), pos |-> pos, len |-> len]
              /\ fromClient' = Append(fromClient, p) /\ fromClient' \in Seq(FromClient)
  <1> DEFINE p == [flag |-> flag, psh |-> psh, seq |-> Signed(SeqOf(pos)), pos |-> pos, len |-> len]
  <1>1. Signed(SeqOf(pos)) \in -Half .. Half - 1
    <2>1. SeqOf(pos) \in Int
      BY ModFacts, SMT DEF SeqOf
    <2>2. QED
      BY <2>1, SignedRange, ModFacts, SMT
  <1>2. pos \in Int
    OBVIOUS
  <1>3. p \in FromClient
    BY <1>1, <1>2 DEF FromClient
  <1>4. fromClient' = Append(fromClient, p)
    BY DEF ClientPacket
  <1>5. fromClient \in Seq(FromClient)
    BY DEF TypeOK
  <1>6. fromClient' \in Seq(FromClient)
    BY <1>3, <1>4, <1>5, AppendFacts
  <1>7. QED
    BY <1>3, <1>4, <1>6

\* The steps in which the app's TCP sends a packet.
ClientSend == ClientData \/ ClientAck \/ ClientRetransmit \/ ClientKeepAlive \/ ClientFin
              \/ ClientRetransmitFin \/ ClientReset

\* Whatever the app's TCP sends continues, repeats or closes what it sent
\* before, and nothing new follows a FIN.
LEMMA ClientSends ==
    ASSUME TypeOK, ClientSend
    PROVE  /\ \E flag \in {"none", "fin", "rst"}, psh \in BOOLEAN, pos \in Nat, len \in 0 .. MaxLen :
                 /\ ClientPacket(flag, psh, pos, len)
                 /\ len > 0 => pos >= 1 /\ pos + len <= TotalBytes + 1
                 /\ flag = "rst" => dead'
                 /\ \/ len > 0 /\ pos = sent + 1 /\ sent' = sent + len
                    \/ sent' = sent /\ pos <= sent /\ pos + len <= sent + 1 /\ (len > 0 \/ KeepAlives)
                    \/ sent' = sent /\ len = 0 /\ pos = sent + 1
                    \/ sent' = sent /\ len = 0 /\ pos = sent + 2 /\ fin' # "none"
           /\ sent <= sent' /\ sent' \in 0 .. TotalBytes
           /\ fin # "none" => sent' = sent /\ fin' = fin
           /\ fin' \in {"none", "bare", "pushed"} /\ dead' \in BOOLEAN /\ extras' \in 0 .. MaxExtras
  <1>0. /\ sent \in Nat /\ sent <= TotalBytes /\ acked \in Nat /\ TotalBytes \in Nat /\ MaxLen \in Nat
        /\ extras \in Nat /\ extras <= MaxExtras /\ MaxExtras \in Nat
        /\ fin \in {"none", "bare", "pushed"} /\ dead \in BOOLEAN
    BY UploadAssumption, SMT DEF TypeOK
  <1>00. 0 \in 0 .. MaxLen /\ sent \in 0 .. TotalBytes /\ extras \in 0 .. MaxExtras
    BY <1>0, SMT
  <1>1. CASE ClientData
    <2>1. PICK len \in 1 .. MaxLen, psh \in BOOLEAN :
             /\ sent + len <= TotalBytes
             /\ ClientPacket("none", psh, sent + 1, len)
             /\ sent' = sent + len
      BY <1>1 DEF ClientData
    <2>2. fin = "none" /\ UNCHANGED <<fin, dead, extras>>
      BY <1>1 DEF ClientData
    <2>3. /\ len \in 0 .. MaxLen /\ len > 0 /\ sent + 1 \in Nat /\ sent + 1 >= 1
          /\ sent + 1 + len <= TotalBytes + 1 /\ sent <= sent' /\ sent' \in 0 .. TotalBytes
      BY <1>0, <2>1, SMT
    <2>4. QED
      BY <1>0, <1>00, <2>1, <2>2, <2>3
  <1>2. CASE ClientAck
    <2>1. /\ extras' = extras + 1 /\ extras < MaxExtras /\ UNCHANGED <<sent, fin, dead>>
          /\ ClientPacket("none", FALSE, IF fin = "none" THEN sent + 1 ELSE sent + 2, 0)
      BY <1>2 DEF ClientAck
    <2>2. sent + 1 \in Nat /\ sent + 2 \in Nat /\ extras' \in 0 .. MaxExtras /\ sent <= sent /\ ~(0 > 0)
      BY <1>0, <2>1, SMT
    <2>3. CASE fin = "none"
      BY <1>0, <1>00, <2>1, <2>2, <2>3
    <2>4. CASE fin # "none"
      BY <1>0, <1>00, <2>1, <2>2, <2>4
    <2>5. QED
      BY <2>3, <2>4
  <1>3. CASE ClientRetransmit
    <2>1. PICK len \in 1 .. MaxLen : acked + len <= sent /\ ClientPacket("none", TRUE, acked + 1, len)
      BY <1>3 DEF ClientRetransmit
    <2>2. extras' = extras + 1 /\ extras < MaxExtras /\ UNCHANGED <<sent, fin, dead>>
      BY <1>3 DEF ClientRetransmit
    <2>3. /\ len \in 0 .. MaxLen /\ acked + 1 \in Nat /\ acked + 1 >= 1 /\ acked + 1 <= sent
          /\ acked + 1 + len <= sent + 1 /\ len > 0
          /\ acked + 1 + len <= TotalBytes + 1 /\ extras' \in 0 .. MaxExtras /\ sent <= sent
      BY <1>0, <2>1, <2>2, SMT
    <2>4. QED
      BY <1>0, <1>00, <2>1, <2>2, <2>3
  <1>4. CASE ClientKeepAlive
    <2>1. /\ extras' = extras + 1 /\ extras < MaxExtras /\ UNCHANGED <<sent, fin, dead>>
          /\ ClientPacket("none", FALSE, sent, 0) /\ KeepAlives
      BY <1>4 DEF ClientKeepAlive
    <2>2. extras' \in 0 .. MaxExtras /\ sent <= sent /\ ~(0 > 0) /\ sent + 0 <= sent + 1
      BY <1>0, <2>1, SMT
    <2>3. QED
      BY <1>0, <1>00, <2>1, <2>2
  <1>5. CASE ClientFin
    <2>0. fin = "none" /\ fin' \in {"bare", "pushed"} /\ UNCHANGED <<dead, extras>>
      BY <1>5 DEF ClientFin
    <2>1. CASE ClientPacket("fin", FALSE, sent + 1, 0) /\ UNCHANGED sent
      <3>1. sent + 1 \in Nat /\ sent <= sent /\ ~(0 > 0)
        BY <1>0, SMT
      <3>2. QED
        BY <1>0, <1>00, <2>0, <2>1, <3>1
    <2>2. CASE /\ sent < TotalBytes /\ TotalBytes - sent <= MaxLen
               /\ ClientPacket("fin", TRUE, sent + 1, TotalBytes - sent)
               /\ sent' = TotalBytes
      <3>1. /\ sent + 1 \in Nat /\ sent + 1 >= 1 /\ TotalBytes - sent \in 0 .. MaxLen
            /\ TotalBytes - sent > 0 /\ sent + 1 + (TotalBytes - sent) <= TotalBytes + 1
            /\ sent' = sent + (TotalBytes - sent) /\ sent <= sent' /\ sent' \in 0 .. TotalBytes
        BY <1>0, <2>2, SMT
      <3>2. QED
        BY <1>0, <1>00, <2>0, <2>2, <3>1
    <2>3. QED
      BY <1>5, <2>1, <2>2 DEF ClientFin
  <1>6. CASE ClientRetransmitFin
    <2>1. UNCHANGED <<sent, fin, dead, extras>> /\ ClientPacket("fin", fin = "pushed", sent + 1, 0)
      BY <1>6 DEF ClientRetransmitFin
    <2>2. sent + 1 \in Nat /\ sent <= sent /\ ~(0 > 0) /\ (fin = "pushed") \in BOOLEAN
      BY <1>0, SMT
    <2>3. QED
      BY <1>0, <1>00, <2>1, <2>2
  <1>7. CASE ClientReset
    <2>1. UNCHANGED <<sent, fin, extras>> /\ dead' = TRUE /\ ClientPacket("rst", FALSE, sent + 1, 0)
      BY <1>7 DEF ClientReset
    <2>2. sent + 1 \in Nat /\ sent <= sent /\ ~(0 > 0)
      BY <1>0, SMT
    <2>3. QED
      BY <1>0, <1>00, <2>1, <2>2
  <1>8. QED
    BY <1>1, <1>2, <1>3, <1>4, <1>5, <1>6, <1>7 DEF ClientSend

-----------------------------------------------------------------------------
(* The invariant holds initially and every step keeps each part of it. *)

\* The state replySynAck leaves satisfies the invariant.
LEMMA InitUpload == Init => UploadInv
  <1> SUFFICES ASSUME Init PROVE UploadInv
    OBVIOUS
  <1> USE DEF Init
  <1>0. TotalBytes \in Nat /\ MaxExtras \in Nat /\ Signed(ClientIsn) \in Int
    BY UploadAssumption, ModFacts, SignedRange, SMT
  <1>1. TypeOK
    <2>1. 0 \in 0 .. TotalBytes /\ 0 \in 0 .. TotalBytes + 1 /\ 0 \in 0 .. MaxExtras /\ recSequence \in Int
      BY <1>0, SMT
    <2>2. /\ sendingStream \in Seq(1 .. TotalBytes) /\ written \in Seq(1 .. TotalBytes)
          /\ fromClient \in Seq(FromClient) /\ toClient \in Seq(ToClient)
      OBVIOUS
    <2>3. QED
      BY <2>1, <2>2 DEF TypeOK
  <1>2. PacketInv /\ ResetInv
    BY SMT DEF PacketInv, ResetInv
  <1>3. StreamInv
    BY SMT DEF StreamInv, Runs
  <1>4. Held = 0
    BY SMT DEF Held
  <1>5. PlaceInv
    BY <1>0, <1>4, SMT DEF PlaceInv, Unwrapped
  <1>6. QueueInv
    <2> DEFINE f == [i \in 0 .. Len(fromClient) |-> 0]
    <2>1. Len(fromClient) = 0
      BY SMT
    <2>2. f \in [0 .. Len(fromClient) -> 0 .. sent] /\ f[0] = 0 /\ f[Len(fromClient)] = 0
      BY <2>1, SMT
    <2> HIDE DEF f
    <2>3. Leads(f)
      BY <1>4, <2>1, <2>2, SMT DEF Leads
    <2>4. QED
      BY <2>2, <2>3 DEF QueueInv
  <1>7. QED
    BY <1>1, <1>2, <1>3, <1>5, <1>6 DEF UploadInv

\* Steps of the VPN thread keep the types.
LEMMA TypeHandler == TypeOK /\ PacketInv /\ Handler => TypeOK'
  <1> SUFFICES ASSUME TypeOK, PacketInv, Handler PROVE TypeOK'
    OBVIOUS
  <1> USE DEF session, socket, client
  <1>0. fromClient # <<>> /\ fromClient' = Tail(fromClient)
    BY DEF Handler, HandleData, HandleAck, HandleFin, HandleRst, HandleUnknown, KnownSession, NextPacket
  <1>1. /\ Packet.seq \in Int /\ Packet.len \in Nat /\ Packet.psh \in BOOLEAN /\ recSequence \in Int
        /\ fromClient' \in Seq(FromClient)
    BY <1>0, HeadPacket DEF TypeOK
  <1>2. /\ recSequence + Packet.len \in Int /\ Packet.seq + Packet.len \in Int /\ Packet.seq + 1 \in Int
        /\ 0 \in Int
    BY <1>1, SMT
  <1>3. CASE HandleData
    <2>1. UNCHANGED <<aborting, open, written, upstream, intact, sent, acked, fin, dead, extras>> /\ Push
      BY <1>3 DEF HandleData
    <2>2. sendingStream' \in Seq(1 .. TotalBytes) /\ recSequence' \in Int /\ toClient' \in Seq(ToClient)
      <3>1. CASE AddData
        <4>1. Packet.pos \in Nat /\ Packet.pos >= 1 /\ Packet.pos + Packet.len <= TotalBytes + 1
          BY <1>0, <1>3, HeadPacket DEF HandleData
        <4>2. Bytes(Packet.pos, Packet.pos + Packet.len - 1) \in Seq(1 .. TotalBytes)
          BY <1>1, <4>1, BytesFacts
        <4>3. sendingStream \in Seq(1 .. TotalBytes)
          BY DEF TypeOK
        <4>4. sendingStream' \in Seq(1 .. TotalBytes)
          BY <3>1, <4>2, <4>3, ConcatProperties DEF AddData
        <4>5. QED
          BY <1>2, <3>1, <4>4, ReplyType DEF AddData
      <3>2. CASE sendAckForDisorder
        BY <1>2, <3>2, ReplyType DEF sendAckForDisorder, TypeOK
      <3>3. QED
        BY <1>3, <3>1, <3>2 DEF HandleData
    <2>3. dataReady' \in BOOLEAN /\ writeOn' \in BOOLEAN
      BY <1>1, <2>1 DEF Push, TypeOK
    <2>4. pushed' \in Nat
      <3>1. Len(written) \in Nat /\ Len(sendingStream') \in Nat /\ pushed \in Nat
        BY <2>2, LenProperties DEF TypeOK
      <3>2. Len(written) + Len(sendingStream') \in Nat
        BY <3>1, SMT
      <3>3. QED
        BY <2>1, <3>1, <3>2 DEF Push
    <2>5. QED
      BY <1>1, <2>1, <2>2, <2>3, <2>4 DEF TypeOK
  <1>4. CASE HandleAck
    <2>1. /\ UNCHANGED <<sendingStream, aborting, open, written, upstream, toClient, sent, acked, fin, dead, extras>>
          /\ Push /\ recSequence' \in {recSequence, Packet.seq}
          /\ intact' \in BOOLEAN
      BY <1>4 DEF HandleAck
    <2>2. recSequence' \in Int
      BY <1>1, <2>1
    <2>3. dataReady' \in BOOLEAN /\ writeOn' \in BOOLEAN
      BY <1>1, <2>1 DEF Push, TypeOK
    <2>4. pushed' \in Nat
      <3>1. Len(written) \in Nat /\ Len(sendingStream') \in Nat /\ pushed \in Nat
        BY <2>1, LenProperties DEF TypeOK
      <3>2. Len(written) + Len(sendingStream') \in Nat
        BY <3>1, SMT
      <3>3. QED
        BY <2>1, <3>1, <3>2 DEF Push
    <2>5. QED
      BY <1>1, <2>1, <2>2, <2>3, <2>4 DEF TypeOK
  <1>5. CASE HandleFin
    <2>1. toClient' \in Seq(ToClient)
      BY <1>2, <1>5, ReplyType DEF HandleFin
    <2>2. QED
      BY <1>1, <1>5, <2>1 DEF HandleFin, TypeOK
  <1>6. CASE HandleRst
    BY <1>1, <1>6 DEF HandleRst, TypeOK
  <1>7. CASE HandleUnknown
    <2>1. Reply("ack", Packet.seq + 1) \/ Reply("rst", 0) \/ UNCHANGED toClient
      <3>1. CASE Packet.flag = "fin"
        BY <1>7, <3>1 DEF HandleUnknown
      <3>2. CASE Packet.flag = "none"
        BY <1>7, <3>2 DEF HandleUnknown
      <3>3. CASE Packet.flag # "fin" /\ Packet.flag # "none"
        BY <1>7, <3>3 DEF HandleUnknown
      <3>4. QED
        BY <3>1, <3>2, <3>3
    <2>2. toClient' \in Seq(ToClient)
      BY <1>2, <2>1, ReplyType DEF TypeOK
    <2>3. QED
      BY <1>1, <1>7, <2>2 DEF HandleUnknown, TypeOK
  <1>8. QED
    BY <1>3, <1>4, <1>5, <1>6, <1>7 DEF Handler

\* All other steps keep the types.
LEMMA TypeStep == TypeOK /\ PacketInv /\ [Next]_vars => TypeOK'
  <1> SUFFICES ASSUME TypeOK, PacketInv, [Next]_vars PROVE TypeOK'
    OBVIOUS
  <1> USE DEF session, socket, client
  <1>1. CASE Handler
    BY <1>1, TypeHandler
  <1>2. CASE NioNoWrite \/ UpstreamFail \/ UNCHANGED vars
    BY <1>2 DEF NioNoWrite, UpstreamFail, vars, TypeOK
  <1>3. CASE NioWrite
    <2>1. written' \in Seq(1 .. TotalBytes) /\ sendingStream' \in Seq(1 .. TotalBytes)
      BY <1>3, ConcatProperties, SMT DEF NioWrite, TypeOK
    <2>2. QED
      BY <1>3, <2>1 DEF NioWrite, TypeOK
  <1>4. CASE NioWritePart
    <2>1. PICK p \in 0 .. Len(sendingStream) - 1 :
             /\ written' = written \o SubSeq(sendingStream, 1, p)
             /\ sendingStream' = SubSeq(sendingStream, Len(sendingStream) - p + 1, Len(sendingStream))
      BY <1>4 DEF NioWritePart
    <2>2. written \in Seq(1 .. TotalBytes) /\ sendingStream \in Seq(1 .. TotalBytes)
      BY DEF TypeOK
    <2>3. /\ SubSeq(sendingStream, 1, p) \in Seq(1 .. TotalBytes)
          /\ sendingStream' \in Seq(1 .. TotalBytes)
      <3> DEFINE n == Len(sendingStream)
      <3>1. n \in Nat
        BY <2>2, LenProperties
      <3>2. /\ \A i \in 1 .. p : i \in 1 .. n
            /\ \A i \in n - p + 1 .. n : i \in 1 .. n
            /\ p \in Int /\ n - p + 1 \in Int /\ n \in Int /\ 1 \in Int
        BY <2>1, <3>1, SMT
      <3>3. \A i \in 1 .. n : sendingStream[i] \in 1 .. TotalBytes
        BY <2>2, ElementOfSeq
      <3> HIDE DEF n
      <3>4. SubSeq(sendingStream, 1, p) \in Seq(1 .. TotalBytes)
        BY <3>2, <3>3, SubSeqProperties
      <3>5. SubSeq(sendingStream, n - p + 1, n) \in Seq(1 .. TotalBytes)
        BY <3>2, <3>3, SubSeqProperties
      <3>6. QED
        BY <2>1, <3>4, <3>5 DEF n
    <2>4. written' \in Seq(1 .. TotalBytes)
      BY <2>1, <2>2, <2>3, ConcatProperties
    <2>5. QED
      BY <1>4, <2>3, <2>4 DEF NioWritePart, TypeOK
  <1>5. CASE NioWriteFail
    <2>1. toClient' \in Seq(ToClient) /\ sendingStream' \in Seq(1 .. TotalBytes)
      <3>1. 0 \in Int
        BY SMT
      <3>2. QED
        BY <1>5, <3>1, ReplyType DEF NioWriteFail
    <2>2. QED
      BY <1>5, <2>1 DEF NioWriteFail, TypeOK
  <1>6. CASE NioReadEnds
    <2>1. toClient' \in Seq(ToClient)
      BY <1>6, ReplyType DEF NioReadEnds, TypeOK
    <2>2. QED
      BY <1>6, <2>1 DEF NioReadEnds, TypeOK
  <1>7. CASE ClientSend
    <2>1. PICK flag \in {"none", "fin", "rst"}, psh \in BOOLEAN, pos \in Nat, len \in 0 .. MaxLen :
             ClientPacket(flag, psh, pos, len)
      BY <1>7, ClientSends
    <2>2. fromClient' \in Seq(FromClient)
      BY <2>1, ClientPacketType
    <2>3. /\ sent' \in 0 .. TotalBytes /\ fin' \in {"none", "bare", "pushed"}
          /\ dead' \in BOOLEAN /\ extras' \in 0 .. MaxExtras
      BY <1>7, ClientSends
    <2>4. QED
      BY <2>1, <2>2, <2>3 DEF ClientPacket, TypeOK
  <1>8. CASE ClientReceive
    <2>1. toClient' \in Seq(ToClient) /\ Head(toClient) \in ToClient
      BY <1>8, TailFacts DEF ClientReceive, TypeOK
    <2>2. acked' \in 0 .. TotalBytes + 1
      <3> DEFINE new == (Head(toClient).ack - SeqOf(acked + 1)) % Mod
                 top == IF fin = "none" THEN sent ELSE sent + 1
      <3>1. /\ acked \in 0 .. TotalBytes + 1 /\ sent \in 0 .. TotalBytes /\ TotalBytes \in Nat
            /\ Head(toClient).ack \in 0 .. Mod - 1
        BY <2>1, UploadAssumption DEF TypeOK, ToClient
      <3>2. Head(toClient).ack - SeqOf(acked + 1) \in Int
        BY <3>1, ModFacts, SMT DEF SeqOf
      <3>3. new \in 0 .. Mod - 1
        BY <3>2, ModFacts, ModDef
      <3>4. acked' = acked \/ (acked' = acked + new /\ acked + new <= top)
        BY <1>8 DEF ClientReceive
      <3> HIDE DEF new
      <3>5. QED
        BY <3>1, <3>3, <3>4, ModFacts, SMT
    <2>3. dead' \in BOOLEAN
      BY <1>8 DEF ClientReceive
    <2>4. QED
      BY <1>8, <2>1, <2>2, <2>3 DEF ClientReceive, TypeOK
  <1>9. QED
    BY <1>1, <1>2, <1>3, <1>4, <1>5, <1>6, <1>7, <1>8 DEF Next, Writer, Client, ClientSend

\* The steps that neither take a packet of the app nor add one.
Elsewhere == Writer \/ NioReadEnds \/ UpstreamFail \/ ClientReceive \/ UNCHANGED vars

\* The three kinds of steps.
LEMMA StepKinds == [Next]_vars => Handler \/ ClientSend \/ Elsewhere
  BY DEF Next, Client, ClientSend, Elsewhere

\* Steps of the VPN thread take one packet and leave the app's TCP alone.
LEMMA Handled ==
    ASSUME Handler
    PROVE  /\ fromClient # <<>> /\ fromClient' = Tail(fromClient)
           /\ UNCHANGED <<written, sent, fin, dead>>
  BY DEF Handler, HandleData, HandleAck, HandleFin, HandleRst, HandleUnknown, KnownSession, NextPacket,
         socket, client

\* Other steps leave the packets of the app and its stream alone.
LEMMA ElsewhereKeeps ==
    ASSUME Elsewhere
    PROVE  UNCHANGED <<fromClient, sent, fin>> /\ (dead => dead')
  <1> USE DEF session, socket, client
  <1>1. CASE Writer
    BY <1>1 DEF Writer, NioNoWrite, NioWrite, NioWritePart, NioWriteFail
  <1>2. CASE NioReadEnds \/ UpstreamFail \/ ClientReceive \/ UNCHANGED vars
    BY <1>2 DEF NioReadEnds, UpstreamFail, ClientReceive, vars
  <1>3. QED
    BY <1>1, <1>2 DEF Elsewhere

\* Every step keeps what packets say of themselves.
LEMMA PacketStep == TypeOK /\ PacketInv /\ [Next]_vars => PacketInv'
  <1> SUFFICES ASSUME TypeOK, PacketInv, [Next]_vars PROVE PacketInv'
    OBVIOUS
  <1>0. fromClient \in Seq(FromClient) /\ Len(fromClient) \in Nat
    BY LenProperties DEF TypeOK
  <1>1. CASE Handler
    <2>1. fromClient # <<>> /\ fromClient' = Tail(fromClient) /\ UNCHANGED dead
      BY <1>1, Handled
    <2>2. /\ Len(fromClient') = Len(fromClient) - 1
          /\ \A i \in 1 .. Len(fromClient) - 1 : fromClient'[i] = fromClient[i + 1]
      BY <1>0, <2>1, TailFacts
    <2>3. ASSUME NEW i \in 1 .. Len(fromClient')
          PROVE  /\ fromClient'[i] = fromClient[i + 1] /\ i + 1 \in 1 .. Len(fromClient)
                 /\ i + 1 = Len(fromClient) => i = Len(fromClient')
      BY <1>0, <2>2, SMT
    <2>4. QED
      BY <2>1, <2>3 DEF PacketInv
  <1>2. CASE ClientSend
    <2>1. PICK flag \in {"none", "fin", "rst"}, psh \in BOOLEAN, pos \in Nat, len \in 0 .. MaxLen :
             /\ ClientPacket(flag, psh, pos, len)
             /\ len > 0 => pos >= 1 /\ pos + len <= TotalBytes + 1
             /\ flag = "rst" => dead'
      BY <1>2, ClientSends
    <2>2. PICK p \in FromClient :
             /\ p = [flag |-> flag, psh |-> psh, seq |-> Signed(SeqOf(pos)), pos |-> pos, len |-> len]
             /\ fromClient' = Append(fromClient, p)
      BY <2>1, ClientPacketType
    <2>3. ~dead
      BY <2>1 DEF ClientPacket
    <2>4. /\ Len(fromClient') = Len(fromClient) + 1 /\ fromClient'[Len(fromClient) + 1] = p
          /\ \A i \in 1 .. Len(fromClient) : fromClient'[i] = fromClient[i]
      BY <1>0, <2>2, AppendFacts
    <2>5. /\ p.pos \in Nat /\ p.seq = Signed(SeqOf(p.pos))
          /\ p.len > 0 => p.pos >= 1 /\ p.pos + p.len <= TotalBytes + 1
          /\ p.flag = "rst" => dead'
      BY <2>1, <2>2
    <2>6. ASSUME NEW i \in 1 .. Len(fromClient')
          PROVE  (i \in 1 .. Len(fromClient) /\ fromClient'[i] = fromClient[i])
                 \/ (i = Len(fromClient') /\ fromClient'[i] = p)
      BY <1>0, <2>4, SMT
    <2>7. QED
      BY <2>3, <2>5, <2>6 DEF PacketInv
  <1>3. CASE Elsewhere
    BY <1>3, ElsewhereKeeps DEF PacketInv
  <1>4. QED
    BY <1>1, <1>2, <1>3, StepKinds

\* Every step keeps what is known after a RST.
LEMMA ResetStep == TypeOK /\ PacketInv /\ ResetInv /\ [Next]_vars => ResetInv'
  <1> SUFFICES ASSUME TypeOK, PacketInv, ResetInv, [Next]_vars PROVE ResetInv'
    OBVIOUS
  <1> USE DEF session, socket, client
  <1>1. CASE Handler
    <2>0. fromClient # <<>> /\ fromClient' = Tail(fromClient) /\ UNCHANGED dead
      BY <1>1, Handled
    <2>1. CASE HandleData \/ HandleAck \/ HandleUnknown
      BY <2>0, <2>1 DEF HandleData, HandleAck, HandleUnknown, KnownSession, ResetInv
    <2>2. CASE HandleFin
      BY <2>2 DEF HandleFin, ResetInv
    <2>3. CASE HandleRst
      <3>1. dead /\ Len(fromClient) = 1
        BY <2>0, <2>3, HeadPacket DEF HandleRst
      <3>2. fromClient' = <<>>
        <4>1. Tail(fromClient) \in Seq(FromClient) /\ Len(Tail(fromClient)) = 1 - 1
          BY <2>0, <3>1, TailFacts DEF TypeOK
        <4>2. Len(Tail(fromClient)) = 0
          BY <4>1, SMT
        <4>3. QED
          BY <2>0, <4>1, <4>2, EmptySeq
      <3>3. QED
        BY <2>0, <3>1, <3>2 DEF ResetInv
    <2>4. QED
      BY <1>1, <2>1, <2>2, <2>3 DEF Handler
  <1>2. CASE ClientSend
    <2>1. ~dead /\ UNCHANGED <<open, aborting>>
      BY <1>2, ClientSends DEF ClientPacket
    <2>2. QED
      BY <2>1 DEF ResetInv
  <1>3. CASE Elsewhere
    <2>1. UNCHANGED fromClient /\ (dead => dead')
      BY <1>3, ElsewhereKeeps
    <2>2. open' /\ aborting' => open /\ aborting
      <3>1. CASE NioNoWrite \/ UpstreamFail \/ ClientReceive \/ UNCHANGED vars
        BY <3>1 DEF NioNoWrite, UpstreamFail, ClientReceive, vars
      <3>2. CASE NioWrite \/ NioWritePart \/ NioWriteFail \/ NioReadEnds
        BY <3>2 DEF NioWrite, NioWritePart, NioWriteFail, NioReadEnds
      <3>3. QED
        BY <1>3, <3>1, <3>2 DEF Elsewhere, Writer
    <2>3. QED
      BY <2>1, <2>2 DEF ResetInv
  <1>4. QED
    BY <1>1, <1>2, <1>3, StepKinds

-----------------------------------------------------------------------------
(* The stream, recSequence and the queue, action by action. *)

\* What the engine has taken is a number of bytes.
LEMMA HeldFacts ==
    ASSUME TypeOK
    PROVE  /\ Len(written) \in Nat /\ Len(sendingStream) \in Nat /\ Held \in Nat
           /\ sent \in Nat /\ sent <= TotalBytes /\ TotalBytes \in Nat
           /\ recSequence \in Int /\ Signed(ClientIsn) \in Int /\ Half \in Nat
  <1>1. Len(written) \in Nat /\ Len(sendingStream) \in Nat
    BY LenProperties DEF TypeOK
  <1>2. sent \in 0 .. TotalBytes /\ TotalBytes \in Nat /\ recSequence \in Int
    BY UploadAssumption DEF TypeOK
  <1>3. Signed(ClientIsn) \in Int
    BY ModFacts, SignedRange, SMT
  <1>4. QED
    BY <1>1, <1>2, <1>3, ModFacts, SMT DEF Held

\* The first packet of a queue that leads on from what is held.
LEMMA HeadFollows ==
    ASSUME TypeOK, fromClient # <<>>, NEW f, Leads(f)
    PROVE  Follows(Held, f[1], Packet) /\ f[1] \in Nat /\ f[1] <= sent
  <1>1. Packet = fromClient[1] /\ Len(fromClient) \in Nat /\ Len(fromClient) >= 1
    BY TailFacts DEF TypeOK, Packet
  <1>2. 1 \in 1 .. Len(fromClient) /\ 1 \in 0 .. Len(fromClient) /\ 1 - 1 = 0
    BY <1>1, SMT
  <1>3. f[1] \in 0 .. sent /\ Follows(f[1 - 1], f[1], fromClient[1]) /\ f[0] = Held
    BY <1>2 DEF Leads
  <1>4. QED
    BY <1>1, <1>2, <1>3, HeldFacts, SMT

\* A packet has been taken, and the rest of the queue leads on from there.
LEMMA TailLeads ==
    ASSUME TypeOK, fromClient # <<>>, fromClient' = Tail(fromClient), UNCHANGED <<sent, fin>>,
           NEW f, Leads(f), f[1] = Held'
    PROVE  \E g \in [0 .. Len(fromClient') -> 0 .. sent'] : Leads(g)'
  <1> DEFINE n == Len(fromClient) - 1
             g == [i \in 0 .. n |-> f[i + 1]]
  <1>1. /\ Len(fromClient) \in Nat /\ Len(fromClient) >= 1 /\ Len(fromClient') = n
        /\ \A i \in 1 .. n : fromClient'[i] = fromClient[i + 1]
    BY TailFacts DEF TypeOK
  <1>2. /\ n \in Nat /\ Len(fromClient) = n + 1
    BY <1>1, SMT
  <1> HIDE DEF n
  <1>3. /\ f \in [0 .. n + 1 -> 0 .. sent] /\ f[n + 1] = sent
        /\ \A i \in 1 .. n + 1 : Follows(f[i - 1], f[i], fromClient[i])
    BY <1>2 DEF Leads
  <1>4. g \in [0 .. n -> 0 .. sent]
    BY <1>2, <1>3, SMT
  <1>5. g[0] = f[1] /\ g[n] = sent
    BY <1>2, <1>3, SMT
  <1>6. ASSUME NEW i \in 1 .. n
        PROVE  g[i - 1] = f[i] /\ g[i] = f[i + 1] /\ i + 1 \in 1 .. n + 1 /\ (i + 1) - 1 = i
    BY <1>2, SMT
  <1> HIDE DEF g
  <1>7. PICK h \in [0 .. n -> 0 .. sent] : h = g
    BY <1>4
  <1>8. ASSUME NEW i \in 1 .. n PROVE Follows(h[i - 1], h[i], fromClient'[i])
    BY <1>1, <1>3, <1>6, <1>7
  <1>9. ASSUME NEW i \in 1 .. n PROVE Follows(h[i - 1], h[i], fromClient[i])'
    BY <1>8 DEF Follows
  <1>10. Len(fromClient)' = n /\ sent' = sent /\ h[0] = Held' /\ h[n] = sent
    BY <1>1, <1>5, <1>7
  <1>11. Leads(h)'
    BY <1>9, <1>10 DEF Leads
  <1>12. QED
    BY <1>10, <1>11

\* A packet for an undisturbed session finds it sound: after a RST none comes.
LEMMA PacketMeansSound ==
    ASSUME ResetInv, KnownSession, intact
    PROVE  Sound
  BY DEF ResetInv, KnownSession, NextPacket, Sound

\* What addClientData takes is the next byte of the stream and those after it.
LEMMA DataAdded ==
    ASSUME NeverZero, UploadInv, Sound, fromClient # <<>>, Packet.len > 0, AddData
    PROVE  /\ Packet.pos = Held + 1 /\ recSequence = Unwrapped(Held + 1)
           /\ \A f : Leads(f) => f[1] = Held + Packet.len
           /\ Held + Packet.len <= sent
  <1> USE DEF UploadInv
  <1>1. /\ Packet.pos \in Nat /\ Packet.pos >= 1 /\ Packet.len \in Nat
        /\ Packet.seq \in Int /\ Packet.seq < Half /\ Packet.seq <= Unwrapped(Packet.pos)
    BY HeadPacket
  <1>2. /\ Held <= sent
        /\ recSequence = Unwrapped(Held + 1) \/ recSequence = Unwrapped(Held + 2)
    BY DEF PlaceInv
  <1>4. ASSUME NEW f, Leads(f)
        PROVE  /\ Packet.pos = Held + 1 /\ recSequence = Unwrapped(Held + 1)
               /\ f[1] = Held + Packet.len /\ f[1] <= sent
    <2>1. Follows(Held, f[1], Packet) /\ f[1] \in Nat /\ f[1] <= sent
      BY <1>4, HeadFollows
    <2>2. Packet.pos <= Held + 1
      BY <1>1, <2>1, HeldFacts, SMT DEF Follows
    <2>3. CASE recSequence = 0
      <3>1. Held = 0
        <4>1. ASSUME NEW k \in Int, 2 <= k, k <= TotalBytes + 2 PROVE Unwrapped(k) # 0
          BY <4>1, HeldFacts, SMT DEF NeverZero
        <4>2. Held + 2 \in Int /\ 2 <= Held + 2 /\ Held + 2 <= TotalBytes + 2
          BY <1>2, HeldFacts, SMT
        <4>3. recSequence = Unwrapped(Held + 1)
          BY <1>2, <2>3, <4>1, <4>2
        <4>4. CASE Held >= 1
          <5>1. Held + 1 \in Int /\ 2 <= Held + 1 /\ Held + 1 <= TotalBytes + 2
            BY <1>2, <4>4, HeldFacts, SMT
          <5>2. QED
            BY <2>3, <4>1, <4>3, <5>1
        <4>5. QED
          BY <4>4, HeldFacts, SMT
      <3>2. Packet.pos = Held + 1 /\ f[1] = Held + Packet.len
        BY <1>1, <2>1, <3>1, SMT DEF Follows
      <3>3. recSequence = Unwrapped(Held + 1)
        <4>1. 2 \in 2 .. TotalBytes + 2
          BY HeldFacts, SMT
        <4>2. Unwrapped(2) # 0
          BY <4>1 DEF NeverZero
        <4>3. Unwrapped(Held + 2) = Unwrapped(2)
          BY <3>1, SMT
        <4>4. QED
          BY <1>2, <2>3, <4>2, <4>3
      <3>4. QED
        BY <2>1, <3>2, <3>3
    <2>4. CASE Packet.seq >= recSequence
      <3>1. Packet.pos = Held + 1 /\ recSequence = Unwrapped(Held + 1)
        <4>1. /\ Unwrapped(Packet.pos) = Signed(ClientIsn) + Packet.pos
              /\ Unwrapped(Held + 1) = Signed(ClientIsn) + (Held + 1)
              /\ Unwrapped(Held + 2) = Signed(ClientIsn) + (Held + 2)
          BY DEF Unwrapped
        <4>2. Held \in Nat /\ Signed(ClientIsn) \in Int /\ recSequence \in Int
          BY HeldFacts
        <4>3. QED
          BY <1>1, <1>2, <2>2, <2>4, <4>1, <4>2, OnlyNext
      <3>2. f[1] = Held + Packet.len
        BY <1>1, <2>1, <3>1, HeldFacts, SMT DEF Follows
      <3>3. QED
        BY <2>1, <3>1, <3>2
    <2>5. QED
      BY <2>3, <2>4 DEF AddData
  <1>5. \E f : Leads(f)
    BY DEF QueueInv
  <1>6. QED
    BY <1>4, <1>5

\* What sendAckForDisorder drops is held already.
LEMMA DataDropped ==
    ASSUME StaysBelow, UploadInv, Sound, fromClient # <<>>, Packet.len > 0, sendAckForDisorder,
           NEW f, Leads(f)
    PROVE  f[1] = Held
  <1> USE DEF UploadInv
  <1>1. /\ Packet.pos \in Nat /\ Packet.len \in Nat /\ Packet.seq \in Int
        /\ Packet.seq = Signed(SeqOf(Packet.pos))
    BY HeadPacket
  <1>2. Follows(Held, f[1], Packet) /\ f[1] \in Nat /\ f[1] <= sent
    BY HeadFollows
  <1>3. SUFFICES ASSUME Packet.pos = Held + 1, f[1] = Held + Packet.len PROVE FALSE
    BY <1>1, <1>2, HeldFacts, SMT DEF Follows
  <1>4. Held # sent
    BY <1>1, <1>2, <1>3, HeldFacts, SMT
  <1>5. recSequence = Unwrapped(Held + 1)
    BY <1>4 DEF PlaceInv
  <1>6. Packet.seq = recSequence
    <2>1. Packet.pos <= TotalBytes + 2
      BY <1>2, <1>3, HeldFacts, <1>1, SMT
    <2>2. QED
      BY <1>1, <1>3, <1>5, <2>1, NumbersAgree
  <1>7. QED
    BY <1>1, <1>6, SMT DEF sendAckForDisorder

\* addClientData puts the packet's bytes to what is held.
LEMMA HeldGrows ==
    ASSUME TypeOK, PacketInv, fromClient # <<>>, AddData, Packet.len > 0, UNCHANGED written
    PROVE  Held' = Held + Packet.len
  <1> DEFINE b == Bytes(Packet.pos, Packet.pos + Packet.len - 1)
  <1>1. Packet.pos \in Nat /\ Packet.len \in Nat /\ Packet.pos >= 1 /\ Packet.pos + Packet.len <= TotalBytes + 1
    BY HeadPacket
  <1>2. b \in Seq(1 .. TotalBytes) /\ Len(b) = Packet.len
    BY <1>1, BytesFacts
  <1>3. sendingStream' = sendingStream \o b /\ sendingStream \in Seq(1 .. TotalBytes)
    BY DEF AddData, TypeOK
  <1> HIDE DEF b
  <1>4. Len(sendingStream \o b) = Len(sendingStream) + Packet.len
    <2>1. 0 \in Nat
      OBVIOUS
    <2>2. Len(sendingStream \o b) = Len(sendingStream) + Len(b)
      BY <1>2, <1>3, <2>1, ConcatRuns
    <2>3. QED
      BY <1>2, <2>2
  <1>5. Held' = Len(written) + Len(sendingStream \o b)
    BY <1>3 DEF Held
  <1>6. QED
    BY <1>1, <1>4, <1>5, HeldFacts, SMT DEF Held

\* A data packet.
LEMMA DataStep ==
    ASSUME NeverZero, StaysBelow, UploadInv, HandleData
    PROVE  StreamInv' /\ PlaceInv' /\ QueueInv'
  <1>0. /\ TypeOK /\ PacketInv /\ ResetInv /\ StreamInv /\ PlaceInv /\ QueueInv
        /\ KnownSession /\ open /\ fromClient # <<>> /\ fromClient' = Tail(fromClient)
        /\ Packet.len > 0
        /\ UNCHANGED <<aborting, open, written, intact, sent, fin>>
    BY DEF UploadInv, HandleData, KnownSession, NextPacket, socket, client
  <1>1. CASE ~intact
    BY <1>0, <1>1 DEF StreamInv, PlaceInv, QueueInv, Sound
  <1>2. CASE intact /\ AddData
    <2>0. Sound
      BY <1>0, <1>2, PacketMeansSound
    <2>1. /\ Packet.pos = Held + 1 /\ recSequence = Unwrapped(Held + 1)
          /\ \A f : Leads(f) => f[1] = Held + Packet.len
          /\ Held + Packet.len <= sent
      BY <1>0, <1>2, <2>0, DataAdded
    <2>2. Packet.pos \in Nat /\ Packet.len \in Nat /\ Packet.pos >= 1 /\ Packet.pos + Packet.len <= TotalBytes + 1
      BY <1>0, HeadPacket
    <2> DEFINE b == Bytes(Packet.pos, Packet.pos + Packet.len - 1)
    <2>3. b \in Seq(1 .. TotalBytes) /\ Len(b) = Packet.len /\ Runs(b, Packet.pos - 1)
      BY <2>2, BytesFacts
    <2>4. sendingStream' = sendingStream \o b /\ recSequence' = recSequence + Packet.len
      BY <1>2 DEF AddData
    <2> HIDE DEF b
    <2>5. sendingStream \in Seq(1 .. TotalBytes) /\ Len(written) \in Nat
      BY <1>0, HeldFacts DEF TypeOK
    <2>6. Packet.pos - 1 = Len(written) + Len(sendingStream)
      BY <1>0, <2>1, HeldFacts, SMT DEF Held
    <2>7. Runs(sendingStream, Len(written)) /\ Runs(b, Len(written) + Len(sendingStream))
      BY <1>0, <1>2, <2>3, <2>6 DEF StreamInv
    <2>8. /\ Runs(sendingStream \o b, Len(written))
          /\ Len(sendingStream \o b) = Len(sendingStream) + Packet.len
      <3>1. /\ Runs(sendingStream \o b, Len(written))
            /\ Len(sendingStream \o b) = Len(sendingStream) + Len(b)
        <4>1. b \in Seq(1 .. TotalBytes)
          BY <2>3
        <4>2. QED
          BY <2>5, <2>7, <4>1, ConcatRuns
      <3>2. QED
        BY <2>3, <3>1
    <2>9. Held' = Held + Packet.len
      <3>1. Held' = Len(written) + Len(sendingStream \o b)
        BY <1>0, <2>4 DEF Held
      <3>2. QED
        BY <1>0, <2>2, <2>8, <3>1, HeldFacts, SMT DEF Held
    <2>10. StreamInv'
      BY <1>0, <2>4, <2>8 DEF StreamInv, Runs
    <2>11. PlaceInv'
      <3>1. recSequence' = Signed(ClientIsn) + (Held' + 1)
        <4>1. recSequence = Signed(ClientIsn) + (Held + 1)
          BY <2>1 DEF Unwrapped
        <4>2. recSequence + Packet.len = Signed(ClientIsn) + ((Held + Packet.len) + 1)
          <5>1. Held \in Nat /\ Signed(ClientIsn) \in Int
            BY <1>0, HeldFacts
          <5>2. QED
            BY <2>2, <4>1, <5>1, SMT
        <4>3. QED
          BY <2>4, <2>9, <4>2
      <3>2. Held' <= sent'
        BY <1>0, <2>1, <2>9
      <3>3. QED
        BY <3>1, <3>2 DEF PlaceInv, Unwrapped
    <2>12. QueueInv'
      <3>1. PICK f : Leads(f)
        BY <1>0, <2>0, <2>1 DEF QueueInv
      <3>2. f[1] = Held'
        BY <2>1, <2>9, <3>1
      <3>3. \E g \in [0 .. Len(fromClient') -> 0 .. sent'] : Leads(g)'
        BY <1>0, <3>1, <3>2, TailLeads
      <3>4. QED
        BY <3>3 DEF QueueInv
    <2>13. QED
      BY <2>10, <2>11, <2>12
  <1>3. CASE intact /\ sendAckForDisorder
    <2>0. Sound
      BY <1>0, <1>3, PacketMeansSound
    <2>1. UNCHANGED <<sendingStream, recSequence>>
      BY <1>3 DEF sendAckForDisorder
    <2>2. Held' = Held
      BY <1>0, <2>1 DEF Held
    <2>3. StreamInv' /\ PlaceInv'
      BY <1>0, <2>1, <2>2 DEF StreamInv, PlaceInv, Sound, Runs, Unwrapped
    <2>4. \E g \in [0 .. Len(fromClient') -> 0 .. sent'] : Leads(g)'
      <3>1. PICK f : Leads(f)
        BY <1>0, <2>0 DEF QueueInv
      <3>2. f[1] = Held'
        BY <1>0, <1>3, <2>0, <2>2, <3>1, DataDropped
      <3>3. QED
        BY <1>0, <3>1, <3>2, TailLeads
    <2>5. QueueInv'
      BY <2>1, <2>4 DEF QueueInv
    <2>6. QED
      BY <2>3, <2>5
  <1>4. QED
    BY <1>1, <1>2, <1>3 DEF HandleData

\* A pure ACK: unless it is a probe that acceptAck takes for one, recSequence
\* stays the number of the next byte, or passes the FIN.
LEMMA AckStep ==
    ASSUME StaysBelow, UploadInv, HandleAck
    PROVE  StreamInv' /\ PlaceInv' /\ QueueInv'
  <1>0. /\ TypeOK /\ PacketInv /\ ResetInv /\ StreamInv /\ PlaceInv /\ QueueInv
        /\ KnownSession /\ open /\ fromClient # <<>> /\ fromClient' = Tail(fromClient)
        /\ Packet.len = 0 /\ recSequence' \in {recSequence, Packet.seq}
        /\ intact' = (intact /\ (recSequence' = recSequence \/ Packet.pos > Held))
        /\ UNCHANGED <<aborting, open, written, sendingStream, sent, fin>>
    BY DEF UploadInv, HandleAck, KnownSession, NextPacket, client
  <1>1. Held' = Held
    BY <1>0 DEF Held
  <1>2. StreamInv'
    BY <1>0 DEF StreamInv, Runs
  <1>3. CASE ~intact'
    BY <1>2, <1>3 DEF PlaceInv, QueueInv, Sound
  <1>4. CASE intact'
    <2>0. Sound /\ (recSequence' = recSequence \/ Packet.pos > Held)
      BY <1>0, <1>4, PacketMeansSound
    <2>1. PICK f : Leads(f)
      BY <1>0, <2>0 DEF QueueInv
    <2>2. Follows(Held, f[1], Packet)
      BY <1>0, <2>1, HeadFollows
    <2>3. QueueInv'
      <3>1. f[1] = Held'
        BY <1>0, <1>1, <2>2, SMT DEF Follows
      <3>2. QED
        BY <1>0, <2>1, <3>1, TailLeads DEF QueueInv
    <2>4. PlaceInv'
      <3>1. CASE recSequence' = recSequence
        BY <1>0, <1>1, <2>0, <3>1 DEF PlaceInv, Unwrapped
      <3>2. CASE recSequence' = Packet.seq /\ Packet.pos > Held
        <4>1. Packet.pos \in Nat /\ Packet.seq = Signed(SeqOf(Packet.pos))
          BY <1>0, HeadPacket
        <4>2. Held <= sent
          BY <1>0, <2>0 DEF PlaceInv
        <4>3. /\ Packet.pos \in {Held + 1, Held + 2}
              /\ Packet.pos = Held + 2 => Held = sent /\ fin # "none"
          BY <1>0, <2>2, <3>2, <4>1, HeldFacts, SMT DEF Follows
        <4>4. Packet.pos <= TotalBytes + 2
          BY <1>0, <4>1, <4>2, <4>3, HeldFacts, SMT
        <4>5. recSequence' = Unwrapped(Packet.pos)
          BY <3>2, <4>1, <4>4, NumbersAgree
        <4>6. recSequence' = Signed(ClientIsn) + Packet.pos
          BY <4>5 DEF Unwrapped
        <4>7. QED
          BY <1>0, <1>1, <4>2, <4>3, <4>6 DEF PlaceInv, Unwrapped
      <3>3. QED
        BY <1>0, <2>0, <3>1, <3>2
    <2>5. QED
      BY <1>2, <2>3, <2>4
  <1>5. QED
    BY <1>3, <1>4

\* A FIN or a RST, and a packet without a session: no byte is taken.
LEMMA EndStep ==
    ASSUME UploadInv, HandleFin \/ HandleRst \/ HandleUnknown
    PROVE  StreamInv' /\ PlaceInv' /\ QueueInv'
  <1>0. StreamInv /\ UNCHANGED <<written, sendingStream, intact>>
    BY DEF UploadInv, HandleFin, HandleRst, HandleUnknown, session, socket
  <1>1. open' => open
    BY DEF HandleFin, HandleRst, HandleUnknown, session
  <1>2. ~Sound'
    BY DEF HandleFin, HandleRst, HandleUnknown, session, Sound
  <1>3. StreamInv'
    BY <1>0, <1>1 DEF StreamInv, Runs
  <1>4. QED
    BY <1>2, <1>3 DEF PlaceInv, QueueInv, Sound

\* The app's TCP sends a packet.
LEMMA SendStep ==
    ASSUME UploadInv, ClientSend
    PROVE  StreamInv' /\ PlaceInv' /\ QueueInv'
  <1>0. TypeOK /\ StreamInv /\ PlaceInv /\ QueueInv
    BY DEF UploadInv
  <1>1. PICK flag \in {"none", "fin", "rst"}, psh \in BOOLEAN, pos \in Nat, len \in 0 .. MaxLen :
           /\ ClientPacket(flag, psh, pos, len)
           /\ \/ len > 0 /\ pos = sent + 1 /\ sent' = sent + len
              \/ sent' = sent /\ pos <= sent /\ pos + len <= sent + 1 /\ (len > 0 \/ KeepAlives)
              \/ sent' = sent /\ len = 0 /\ pos = sent + 1
              \/ sent' = sent /\ len = 0 /\ pos = sent + 2 /\ fin' # "none"
    BY <1>0, ClientSends
  <1>2. sent <= sent' /\ sent' \in 0 .. TotalBytes /\ (fin # "none" => sent' = sent /\ fin' = fin)
    BY <1>0, ClientSends
  <1>3. UNCHANGED <<recSequence, sendingStream, aborting, open, written, intact>>
    BY <1>1 DEF ClientPacket, session, socket
  <1>4. Held' = Held /\ (Sound' <=> Sound)
    BY <1>3 DEF Held, Sound
  <1>5. StreamInv'
    BY <1>0, <1>3 DEF StreamInv, Runs
  <1>6. PlaceInv'
    <2> SUFFICES ASSUME Sound
                 PROVE  /\ Held <= sent'
                        /\ \/ recSequence = Unwrapped(Held + 1)
                           \/ recSequence = Unwrapped(Held + 2) /\ Held = sent' /\ fin' # "none"
      BY <1>3, <1>4 DEF PlaceInv, Unwrapped
    <2>1. /\ Held <= sent
          /\ \/ recSequence = Unwrapped(Held + 1)
             \/ recSequence = Unwrapped(Held + 2) /\ Held = sent /\ fin # "none"
      BY <1>0 DEF PlaceInv
    <2>2. Held <= sent'
      BY <1>0, <1>2, <2>1, HeldFacts, SMT
    <2>3. QED
      BY <1>2, <2>1, <2>2
  <1>7. QueueInv'
    <2> SUFFICES ASSUME Sound
                 PROVE  \E g \in [0 .. Len(fromClient') -> 0 .. sent'] : Leads(g)'
      BY <1>3, <1>4 DEF QueueInv
    <2>1. PICK f : Leads(f)
      BY <1>0 DEF QueueInv
    <2>2. PICK p \in FromClient :
             /\ p = [flag |-> flag, psh |-> psh, seq |-> Signed(SeqOf(pos)), pos |-> pos, len |-> len]
             /\ fromClient' = Append(fromClient, p)
      BY <1>0, <1>1, ClientPacketType
    <2>3. PICK n \in Nat : n = Len(fromClient)
      BY <1>0, LenProperties DEF TypeOK
    <2>4. /\ Len(fromClient') = n + 1 /\ fromClient'[n + 1] = p
          /\ \A i \in 1 .. n : fromClient'[i] = fromClient[i]
      BY <1>0, <2>2, <2>3, AppendFacts DEF TypeOK
    <2>5. PICK k \in Nat : k = sent'
      BY <1>0, <1>2, HeldFacts, SMT
    <2>6. /\ f \in [0 .. n -> 0 .. sent] /\ f[0] = Held /\ f[n] = sent
          /\ \A i \in 1 .. n : Follows(f[i - 1], f[i], fromClient[i])
      BY <2>1, <2>3 DEF Leads
    <2> DEFINE g == [i \in 0 .. n + 1 |-> IF i = n + 1 THEN k ELSE f[i]]
    <2>7. g \in [0 .. n + 1 -> 0 .. k]
      <3>1. \A i \in 0 .. n : f[i] \in 0 .. k
        BY <1>0, <1>2, <2>5, <2>6, HeldFacts, SMT
      <3>2. QED
        BY <3>1, <2>3, <2>5, SMT
    <2>8. g[0] = Held /\ g[n + 1] = k /\ g[n] = sent
      BY <2>3, <2>6, SMT
    <2>9. ASSUME NEW i \in 1 .. n
          PROVE  g[i] = f[i] /\ g[i - 1] = f[i - 1]
      BY <2>3, SMT
    <2> HIDE DEF g
    <2>10. ASSUME NEW i \in 1 .. n PROVE Follows(g[i - 1], g[i], fromClient[i])'
      <3>1. Follows(f[i - 1], f[i], fromClient[i])
        BY <2>6
      <3>2. fin # "none" => sent' = sent /\ fin' # "none"
        BY <1>2
      <3>3. QED
        BY <2>4, <2>9, <3>1, <3>2 DEF Follows, g
    <2>11. Follows(g[n], g[n + 1], fromClient[n + 1])'
      <3>1. p.len = len /\ p.pos = pos
        BY <2>2
      <3>2. QED
        BY <1>1, <2>4, <2>5, <2>8, <3>1 DEF Follows, g
    <2>12. ASSUME NEW i \in 1 .. n + 1 PROVE Follows(g[i - 1], g[i], fromClient[i])'
      <3>1. CASE i = n + 1
        <4>1. i - 1 = n
          BY <2>3, <3>1, SMT
        <4>2. QED
          BY <2>11, <3>1, <4>1
      <3>2. CASE i # n + 1
        <4>1. i \in 1 .. n
          BY <2>3, <3>2, SMT
        <4>2. QED
          BY <2>10, <4>1
      <3>3. QED
        BY <3>1, <3>2
    <2>13. Leads(g)'
      BY <1>4, <2>4, <2>5, <2>7, <2>8, <2>12 DEF Leads
    <2>14. QED
      BY <2>4, <2>5, <2>7, <2>13
  <1>8. QED
    BY <1>5, <1>6, <1>7

\* The NIO thread, the upstream socket and the app's TCP that receives.
LEMMA ElsewhereStep ==
    ASSUME UploadInv, Elsewhere
    PROVE  StreamInv' /\ PlaceInv' /\ QueueInv'
  <1> USE DEF session, socket, client
  <1>0. /\ TypeOK /\ StreamInv /\ PlaceInv /\ QueueInv
        /\ UNCHANGED <<fromClient, sent, fin>>
    BY ElsewhereKeeps DEF UploadInv
  <1>1. CASE NioNoWrite \/ UpstreamFail \/ ClientReceive \/ UNCHANGED vars
    <2>1. UNCHANGED <<recSequence, sendingStream, aborting, open, written, intact>>
      BY <1>1 DEF NioNoWrite, UpstreamFail, ClientReceive, vars
    <2>2. QED
      BY <1>0, <2>1 DEF StreamInv, PlaceInv, QueueInv, Sound, Runs, Unwrapped, Held, Leads, Follows
  <1>2. CASE NioWrite
    <2>1. /\ open /\ written' = written \o sendingStream /\ sendingStream' = <<>>
          /\ UNCHANGED <<recSequence, aborting, intact>> /\ open' = ~aborting
      BY <1>2 DEF NioWrite, WritePending
    <2>2. /\ written \in Seq(1 .. TotalBytes) /\ sendingStream \in Seq(1 .. TotalBytes)
          /\ Len(written) \in Nat /\ Len(sendingStream) \in Nat /\ 0 \in Nat
      BY <1>0, HeldFacts DEF TypeOK
    <2>3. Len(written \o sendingStream) = Len(written) + Len(sendingStream) /\ Len(<<>>) = 0
      BY <2>2, ConcatRuns, EmptySeq
    <2>4. Held' = Held
      <3>1. Held' = Len(written \o sendingStream) + Len(<<>>)
        BY <2>1 DEF Held
      <3>2. QED
        BY <2>2, <2>3, <3>1, SMT DEF Held
    <2>5. intact => Runs(written \o sendingStream, 0)
      <3>1. 0 + Len(written) = Len(written)
        BY <2>2, SMT
      <3>2. intact => Runs(written, 0) /\ Runs(sendingStream, 0 + Len(written))
        BY <1>0, <2>1, <3>1 DEF StreamInv
      <3>3. QED
        BY <2>2, <3>2, ConcatRuns
    <2>6. StreamInv'
      <3>1. intact' => Runs(written, 0)'
        BY <2>1, <2>5 DEF Runs
      <3>2. Runs(sendingStream, Len(written))'
        <4>1. 1 .. 0 = {}
          BY SMT
        <4>2. QED
          BY <2>1, <2>3, <4>1 DEF Runs
      <3>3. QED
        BY <3>1, <3>2 DEF StreamInv
    <2>7. Sound' => Sound
      BY <2>1 DEF Sound
    <2>8. PlaceInv'
      BY <1>0, <2>1, <2>4, <2>7 DEF PlaceInv, Unwrapped
    <2>9. QueueInv'
      <3>1. ASSUME NEW f, Leads(f) PROVE Leads(f)'
        BY <1>0, <2>4, <3>1 DEF Leads, Follows
      <3>2. QED
        BY <1>0, <2>7, <3>1 DEF QueueInv
    <2>10. QED
      BY <2>6, <2>8, <2>9
  <1>3. CASE NioWritePart
    BY <1>3 DEF NioWritePart, StreamInv, PlaceInv, QueueInv, Sound
  <1>4. CASE NioWriteFail \/ NioReadEnds
    <2>1. ~open' /\ UNCHANGED <<written, intact>>
      BY <1>4 DEF NioWriteFail, NioReadEnds
    <2>2. QED
      BY <1>0, <2>1 DEF StreamInv, PlaceInv, QueueInv, Sound, Runs
  <1>5. QED
    BY <1>1, <1>2, <1>3, <1>4 DEF Elsewhere, Writer

\* A data packet is acknowledged up to where its bytes are held.
LEMMA DataReply ==
    ASSUME NeverZero, StaysBelow, UploadInv, HandleData, intact
    PROVE  \E n \in 0 .. Held' : Reply("ack", SeqOf(n + 1))
  <1>0. /\ TypeOK /\ PacketInv /\ KnownSession /\ fromClient # <<>> /\ Packet.len > 0
        /\ AddData \/ sendAckForDisorder
        /\ UNCHANGED written
    BY DEF UploadInv, HandleData, KnownSession, NextPacket, socket
  <1>1. Sound
    BY <1>0, PacketMeansSound DEF UploadInv
  <1>2. /\ Packet.pos \in Nat /\ Packet.pos >= 1 /\ Packet.len \in Nat
        /\ Packet.pos + Packet.len <= TotalBytes + 1
        /\ Packet.seq = Signed(SeqOf(Packet.pos))
    BY <1>0, HeadPacket
  <1>3. Held \in Nat /\ TotalBytes \in Nat /\ Signed(ClientIsn) \in Int
    BY <1>0, HeldFacts
  <1>4. Packet.pos + Packet.len \in Int
        /\ Unwrapped(Packet.pos + Packet.len) % Mod = SeqOf(Packet.pos + Packet.len) % Mod
    BY <1>2, UnwrappedMod, SMT
  <1>5. CASE AddData
    <2>1. Packet.pos = Held + 1 /\ recSequence = Unwrapped(Held + 1)
      BY <1>0, <1>1, <1>5, DataAdded
    <2>2. Held' = Held + Packet.len
      BY <1>0, <1>5, HeldGrows
    <2>3. recSequence + Packet.len = Unwrapped(Packet.pos + Packet.len)
      BY <1>2, <1>3, <2>1, SMT DEF Unwrapped
    <2>4. Reply("ack", SeqOf(Packet.pos + Packet.len))
      BY <1>4, <1>5, <2>3 DEF AddData, Reply
    <2>5. Held' \in 0 .. Held' /\ Held' + 1 = Packet.pos + Packet.len
      BY <1>2, <1>3, <2>1, <2>2, SMT
    <2>6. QED
      BY <2>4, <2>5
  <1>6. CASE sendAckForDisorder
    <2>1. PICK f : Leads(f)
      BY <1>1 DEF UploadInv, QueueInv
    <2>2. f[1] = Held
      BY <1>0, <1>1, <1>6, <2>1, DataDropped
    <2>3. Follows(Held, Held, Packet)
      BY <1>0, <2>1, <2>2, HeadFollows
    <2>4. Packet.pos + Packet.len <= Held + 1
      BY <1>0, <1>2, <1>3, <2>3, SMT DEF Follows
    <2>5. Packet.pos \in Nat /\ Packet.pos <= TotalBytes + 2
      BY <1>2, <1>3, SMT
    <2>6. Packet.seq = Unwrapped(Packet.pos)
      BY <1>2, <2>5, NumbersAgree
    <2>7. Packet.seq + Packet.len = Unwrapped(Packet.pos + Packet.len)
      BY <1>2, <1>3, <2>6, SMT DEF Unwrapped
    <2>8. Reply("ack", SeqOf(Packet.pos + Packet.len))
      BY <1>4, <1>6, <2>7 DEF sendAckForDisorder, Reply
    <2>9. Held' = Held
      BY <1>0, <1>6 DEF sendAckForDisorder, Held
    <2> DEFINE n == Packet.pos + Packet.len - 1
    <2>10. n \in 0 .. Held' /\ n + 1 = Packet.pos + Packet.len
      BY <1>2, <1>3, <2>4, <2>9, SMT
    <2>11. QED
      BY <2>8, <2>10
  <1>7. QED
    BY <1>0, <1>5, <1>6

\* The app's TCP reads an acknowledgement.
LEMMA ReceiveStep ==
    ASSUME StaysBelow, UploadInv, RepliesInv, ClientReceive
    PROVE  RepliesInv'
  <1>1. /\ TypeOK /\ UNCHANGED <<written, sendingStream, intact, open, sent, fin>>
        /\ toClient # <<>> /\ toClient' = Tail(toClient) /\ toClient \in Seq(ToClient)
        /\ acked \in 0 .. TotalBytes + 1
    BY DEF ClientReceive, UploadInv, TypeOK, session, socket
  <1>2. Held' = Held /\ Held \in Nat /\ sent \in Nat /\ sent <= TotalBytes
    BY <1>1, HeldFacts DEF Held
  <1>3. TotalBytes \in Nat /\ Mod \in Nat \ {0} /\ TotalBytes + 2 < Mod
    BY Shorter
  <1>4. SUFFICES ASSUME intact, open
                 PROVE  /\ acked' <= Held
                        /\ \A i \in 1 .. Len(toClient') :
                              \E n \in 0 .. Held : toClient'[i].ack = SeqOf(n + 1) % Mod
    BY <1>1, <1>2 DEF RepliesInv, SeqOf, Mod
  <1>5. /\ acked <= Held
        /\ \A i \in 1 .. Len(toClient) : \E n \in 0 .. Held : toClient[i].ack = SeqOf(n + 1) % Mod
    BY <1>4 DEF RepliesInv
  <1>6. /\ Len(toClient) \in Nat /\ Len(toClient) >= 1 /\ Len(toClient') = Len(toClient) - 1
        /\ Head(toClient) = toClient[1]
        /\ \A i \in 1 .. Len(toClient) - 1 : toClient'[i] = toClient[i + 1]
    BY <1>1, TailFacts
  <1>7. \A i \in 1 .. Len(toClient') : \E n \in 0 .. Held : toClient'[i].ack = SeqOf(n + 1) % Mod
    <2>1. ASSUME NEW i \in 1 .. Len(toClient')
          PROVE  i \in 1 .. Len(toClient) - 1 /\ i + 1 \in 1 .. Len(toClient)
      BY <1>6, SMT
    <2>2. QED
      BY <1>5, <1>6, <2>1
  <1>8. acked' <= Held
    <2>1. 1 \in 1 .. Len(toClient)
      BY <1>6, SMT
    <2>2. PICK n \in 0 .. Held : Head(toClient).ack = SeqOf(n + 1) % Mod
      BY <1>5, <1>6, <2>1
    <2> DEFINE new == (Head(toClient).ack - SeqOf(acked + 1)) % Mod
               top == IF fin = "none" THEN sent ELSE sent + 1
    <2>3. acked' = IF Head(toClient).kind # "rst" /\ acked + new <= top THEN acked + new ELSE acked
      BY DEF ClientReceive
    <2>4. Held <= TotalBytes + 1
      <3>1. CASE aborting
        <4>1. dead
          BY <1>4, <3>1 DEF UploadInv, ResetInv
        <4>2. QED
          BY <4>1 DEF ClientReceive
      <3>2. CASE ~aborting
        <4>1. Held <= sent
          BY <1>4, <3>2 DEF UploadInv, PlaceInv, Sound
        <4>2. QED
          BY <1>2, <1>3, <4>1, SMT
      <3>3. QED
        BY <1>1, <3>1, <3>2 DEF TypeOK
    <2>5. n \in Nat /\ acked \in Nat /\ n < Mod /\ acked < Mod
      BY <1>1, <1>2, <1>3, <2>4, SMT
    <2>6. new = IF n >= acked THEN n - acked ELSE Mod + n - acked
      BY <2>2, <2>5, AckMeans
    <2>7. top \in Nat /\ top <= TotalBytes + 1
      BY <1>2, <1>3, SMT
    <2> HIDE DEF new, top
    <2>8. QED
      BY <1>2, <1>3, <1>5, <2>2, <2>3, <2>5, <2>6, <2>7, SMT
  <1>9. QED
    BY <1>7, <1>8

\* Every step keeps acknowledgements within what is held.
LEMMA RepliesStep ==
    ASSUME NeverZero, StaysBelow, UploadInv, RepliesInv, [Next]_vars
    PROVE  RepliesInv'
  <1> USE DEF session, socket, client
  <1>0. TypeOK /\ Held \in Nat
    BY HeldFacts DEF UploadInv
  <1>1. CASE ClientReceive
    BY <1>1, ReceiveStep
  <1>2. CASE HandleData
    <2>1. UNCHANGED <<open, intact, acked, written>>
      BY <1>2 DEF HandleData
    <2>2. SUFFICES ASSUME intact, open
                   PROVE  /\ acked <= Held'
                          /\ \A i \in 1 .. Len(toClient') :
                                \E n \in 0 .. Held' : toClient'[i].ack = SeqOf(n + 1) % Mod
      BY <2>1 DEF RepliesInv, SeqOf, Mod
    <2>3. Held' \in Nat /\ Held <= Held'
      <3>1. CASE AddData
        <4>1. Held' = Held + Packet.len /\ Packet.len \in Nat
          BY <1>2, <2>1, <3>1, HeldGrows, HeadPacket DEF UploadInv, HandleData, KnownSession, NextPacket
        <4>2. QED
          BY <1>0, <4>1, SMT
      <3>2. CASE sendAckForDisorder
        <4>1. Held' = Held
          BY <2>1, <3>2 DEF sendAckForDisorder, Held
        <4>2. QED
          BY <1>0, <4>1, SMT
      <3>3. QED
        BY <1>2, <3>1, <3>2 DEF HandleData
    <2>4. PICK m \in 0 .. Held' : Reply("ack", SeqOf(m + 1))
      BY <1>2, <2>2, DataReply
    <2>5. PICK e \in ToClient : toClient' = Append(toClient, e) /\ e.ack = SeqOf(m + 1) % Mod
      <3>1. SeqOf(m + 1) % Mod \in 0 .. Mod - 1
        BY <2>3, ModFacts, ModDef, SMT DEF SeqOf
      <3>2. [kind |-> "ack", ack |-> SeqOf(m + 1) % Mod] \in ToClient
        BY <3>1 DEF ToClient
      <3>3. QED
        BY <2>4, <3>2 DEF Reply
    <2>6. /\ Len(toClient) \in Nat /\ Len(toClient') = Len(toClient) + 1
          /\ toClient'[Len(toClient) + 1] = e
          /\ \A i \in 1 .. Len(toClient) : toClient'[i] = toClient[i]
      BY <1>0, <2>5, AppendFacts DEF TypeOK
    <2>7. /\ acked <= Held
          /\ \A i \in 1 .. Len(toClient) : \E n \in 0 .. Held : toClient[i].ack = SeqOf(n + 1) % Mod
      BY <2>2 DEF RepliesInv
    <2>8. acked <= Held'
      BY <1>0, <2>3, <2>7, SMT DEF TypeOK
    <2>9. ASSUME NEW i \in 1 .. Len(toClient')
          PROVE  \E n \in 0 .. Held' : toClient'[i].ack = SeqOf(n + 1) % Mod
      <3>1. CASE i = Len(toClient) + 1
        BY <2>4, <2>5, <2>6, <3>1
      <3>2. CASE i # Len(toClient) + 1
        <4>1. i \in 1 .. Len(toClient)
          BY <2>6, <3>2, SMT
        <4>2. PICK n \in 0 .. Held : toClient[i].ack = SeqOf(n + 1) % Mod
          BY <2>7, <4>1
        <4>3. n \in 0 .. Held'
          BY <1>0, <2>3, SMT
        <4>4. QED
          BY <2>6, <4>1, <4>2, <4>3
      <3>3. QED
        BY <3>1, <3>2
    <2>10. QED
      BY <2>8, <2>9
  <1>3. CASE HandleAck \/ HandleRst \/ NioNoWrite \/ UpstreamFail \/ ClientSend \/ UNCHANGED vars
    <2>1. UNCHANGED <<written, sendingStream, open, acked, toClient>> /\ (intact' => intact)
      <3>1. CASE HandleAck
        BY <3>1 DEF HandleAck
      <3>2. CASE HandleRst \/ NioNoWrite \/ UpstreamFail \/ UNCHANGED vars
        BY <3>2 DEF HandleRst, NioNoWrite, UpstreamFail, vars
      <3>3. CASE ClientSend
        <4>1. PICK flag \in {"none", "fin", "rst"}, psh \in BOOLEAN, pos \in Nat, len \in 0 .. MaxLen :
                 ClientPacket(flag, psh, pos, len)
          BY <1>0, <3>3, ClientSends
        <4>2. QED
          BY <4>1 DEF ClientPacket
      <3>4. QED
        BY <1>3, <3>1, <3>2, <3>3
    <2>2. Held' = Held
      BY <2>1 DEF Held
    <2>3. QED
      BY <2>1, <2>2 DEF RepliesInv, SeqOf, Mod
  <1>4. CASE NioWrite
    <2>1. /\ open /\ UNCHANGED <<intact, acked, toClient>>
          /\ written' = written \o sendingStream /\ sendingStream' = <<>>
      BY <1>4 DEF NioWrite, WritePending
    <2>2. written \in Seq(1 .. TotalBytes) /\ sendingStream \in Seq(1 .. TotalBytes) /\ 0 \in Nat
      BY <1>0 DEF TypeOK
    <2>3. Len(written \o sendingStream) = Held /\ Len(<<>>) = 0
      BY <2>2, ConcatRuns, EmptySeq DEF Held
    <2>4. Held' = Held
      BY <1>0, <2>1, <2>3, SMT DEF Held
    <2>5. QED
      BY <2>1, <2>4 DEF RepliesInv, SeqOf, Mod
  <1>5. CASE HandleFin \/ HandleUnknown \/ NioWritePart \/ NioWriteFail \/ NioReadEnds
    <2>1. ~open' \/ ~intact'
      BY <1>5 DEF HandleFin, HandleUnknown, NioWritePart, NioWriteFail, NioReadEnds
    <2>2. QED
      BY <2>1 DEF RepliesInv
  <1>6. QED
    BY <1>1, <1>2, <1>3, <1>4, <1>5 DEF Next, Handler, Writer, Client, ClientSend

-----------------------------------------------------------------------------
(* The theorems. *)

\* Type correctness of the upload path.
THEOREM UploadTypes == Spec => []TypeOK
  <1>1. Init => TypeOK /\ PacketInv
    BY InitUpload DEF UploadInv
  <1>2. TypeOK /\ PacketInv /\ [Next]_vars => (TypeOK /\ PacketInv)'
    BY TypeStep, PacketStep
  <1>3. QED
    BY <1>1, <1>2, PTL DEF Spec

\* Every step keeps the invariant.
LEMMA UploadStep ==
    ASSUME NeverZero, StaysBelow, UploadInv, [Next]_vars
    PROVE  UploadInv'
  <1>1. TypeOK' /\ PacketInv' /\ ResetInv'
    BY TypeStep, PacketStep, ResetStep DEF UploadInv
  <1>2. StreamInv' /\ PlaceInv' /\ QueueInv'
    BY StepKinds, DataStep, AckStep, EndStep, SendStep, ElsewhereStep DEF Handler
  <1>3. QED
    BY <1>1, <1>2 DEF UploadInv

\* What an undisturbed session has written is a prefix.
LEMMA UploadPrefix == UploadInv => IntactIsPrefix
  <1> SUFFICES ASSUME UploadInv, intact PROVE written = Bytes(1, Len(written))
    BY DEF IntactIsPrefix, WrittenIsPrefix
  <1>1. PICK n \in Nat : n = Len(written)
    BY HeldFacts DEF UploadInv
  <1>2. \A i \in 1 .. n : written[i] = 0 + i
    BY <1>1 DEF UploadInv, StreamInv, Runs
  <1>3. written = [i \in 1 .. n |-> written[i]]
    BY <1>1, SMT DEF UploadInv, TypeOK
  <1>4. n - 1 + 1 = n /\ \A i \in 1 .. n : 1 + i - 1 = 0 + i
    BY SMT
  <1>5. Bytes(1, n) = [i \in 1 .. n |-> 0 + i]
    BY <1>4 DEF Bytes
  <1>6. QED
    BY <1>1, <1>2, <1>3, <1>5

\* A session whose numbers stay below 2^31 and never pass 0 writes a prefix of
\* the app's stream to the upstream socket, whatever is retransmitted, closed,
\* reset or fails, until a write is cut short or a probe is taken for an
\* acknowledgement; for every initial sequence number, packet size and queue.
THEOREM UploadsIntact ==
    ASSUME NeverZero, StaysBelow
    PROVE  Spec => []IntactIsPrefix
  <1>1. UploadInv /\ [Next]_vars => UploadInv'
    BY UploadStep
  <1>2. QED
    BY <1>1, InitUpload, UploadPrefix, PTL DEF Spec

\* What the app's TCP has an acknowledgement for, the engine has taken, until
\* an end is reached, a write is cut short or a probe is taken for an
\* acknowledgement: handleTCPPacket drops only what it holds already, in every
\* connection whose numbers stay below 2^31 and never pass 0.
THEOREM AcknowledgedIsTaken ==
    ASSUME NeverZero, StaysBelow
    PROVE  Spec => []AckedIsTaken
  <1>1. Init => UploadInv /\ RepliesInv
    <2>1. Init => RepliesInv
      BY SMT DEF Init, RepliesInv, Held
    <2>2. QED
      BY <2>1, InitUpload
  <1>2. UploadInv /\ RepliesInv /\ [Next]_vars => UploadInv' /\ RepliesInv'
    BY UploadStep, RepliesStep
  <1>3. RepliesInv => AckedIsTaken
    BY DEF RepliesInv, AckedIsTaken
  <1>4. QED
    BY <1>1, <1>2, <1>3, PTL DEF Spec

\* Without a socket that takes less than a write and without probes nothing
\* disturbs a session: the upstream host of a connection whose numbers stay
\* below 2^31 and never pass 0 receives a prefix of what the app sent.
THEOREM UploadsWhole ==
    ASSUME NeverZero, StaysBelow, ~SocketFills, ~KeepAlives
    PROVE  Spec => []WrittenIsPrefix
  <1>1. UploadInv /\ intact /\ [Next]_vars => UploadInv' /\ intact'
    <2> SUFFICES ASSUME UploadInv, intact, [Next]_vars PROVE intact'
      BY UploadStep
    <2>1. CASE HandleAck
      <3>1. /\ TypeOK /\ PacketInv /\ ResetInv /\ QueueInv
            /\ KnownSession /\ fromClient # <<>> /\ Packet.len = 0
            /\ intact' = (intact /\ (recSequence' = recSequence \/ Packet.pos > Held))
        BY <2>1 DEF UploadInv, HandleAck, KnownSession, NextPacket
      <3>2. PICK f : Leads(f)
        BY <3>1, PacketMeansSound DEF QueueInv
      <3>3. Follows(Held, f[1], Packet)
        BY <3>1, <3>2, HeadFollows
      <3>4. Packet.pos > Held
        BY <3>1, <3>3, HeldFacts, SMT DEF Follows
      <3>5. QED
        BY <3>1, <3>4
    <2>2. CASE ~HandleAck
      BY <2>2 DEF Next, Handler, Writer, Client, HandleData, HandleFin, HandleRst, HandleUnknown,
                  NioNoWrite, NioWrite, NioWritePart, NioWriteFail, NioReadEnds, UpstreamFail,
                  ClientData, ClientAck, ClientRetransmit, ClientKeepAlive, ClientFin,
                  ClientRetransmitFin, ClientReset, ClientReceive, ClientPacket,
                  vars, session, socket, client
    <2>3. QED
      BY <2>1, <2>2
  <1>2. Init => UploadInv /\ intact
    BY InitUpload DEF Init
  <1>3. UploadInv /\ intact => WrittenIsPrefix
    BY UploadPrefix DEF IntactIsPrefix
  <1>4. QED
    BY <1>1, <1>2, <1>3, PTL DEF Spec
=============================================================================
