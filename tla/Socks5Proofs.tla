---------------------------- MODULE Socks5Proofs ----------------------------
(* Proofs about the SOCKS5 client, for every size of a byte that can hold  *)
(* the codes, every set of addresses and any number of relayed bytes.      *)
EXTENDS Socks5, SequenceTheorems, TLAPS

(* What write_to writes can be taken apart again: the fields are where the *)
(* proxy looks for them.                                                   *)
LEMMA PortSplits ==
  ASSUME NEW n \in Port
  PROVE  /\ (n \div Base) * Base + (n % Base) = n
         /\ n \div Base \in Nat /\ n % Base \in Nat
BY ByteAssumption DEF Port

(* A host field between a prefix and a port, by position.                  *)
Laid(pre, host, hi, lo) == (pre \o host) \o <<hi, lo>>

LaidOut(b, pre, host, hi, lo) ==
  /\ b \in Seq(Nat)
  /\ Len(b) = Len(pre) + Len(host) + 2
  /\ \A i \in 1 .. Len(pre) : b[i] = pre[i]
  /\ b[Len(pre) + Len(host) + 1] = hi
  /\ b[Len(pre) + Len(host) + 2] = lo
  /\ SubSeq(b, Len(pre) + 1, Len(pre) + Len(host)) = host

LEMMA Layout ==
  ASSUME NEW pre \in Seq(Nat), NEW host \in Seq(Nat), NEW hi \in Nat, NEW lo \in Nat
  PROVE  LaidOut(Laid(pre, host, hi, lo), pre, host, hi, lo)
<1> DEFINE ph == pre \o host
           b == ph \o <<hi, lo>>
<1>0. Len(pre) \in Nat /\ Len(host) \in Nat /\ <<hi, lo>> \in Seq(Nat)
      /\ Len(<<hi, lo>>) = 2
  OBVIOUS
<1>1. /\ ph \in Seq(Nat) /\ Len(ph) = Len(pre) + Len(host)
      /\ \A i \in 1 .. Len(pre) + Len(host) :
            ph[i] = IF i <= Len(pre) THEN pre[i] ELSE host[i - Len(pre)]
  BY ConcatProperties
<1>2. /\ b \in Seq(Nat) /\ Len(b) = Len(ph) + 2
      /\ \A i \in 1 .. Len(ph) + 2 :
            b[i] = IF i <= Len(ph) THEN ph[i] ELSE <<hi, lo>>[i - Len(ph)]
  BY <1>0, <1>1, ConcatProperties
<1> HIDE DEF ph, b
<1>3. /\ Len(b) = Len(pre) + Len(host) + 2
      /\ \A i \in 1 .. Len(pre) : b[i] = pre[i]
      /\ \A i \in 1 .. Len(host) : b[Len(pre) + i] = host[i]
  <2>1. Len(b) = Len(pre) + Len(host) + 2
    BY <1>0, <1>1, <1>2
  <2>2. ASSUME NEW i \in 1 .. Len(pre) PROVE b[i] = pre[i]
    <3>1. i \in 1 .. Len(ph) + 2 /\ i \in 1 .. Len(pre) + Len(host)
          /\ i <= Len(ph) /\ i <= Len(pre)
      BY <1>0, <1>1
    <3> QED BY <1>1, <1>2, <3>1
  <2>3. ASSUME NEW i \in 1 .. Len(host) PROVE b[Len(pre) + i] = host[i]
    <3> DEFINE k == Len(pre) + i
    <3>1. k \in 1 .. Len(ph) + 2 /\ k \in 1 .. Len(pre) + Len(host)
          /\ k <= Len(ph) /\ ~(k <= Len(pre)) /\ k - Len(pre) = i
      BY <1>0, <1>1
    <3> HIDE DEF k
    <3>2. b[k] = host[i]
      BY <1>1, <1>2, <3>1
    <3> QED BY <3>2 DEF k
  <2> QED BY <2>1, <2>2, <2>3
<1>4. /\ b[Len(pre) + Len(host) + 1] = hi
      /\ b[Len(pre) + Len(host) + 2] = lo
  <2> DEFINE k == Len(pre) + Len(host)
  <2>1. /\ k = Len(ph) /\ k + 1 \in 1 .. Len(ph) + 2 /\ k + 2 \in 1 .. Len(ph) + 2
        /\ ~(k + 1 <= Len(ph)) /\ ~(k + 2 <= Len(ph))
        /\ (k + 1) - Len(ph) = 1 /\ (k + 2) - Len(ph) = 2
    BY <1>0, <1>1
  <2>2. b[k + 1] = <<hi, lo>>[1] /\ b[k + 2] = <<hi, lo>>[2]
    <3> HIDE DEF k
    <3> QED BY <1>2, <2>1
  <2> QED BY <2>2
<1>5. SubSeq(b, Len(pre) + 1, Len(pre) + Len(host)) = host
  <2> DEFINE m == Len(pre) + 1
             n == Len(pre) + Len(host)
             s == SubSeq(b, m, n)
  <2>1. ASSUME NEW i \in m .. n PROVE b[i] \in Nat
    <3>1. i \in 1 .. Len(b)
      BY <1>0, <1>3
    <3> QED BY <1>2, <3>1, ElementOfSeq
  <2>2. /\ s \in Seq(Nat)
        /\ Len(s) = IF m <= n THEN n - m + 1 ELSE 0
        /\ \A i \in 1 .. n - m + 1 : s[i] = b[m + i - 1]
    BY <1>0, <2>1, SubSeqProperties, m \in Int, n \in Int
  <2>3. Len(s) = Len(host)
    BY <1>0, <2>2
  <2>4. ASSUME NEW i \in 1 .. Len(s) PROVE s[i] = host[i]
    <3>1. i \in 1 .. n - m + 1 /\ i \in 1 .. Len(host) /\ m + i - 1 = Len(pre) + i
      BY <1>0, <2>3
    <3> QED BY <1>3, <2>2, <3>1
  <2> QED BY <2>2, <2>3, <2>4, SeqEqual
<1>6. b = Laid(pre, host, hi, lo)
  BY DEF Laid, ph, b
<1> QED BY <1>2, <1>3, <1>4, <1>5, <1>6 DEF LaidOut

LEMMA SmallRemainder ==
  ASSUME NEW n \in Nat, NEW b \in Nat, n < b
  PROVE  n % b = n
OBVIOUS

(* The four fixed bytes, and the length byte of a name.                    *)
LEMMA Prefix ==
  ASSUME NEW k \in Nat, NEW n \in Nat
  PROVE  LET pre == <<SOCKS5_VERSION, SOCKS5_CMD_TCP_CONNECT, 0, k>>
             long == pre \o <<n>>
         IN /\ pre \in Seq(Nat) /\ Len(pre) = 4 /\ pre[4] = k
            /\ long \in Seq(Nat) /\ Len(long) = 5 /\ long[4] = k /\ long[5] = n
<1> DEFINE pre == <<SOCKS5_VERSION, SOCKS5_CMD_TCP_CONNECT, 0, k>>
           one == <<n>>
<1>1. pre \in Seq(Nat) /\ Len(pre) = 4 /\ pre[4] = k
  BY DEF SOCKS5_VERSION, SOCKS5_CMD_TCP_CONNECT
<1>2. one \in Seq(Nat) /\ Len(one) = 1 /\ one[1] = n
  OBVIOUS
<1> HIDE DEF pre, one
<1>3. /\ pre \o one \in Seq(Nat) /\ Len(pre \o one) = Len(pre) + Len(one)
      /\ \A i \in 1 .. Len(pre) + Len(one) :
           (pre \o one)[i] = IF i <= Len(pre) THEN pre[i] ELSE one[i - Len(pre)]
  BY <1>1, <1>2, ConcatProperties
<1>4. (pre \o one)[4] = k /\ (pre \o one)[5] = n /\ Len(pre \o one) = 5
  <2>1. 4 \in 1 .. Len(pre) + Len(one) /\ 5 \in 1 .. Len(pre) + Len(one)
        /\ 4 <= Len(pre) /\ ~(5 <= Len(pre)) /\ 5 - Len(pre) = 1
    BY <1>1, <1>2
  <2>2. (pre \o one)[4] = pre[4]
    BY <1>3, <2>1
  <2>3. (pre \o one)[5] = one[1]
    BY <1>3, <2>1
  <2>4. Len(pre \o one) = 5
    BY <1>1, <1>2, <1>3
  <2> QED BY <1>1, <1>2, <2>2, <2>3, <2>4
<1> QED BY <1>1, <1>3, <1>4 DEF pre, one

(* What the proxy reads depends only on where the host starts.             *)
Reads(b, k, h, p) ==
  /\ Parsed(b) = [atyp |-> k, host |-> h, port |-> p]
  /\ Len(b) = PortFirst(b) + 1

LEMMA FieldsFound ==
  ASSUME NEW k \in {IPV4, IPV6, DOMAIN_NAME}, NEW h \in Seq(Nat), NEW p \in Port,
         NEW pre \in Seq(Nat),
         k = IPV4 => Len(h) = 4, k = IPV6 => Len(h) = 16,
         Len(pre) = IF k = DOMAIN_NAME THEN 5 ELSE 4,
         pre[4] = k, k = DOMAIN_NAME => pre[5] = Len(h)
  PROVE  Reads((pre \o h) \o PutU16(p), k, h, p)
<1> DEFINE hi == p \div Base
           lo == p % Base
           b == Laid(pre, h, hi, lo)
<1>1. hi \in Nat /\ lo \in Nat /\ hi * Base + lo = p
  BY PortSplits
<1> HIDE DEF hi, lo
<1>2. LaidOut(b, pre, h, hi, lo)
  BY <1>1, Layout
<1>3. Len(pre) \in Nat /\ Len(h) \in Nat
  OBVIOUS
<1> HIDE DEF b
<1>4. b[4] = k /\ (k = DOMAIN_NAME => b[5] = Len(h))
  BY <1>2, 4 \in 1 .. Len(pre), k = DOMAIN_NAME => 5 \in 1 .. Len(pre)
     DEF LaidOut
<1>5. HostFirst(b) = Len(pre) + 1 /\ HostLen(b) = Len(h)
  BY <1>3, <1>4 DEF HostFirst, HostLen, IPV4, IPV6, DOMAIN_NAME
<1>6. /\ PortFirst(b) = Len(pre) + Len(h) + 1
      /\ PortFirst(b) - 1 = Len(pre) + Len(h)
      /\ PortFirst(b) + 1 = Len(pre) + Len(h) + 2
  BY <1>3, <1>5 DEF PortFirst
<1>7. Parsed(b) = [atyp |-> k, host |-> h, port |-> p]
  BY <1>1, <1>2, <1>4, <1>5, <1>6 DEF Parsed, LaidOut
<1>8. Len(b) = PortFirst(b) + 1
  BY <1>2, <1>6 DEF LaidOut
<1>9. b = pre \o h \o PutU16(p)
  BY DEF b, hi, lo, PutU16, Laid
<1> QED BY <1>7, <1>8, <1>9 DEF Reads

(* Socks5TcpRequest::write_to is correct for every address whose host fits *)
(* the length byte: the proxy reads the same address, and reads it whole.  *)
THEOREM RequestParses ==
  ASSUME NEW t \in Socks5Addr, Len(t.host) < Base
  PROVE  /\ Parsed(Request(t)) = t
         /\ Len(Request(t)) = PortFirst(Request(t)) + 1
<1> DEFINE k == t.atyp
           h == t.host
           p == t.port
           fixed == <<SOCKS5_VERSION, SOCKS5_CMD_TCP_CONNECT, 0, k>>
<1>1. /\ t = [atyp |-> k, host |-> h, port |-> p]
      /\ k \in {IPV4, IPV6, DOMAIN_NAME} /\ h \in Seq(Byte) /\ p \in Port
      /\ k = IPV4 => Len(h) = 4
      /\ k = IPV6 => Len(h) = 16
      /\ Len(h) < Base
  BY DEF Socks5Addr
<1>2. Request(t) = fixed \o (IF k = DOMAIN_NAME THEN LengthByte(h) \o h ELSE h)
                         \o PutU16(p)
  BY DEF Request, HostField
<1> HIDE DEF k, h, p
<1>3. h \in Seq(Nat) /\ Len(h) \in Nat
  <2>1. Byte \subseteq Nat
    BY ByteAssumption DEF Byte
  <2>2. h \in Seq(Byte)
    BY <1>1
  <2>3. h \in Seq(Nat)
    BY <2>1, <2>2, SeqMonotonic
  <2> QED BY <2>3
<1>4. k \in Nat
  BY <1>1 DEF IPV4, IPV6, DOMAIN_NAME
<1>5. LengthByte(h) = <<Len(h)>>
  BY <1>1, <1>3, SmallRemainder, ByteAssumption DEF LengthByte
<1> DEFINE pre == IF k = DOMAIN_NAME THEN fixed \o <<Len(h)>> ELSE fixed
<1>6. /\ fixed \in Seq(Nat) /\ Len(fixed) = 4 /\ fixed[4] = k
      /\ fixed \o <<Len(h)>> \in Seq(Nat) /\ Len(fixed \o <<Len(h)>>) = 5
      /\ (fixed \o <<Len(h)>>)[4] = k /\ (fixed \o <<Len(h)>>)[5] = Len(h)
  BY <1>3, <1>4, Prefix
<1> HIDE DEF fixed
<1>7. fixed \o (<<Len(h)>> \o h) = (fixed \o <<Len(h)>>) \o h
  <2>1. <<Len(h)>> \in Seq(Nat)
    BY <1>3
  <2>2. fixed \in Seq(Nat) /\ h \in Seq(Nat)
    BY <1>3, <1>6
  <2> DEFINE one == <<Len(h)>>
  <2> HIDE DEF one
  <2>3. one \in Seq(Nat)
    BY <2>1 DEF one
  <2>4. fixed \o (one \o h) = (fixed \o one) \o h
    BY <2>2, <2>3
  <2> QED BY <2>4 DEF one
<1>8. Request(t) = pre \o h \o PutU16(p)
  BY <1>2, <1>5, <1>7
<1>9. /\ pre \in Seq(Nat) /\ Len(pre) = IF k = DOMAIN_NAME THEN 5 ELSE 4
      /\ pre[4] = k /\ (k = DOMAIN_NAME => pre[5] = Len(h))
  BY <1>6
<1> HIDE DEF pre
<1>10. Reads((pre \o h) \o PutU16(p), k, h, p)
  BY <1>1, <1>3, <1>9, FieldsFound
<1> QED BY <1>1, <1>8, <1>10 DEF Reads
-----------------------------------------------------------------------------
(* The unread stream is n bytes of the response and then the r bytes that  *)
(* were relayed.                                                           *)
Trails(s, n, r) ==
  /\ Len(s) = n + r
  /\ \A i \in 1 .. r : s[n + i] = -i

FieldLen(atyp) == IF atyp = IPV4 THEN 6 ELSE IF atyp = IPV6 THEN 18 ELSE 4

Asked == {"ReadReply", "ReadBound", "Connected"}

(* What each side still has to read, for every pair of states.             *)
IInv ==
  /\ addr \in Target /\ stream \in Seq(Int) /\ arrived \in 0 .. Len(stream)
  /\ relayed \in Nat /\ granted \in BOOLEAN
  /\ proxy \in {"Greeting", "Request", "Relay", "Over"}
  /\ client \in Asked => sent = Request(addr)
  /\ client = "Connect" => proxy = "Greeting" /\ sent = <<>>
  /\ proxy = "Greeting" => stream = <<>> /\ client \notin Asked
  /\ granted <=> proxy = "Relay"
  /\ ~granted => relayed = 0
  /\ (client = "ReadMethod" /\ proxy # "Greeting")
       => /\ proxy \in {"Request", "Over"} /\ Len(stream) = 2
          /\ MethodChosen(stream) <=> proxy = "Request"
  /\ (client = "ReadReply" /\ proxy = "Request") => stream = <<>>
  /\ (client = "ReadReply" /\ proxy # "Request")
       => /\ Trails(stream, 4 + FieldLen(stream[4]), relayed)
          /\ granted <=> (stream[1] = SOCKS5_VERSION
                            /\ stream[2] = SOCKS5_REPLY_SUCCEEDED)
  /\ client = "ReadBound"
       => /\ proxy # "Request" /\ buf[4] \in {IPV4, IPV6}
          /\ Trails(stream, FieldLen(buf[4]), relayed)
          /\ granted <=> buf[2] = SOCKS5_REPLY_SUCCEEDED
  /\ client = "Connected" => granted /\ Trails(stream, 0, relayed)

(* read_exact leaves what follows in place.                                *)
LEMMA Cut ==
  ASSUME NEW s \in Seq(Int), NEW n \in Nat, NEW m \in 0 .. n, NEW r \in Nat,
         Trails(s, n, r)
  PROVE  LET c == SubSeq(s, m + 1, Len(s)) IN
         c \in Seq(Int) /\ Len(c) = Len(s) - m /\ Trails(c, n - m, r)
<1> DEFINE c == SubSeq(s, m + 1, Len(s))
<1>1. Len(s) \in Nat /\ Len(s) = n + r
  BY DEF Trails
<1>2. ASSUME NEW i \in m + 1 .. Len(s) PROVE s[i] \in Int
  BY <1>1, ElementOfSeq, i \in 1 .. Len(s)
<1>3. /\ c \in Seq(Int)
      /\ Len(c) = IF m + 1 <= Len(s) THEN Len(s) - (m + 1) + 1 ELSE 0
      /\ \A i \in 1 .. Len(s) - (m + 1) + 1 : c[i] = s[(m + 1) + i - 1]
  BY <1>1, <1>2, SubSeqProperties, m + 1 \in Int
<1> HIDE DEF c
<1>4. Len(c) = Len(s) - m
  BY <1>1, <1>3
<1>5. ASSUME NEW i \in 1 .. r PROVE c[(n - m) + i] = -i
  <2>1. /\ (n - m) + i \in 1 .. Len(s) - (m + 1) + 1
        /\ (m + 1) + ((n - m) + i) - 1 = n + i
    BY <1>1
  <2> QED BY <1>3, <2>1 DEF Trails
<1> QED BY <1>1, <1>3, <1>4, <1>5 DEF Trails, c

(* A relayed byte goes to the end.                                         *)
LEMMA Grow ==
  ASSUME NEW s \in Seq(Int), NEW n \in Nat, NEW r \in Nat, Trails(s, n, r)
  PROVE  LET c == s \o <<-(r + 1)>> IN
         /\ c \in Seq(Int) /\ Len(c) = Len(s) + 1 /\ Trails(c, n, r + 1)
         /\ \A i \in 1 .. Len(s) : c[i] = s[i]
<1> DEFINE one == <<-(r + 1)>>
           c == s \o one
<1>1. one \in Seq(Int) /\ Len(one) = 1 /\ one[1] = -(r + 1)
  OBVIOUS
<1>2. Len(s) \in Nat /\ Len(s) = n + r
  BY DEF Trails
<1> HIDE DEF one
<1>3. /\ c \in Seq(Int) /\ Len(c) = Len(s) + Len(one)
      /\ \A i \in 1 .. Len(s) + Len(one) :
           c[i] = IF i <= Len(s) THEN s[i] ELSE one[i - Len(s)]
  BY <1>1, ConcatProperties
<1> HIDE DEF c
<1>4. ASSUME NEW i \in 1 .. r + 1 PROVE c[n + i] = -i
  <2>1. CASE i <= r
    BY <1>1, <1>2, <1>3, <2>1, n + i \in 1 .. Len(s) + Len(one), n + i <= Len(s),
       i \in 1 .. r DEF Trails
  <2>2. CASE i = r + 1
    BY <1>1, <1>2, <1>3, <2>2, n + i \in 1 .. Len(s) + Len(one), ~(n + i <= Len(s)),
       (n + i) - Len(s) = 1
  <2> QED BY <2>1, <2>2
<1>5. ASSUME NEW i \in 1 .. Len(s) PROVE c[i] = s[i]
  BY <1>1, <1>2, <1>3, i \in 1 .. Len(s) + Len(one), i <= Len(s)
<1> QED BY <1>1, <1>2, <1>3, <1>4, <1>5 DEF Trails, c, one

(* The response as the proxy sends it, before anything is relayed.         *)
LEMMA ResponseLaid ==
  ASSUME NEW v \in Byte, NEW c \in Byte, NEW a \in Byte
  PROVE  LET s == <<>> \o (<<v, c, 0, a>> \o BoundField(a)) IN
         /\ s \in Seq(Int) /\ s[1] = v /\ s[2] = c /\ s[4] = a
         /\ Trails(s, 4 + FieldLen(a), 0)
<1> DEFINE head == <<v, c, 0, a>>
           field == BoundField(a)
           s == head \o field
<1>1. v \in Int /\ c \in Int /\ a \in Int
  BY ByteAssumption DEF Byte
<1>2. /\ head \in Seq(Int) /\ Len(head) = 4
      /\ head[1] = v /\ head[2] = c /\ head[4] = a
  BY <1>1
<1>3. field \in Seq(Int) /\ Len(field) = FieldLen(a) /\ FieldLen(a) \in Nat
  BY DEF BoundField, FieldLen
<1> HIDE DEF head, field
<1>4. /\ s \in Seq(Int) /\ Len(s) = Len(head) + Len(field)
      /\ \A i \in 1 .. Len(head) + Len(field) :
           s[i] = IF i <= Len(head) THEN head[i] ELSE field[i - Len(head)]
  BY <1>2, <1>3, ConcatProperties
<1>5. s[1] = v /\ s[2] = c /\ s[4] = a
  BY <1>2, <1>3, <1>4
<1>6. Trails(s, 4 + FieldLen(a), 0)
  BY <1>2, <1>3, <1>4 DEF Trails
<1>7. <<>> \o s = s
  BY <1>4, ConcatEmptySeq
<1> QED BY <1>4, <1>5, <1>6, <1>7 DEF head, field

LEMMA MethodKeeps ==
  ASSUME IInv, ReadMethod
  PROVE  IInv'
<1> USE DEF Asked
<1>1. /\ arrived >= 2 /\ stream \in Seq(Int) /\ arrived \in 0 .. Len(stream)
      /\ Len(stream) \in Nat /\ client = "ReadMethod"
  BY DEF IInv, ReadMethod, ReadExact
<1>2. proxy # "Greeting"
  BY <1>1, EmptySeq DEF IInv
<1>3. Len(stream) = 2 /\ (MethodChosen(stream) <=> proxy = "Request")
      /\ proxy \in {"Request", "Over"} /\ relayed = 0 /\ ~granted
  BY <1>1, <1>2 DEF IInv
<1>4. stream' = <<>> /\ arrived' = 0
  <2>1. stream' = SubSeq(stream, 3, 2) /\ arrived' = 0
    BY <1>1, <1>3 DEF ReadMethod, ReadExact
  <2> QED BY <2>1, SubSeqEmpty
<1>5. CASE MethodChosen(stream)
  BY <1>1, <1>3, <1>4, <1>5, EmptySeq DEF IInv, ReadMethod, proxyVars
<1>6. CASE ~MethodChosen(stream)
  BY <1>1, <1>3, <1>4, <1>6, EmptySeq DEF IInv, ReadMethod, proxyVars
<1> QED BY <1>5, <1>6

LEMMA ReplyKeeps ==
  ASSUME IInv, ReadReply
  PROVE  IInv'
<1> USE DEF Asked
<1>1. /\ arrived >= 4 /\ stream \in Seq(Int) /\ arrived \in 0 .. Len(stream)
      /\ Len(stream) \in Nat /\ client = "ReadReply" /\ relayed \in Nat
  BY DEF IInv, ReadReply, ReadExact
<1>2. proxy # "Request" /\ proxy # "Greeting"
  BY <1>1, EmptySeq DEF IInv
<1>3. /\ Trails(stream, 4 + FieldLen(stream[4]), relayed)
      /\ granted <=> (stream[1] = SOCKS5_VERSION
                        /\ stream[2] = SOCKS5_REPLY_SUCCEEDED)
  BY <1>1, <1>2 DEF IInv
<1> DEFINE f == FieldLen(stream[4])
<1>4. f \in Nat
  BY DEF FieldLen
<1>5. /\ stream' \in Seq(Int) /\ Len(stream') = Len(stream) - 4
      /\ Trails(stream', f, relayed)
  <2>1. Trails(stream, 4 + f, relayed) /\ 4 + f \in Nat /\ 4 \in 0 .. 4 + f
        /\ (4 + f) - 4 = f
    BY <1>3, <1>4
  <2>2. stream' = SubSeq(stream, 4 + 1, Len(stream))
    BY DEF ReadReply, ReadExact
  <2> HIDE DEF f
  <2> QED BY <1>1, <2>1, <2>2, Cut
<1>6. buf'[1] = stream[1] /\ buf'[2] = stream[2] /\ buf'[4] = stream[4]
  <2>1. buf' = SubSeq(stream, 1, 4)
    BY DEF ReadReply
  <2>2. \A i \in 1 .. 4 : stream[i] \in Int
    BY <1>1, ElementOfSeq
  <2>3. \A i \in 1 .. 4 - 1 + 1 : buf'[i] = stream[1 + i - 1]
    BY <2>1, <2>2, SubSeqProperties
  <2> QED BY <2>3
<1>7. arrived' \in 0 .. Len(stream')
  BY <1>1, <1>5 DEF ReadReply, ReadExact
<1> HIDE DEF f
<1>8. CASE client' = "ReadBound"
  <2>1. stream[1] = SOCKS5_VERSION /\ stream[4] \in {IPV4, IPV6}
    BY <1>8 DEF ReadReply, AfterReply
  <2> QED BY <1>1, <1>2, <1>3, <1>5, <1>6, <1>7, <1>8, <2>1
          DEF IInv, ReadReply, proxyVars, f
<1>9. CASE client' \in {"Error", "Panicked"}
  BY <1>1, <1>2, <1>5, <1>7, <1>9 DEF IInv, ReadReply, proxyVars
<1> QED BY <1>8, <1>9 DEF ReadReply, AfterReply

LEMMA BoundKeeps ==
  ASSUME IInv, ReadBound
  PROVE  IInv'
<1> USE DEF Asked
<1> DEFINE f == FieldLen(buf[4])
<1>1. /\ stream \in Seq(Int) /\ arrived \in 0 .. Len(stream) /\ Len(stream) \in Nat
      /\ client = "ReadBound" /\ relayed \in Nat /\ proxy # "Request"
      /\ proxy # "Greeting" /\ Trails(stream, f, relayed)
      /\ granted <=> buf[2] = SOCKS5_REPLY_SUCCEEDED
  BY DEF IInv, ReadBound
<1>2. BoundLen(buf[4]) = f /\ f \in Nat
  BY DEF IInv, ReadBound, BoundLen, FieldLen, IPV4, IPV6
<1> HIDE DEF f
<1>3. stream' = SubSeq(stream, f + 1, Len(stream)) /\ arrived >= f
      /\ arrived' = arrived - f
  BY <1>2 DEF ReadBound, ReadExact
<1>4. /\ stream' \in Seq(Int) /\ Len(stream') = Len(stream) - f
      /\ Trails(stream', 0, relayed)
  <2>1. f \in 0 .. f /\ f - f = 0
    BY <1>2
  <2> QED BY <1>1, <1>2, <1>3, <2>1, Cut
<1>5. arrived' \in 0 .. Len(stream')
  BY <1>1, <1>2, <1>3, <1>4
<1> QED BY <1>1, <1>4, <1>5 DEF IInv, ReadBound, Succeeded, proxyVars

LEMMA RelayKeeps ==
  ASSUME IInv, Relay
  PROVE  IInv'
<1> USE DEF Asked
<1>1. /\ stream \in Seq(Int) /\ arrived \in 0 .. Len(stream) /\ Len(stream) \in Nat
      /\ relayed \in Nat /\ proxy = "Relay" /\ granted
      /\ stream' = stream \o <<-(relayed + 1)>> /\ relayed' = relayed + 1
      /\ UNCHANGED <<client, addr, sent, buf, arrived, proxy, granted>>
  BY DEF IInv, Relay, Sends, clientVars
<1>2. stream' \in Seq(Int) /\ Len(stream') = Len(stream) + 1
  BY <1>1
<1>3. arrived' \in 0 .. Len(stream')
  BY <1>1, <1>2
<1>4. client # "ReadMethod" /\ client # "Connect"
  BY <1>1 DEF IInv
<1>5. CASE client = "ReadReply"
  <2> DEFINE f == FieldLen(stream[4])
  <2>1. Trails(stream, 4 + f, relayed) /\ f \in Nat /\ f >= 4
    BY <1>1, <1>5 DEF IInv, FieldLen
  <2> HIDE DEF f
  <2>2. Trails(stream', 4 + f, relayed') /\ \A i \in 1 .. Len(stream) : stream'[i] = stream[i]
    BY <1>1, <2>1, Grow
  <2>3. stream'[1] = stream[1] /\ stream'[2] = stream[2] /\ stream'[4] = stream[4]
    BY <1>1, <2>1, <2>2 DEF Trails
  <2>4. FieldLen(stream'[4]) = f
    BY <2>3 DEF f
  <2>5. Trails(stream', 4 + FieldLen(stream'[4]), relayed')
    BY <2>2, <2>4
  <2>6. granted' <=> (stream'[1] = SOCKS5_VERSION
                        /\ stream'[2] = SOCKS5_REPLY_SUCCEEDED)
    BY <1>1, <1>5, <2>3 DEF IInv
  <2>7. /\ relayed' \in Nat /\ granted /\ proxy = "Relay"
        /\ UNCHANGED <<client, addr, sent, proxy, granted>>
    BY <1>1
  <2> QED BY <1>2, <1>3, <1>5, <2>5, <2>6, <2>7 DEF IInv
<1>6. CASE client = "ReadBound"
  <2> DEFINE f == FieldLen(buf[4])
  <2>1. Trails(stream, f, relayed) /\ f \in Nat
    BY <1>6 DEF IInv, FieldLen
  <2> HIDE DEF f
  <2>2. Trails(stream', f, relayed')
    BY <1>1, <2>1, Grow
  <2> QED BY <1>1, <1>2, <1>3, <1>6, <2>2 DEF IInv, f
<1>7. CASE client = "Connected"
  <2>1. Trails(stream, 0, relayed)
    BY <1>7 DEF IInv
  <2>2. Trails(stream', 0, relayed')
    BY <1>1, <2>1, Grow
  <2> QED BY <1>1, <1>2, <1>3, <1>7, <2>2 DEF IInv
<1>8. CASE client \notin Asked
  BY <1>1, <1>2, <1>3, <1>4, <1>8 DEF IInv
<1> QED BY <1>5, <1>6, <1>7, <1>8

LEMMA RespondKeeps ==
  ASSUME IInv, NEW v \in Byte, NEW c \in Byte, NEW a \in Byte, Respond(v, c, a)
  PROVE  IInv'
<1> USE DEF Asked
<1>1. /\ stream = <<>> /\ arrived = 0 /\ relayed = 0 /\ client = "ReadReply"
      /\ UNCHANGED <<client, addr, sent, buf, arrived, relayed>>
      /\ granted' = (v = SOCKS5_VERSION /\ c = SOCKS5_REPLY_SUCCEEDED)
      /\ proxy' = IF granted' THEN "Relay" ELSE "Over"
      /\ stream' = <<>> \o (<<v, c, 0, a>> \o BoundField(a))
  BY DEF IInv, Respond, Sends, clientVars
<1>2. /\ stream' \in Seq(Int) /\ stream'[1] = v /\ stream'[2] = c
      /\ stream'[4] = a /\ Trails(stream', 4 + FieldLen(a), 0)
  BY <1>1, ResponseLaid
<1>3. Trails(stream', 4 + FieldLen(stream'[4]), relayed')
  BY <1>1, <1>2
<1>4. Len(stream') \in Nat
  BY <1>2
<1>5. arrived' \in 0 .. Len(stream')
  BY <1>1, <1>4
<1> QED BY <1>1, <1>2, <1>3, <1>5 DEF IInv

LEMMA ChooseKeeps ==
  ASSUME IInv, NEW v \in Byte, NEW m \in Byte, ChooseMethod(v, m)
  PROVE  IInv'
<1> USE DEF Asked
<1>1. /\ stream = <<>> /\ arrived = 0 /\ relayed = 0 /\ ~granted
      /\ client \notin Asked /\ client # "Connect"
      /\ UNCHANGED <<client, addr, sent, buf, arrived, relayed, granted>>
      /\ proxy' = IF MethodChosen(<<v, m>>) THEN "Request" ELSE "Over"
      /\ stream' = <<v, m>>
  <2>1. v \in Int /\ m \in Int
    BY ByteAssumption DEF Byte
  <2>2. <<>> \o <<v, m>> = <<v, m>>
    BY <2>1
  <2>3. <<>> # Greeting
    BY DEF Greeting
  <2> QED BY <2>2, <2>3, EmptySeq DEF IInv, ChooseMethod, Sends, clientVars
<1>2. stream' \in Seq(Int) /\ Len(stream') = 2 /\ arrived' \in 0 .. Len(stream')
  BY <1>1, ByteAssumption DEF Byte
<1> QED BY <1>1, <1>2 DEF IInv

THEOREM NextInvariant == IInv /\ [Next]_vars => IInv'
<1> SUFFICES ASSUME IInv, [Next]_vars PROVE IInv'
  OBVIOUS
<1>1. CASE Connect
  BY <1>1 DEF IInv, Connect, Asked, proxyVars
<1>2. CASE GiveUp
  BY <1>2 DEF IInv, GiveUp, Asked, proxyVars
<1>3. CASE Arrive
  <2>1. arrived' \in 0 .. Len(stream)
    BY <1>3 DEF IInv, Arrive
  <2> QED BY <1>3, <2>1 DEF IInv, Arrive, clientVars, proxyVars
<1>4. CASE UNCHANGED vars
  BY <1>4 DEF IInv, vars
<1>5. CASE \E ver, method \in Byte : ChooseMethod(ver, method)
  BY <1>5, ChooseKeeps
<1>6. CASE \E ver, code, atyp \in Byte : Respond(ver, code, atyp)
  BY <1>6, RespondKeeps
<1> QED BY <1>1, <1>2, <1>3, <1>4, <1>5, <1>6, MethodKeeps, ReplyKeeps,
           BoundKeeps, RelayKeeps DEF Next

THEOREM Invariance == Spec => []IInv
<1>1. Init => IInv
  <2> SUFFICES ASSUME Init PROVE IInv
    OBVIOUS
  <2>1. stream \in Seq(Int) /\ arrived \in 0 .. Len(stream) /\ relayed \in Nat
    BY DEF Init
  <2> QED BY <2>1 DEF Init, IInv, Asked
<1> QED BY <1>1, NextInvariant, PTL DEF Spec

(* What the proxy reads out of the request is what connect was asked for,  *)
(* for every address, port and name that fits into the length byte.        *)
THEOREM TargetReachesServer == Spec => []ServerSeesTarget
<1>1. IInv => ServerSeesTarget
  <2> SUFFICES ASSUME IInv, client \in Asked, Len(addr.host) < Base
               PROVE  Parsed(sent) = addr /\ Len(sent) = PortFirst(sent) + 1
    BY DEF ServerSeesTarget, Asked
  <2>1. sent = Request(addr) /\ addr \in Socks5Addr
    BY TargetAssumption DEF IInv
  <2> QED BY <2>1, RequestParses
<1> QED BY <1>1, Invariance, PTL

(* The caller gets the stream only when the proxy granted the request, and *)
(* exactly at the destination's first byte, for any number of bytes.       *)
THEOREM PayloadNotTouched == Spec => []RelayStartsAtPayload
<1>1. IInv => RelayStartsAtPayload
  <2> SUFFICES ASSUME IInv, client = "Connected"
               PROVE  granted /\ stream = [i \in 1 .. relayed |-> -i]
    BY DEF RelayStartsAtPayload
  <2> DEFINE p == [i \in 1 .. relayed |-> -i]
  <2>1. granted /\ stream \in Seq(Int) /\ relayed \in Nat
        /\ Len(stream) = relayed /\ \A i \in 1 .. relayed : stream[i] = -i
    BY DEF IInv, Trails
  <2>2. p \in Seq(Int) /\ Len(p) = relayed /\ \A i \in 1 .. relayed : p[i] = -i
    BY <2>1
  <2> HIDE DEF p
  <2>3. stream = p
    BY <2>1, <2>2, SeqEqual
  <2> QED BY <2>1, <2>3 DEF p
<1> QED BY <1>1, Invariance, PTL
=============================================================================
