------------------------------- MODULE Socks5 -------------------------------
(***************************************************************************)
(* The SOCKS5 client of crates/tun/src/socks5: Sock5TcpStream::connect,    *)
(* which the TCP handler awaits under OUTBOUND_CONNECT_TIMEOUT, and the    *)
(* messages it writes and reads.                                           *)
(*                                                                         *)
(* The proxy and the connection to it are external.  The proxy takes the   *)
(* request apart as RFC 1928 says, answers with any field values and,      *)
(* after it has granted the request, relays what its destination sends.    *)
(* What it sends arrives in pieces.                                        *)
(*                                                                         *)
(* Bytes are numbers below Base, which stands for 256.  The bytes the      *)
(* proxy relays are numbered -1, -2, ... in the order they are sent.       *)
(***************************************************************************)
EXTENDS Integers, Sequences

CONSTANTS
  Base,        \* how many values a byte has
  Target,      \* the addresses the client is asked to connect to
  MaxRelay     \* bound: how many bytes the proxy relays

SOCKS5_VERSION == 5
SOCKS5_AUTH_METHOD_NONE == 0
SOCKS5_CMD_TCP_CONNECT == 1
SOCKS5_REPLY_SUCCEEDED == 0
IPV4 == 1
DOMAIN_NAME == 3
IPV6 == 4

Byte == 0 .. Base - 1
Port == 0 .. Base * Base - 1

(* Socks5Addr: the octets of an address or the bytes of a name, and a port.*)
Socks5Addr ==
  {a \in [atyp : {IPV4, IPV6, DOMAIN_NAME}, host : Seq(Byte), port : Port] :
     /\ a.atyp = IPV4 => Len(a.host) = 4
     /\ a.atyp = IPV6 => Len(a.host) = 16}

ASSUME ByteAssumption == Base \in Nat /\ Base > 5
ASSUME TargetAssumption == Target \subseteq Socks5Addr
ASSUME RelayAssumption == MaxRelay \in Nat

VARIABLES
  client,      \* where connect is
  addr,        \* its argument
  sent,        \* the last message it has written
  buf,         \* the first four bytes of the response it has read
  proxy,       \* the message the proxy waits for
  granted,     \* the proxy chose the method NONE and replied "succeeded"
  stream,      \* what the proxy has sent and the client has not read
  arrived,     \* how many bytes of it have arrived
  relayed      \* how many bytes of the destination the proxy has relayed

vars == <<client, addr, sent, buf, proxy, granted, stream, arrived, relayed>>
clientVars == <<client, addr, sent, buf>>
proxyVars == <<proxy, granted, relayed>>
-----------------------------------------------------------------------------
(* Socks5TcpRequest::write_to.                                             *)
FaultLittleEndian(n) == <<n % Base, n \div Base>>
PutU16(n) == <<n \div Base, n % Base>>

LengthByte(host) == <<Len(host) % Base>>

HostField(a) ==
  IF a.atyp = DOMAIN_NAME THEN LengthByte(a.host) \o a.host ELSE a.host

Request(a) ==
  <<SOCKS5_VERSION, SOCKS5_CMD_TCP_CONNECT, 0, a.atyp>>
    \o HostField(a) \o PutU16(a.port)

(* HandShakeRequest::write_to with the one method.                         *)
Greeting == <<SOCKS5_VERSION, 1, SOCKS5_AUTH_METHOD_NONE>>

(* How the proxy reads a request: the host starts after the address type,  *)
(* or after the length byte of a name, and the port follows it.            *)
HostFirst(b) == IF b[4] = DOMAIN_NAME THEN 6 ELSE 5
HostLen(b) ==
  IF b[4] = DOMAIN_NAME THEN b[5] ELSE IF b[4] = IPV4 THEN 4 ELSE 16
PortFirst(b) == HostFirst(b) + HostLen(b)
Parsed(b) ==
  [atyp |-> b[4],
   host |-> SubSeq(b, HostFirst(b), PortFirst(b) - 1),
   port |-> b[PortFirst(b)] * Base + b[PortFirst(b) + 1]]

(* How many bytes of bound address and port a response has: the proxy's    *)
(* reading, with a name of one byte, and the client's buffers.             *)
BoundField(atyp) ==
  [i \in 1 .. (IF atyp = IPV4 THEN 6 ELSE IF atyp = IPV6 THEN 18 ELSE 4) |-> 1]
FaultNoPort(atyp) == IF atyp = IPV4 THEN 4 ELSE 16
BoundLen(atyp) == IF atyp = IPV4 THEN 6 ELSE 18
-----------------------------------------------------------------------------
Init ==
  /\ client = "Connect" /\ addr \in Target /\ sent = <<>> /\ buf = <<>>
  /\ proxy = "Greeting" /\ granted = FALSE /\ relayed = 0
  /\ stream = <<>> /\ arrived = 0

(* TcpStream::connect, and the greeting is written.                        *)
Connect ==
  /\ client = "Connect"
  /\ client' = "ReadMethod" /\ sent' = Greeting
  /\ UNCHANGED <<addr, buf, stream, arrived, proxyVars>>

(* An I/O error, the end of the stream in read_exact, or the timeout.      *)
GiveUp ==
  /\ client \in {"Connect", "ReadMethod", "ReadReply", "ReadBound"}
  /\ client' = "Error"
  /\ UNCHANGED <<addr, sent, buf, stream, arrived, proxyVars>>

(* read_exact waits for n bytes and takes no more than those.              *)
ReadExact(n) ==
  /\ arrived >= n
  /\ stream' = SubSeq(stream, n + 1, Len(stream))
  /\ arrived' = arrived - n

(* HandShakeResponse::read_from, and the request is written if the proxy   *)
(* has chosen the method NONE.                                             *)
MethodChosen(b) == b[1] = SOCKS5_VERSION /\ b[2] = SOCKS5_AUTH_METHOD_NONE

ReadMethod ==
  /\ client = "ReadMethod"
  /\ ReadExact(2)
  /\ client' = IF MethodChosen(stream) THEN "ReadReply" ELSE "Error"
  /\ sent' = IF MethodChosen(stream) THEN Request(addr) ELSE sent
  /\ UNCHANGED <<addr, buf, proxyVars>>

(* Socks5TcpResponse::read_from: four bytes ...                            *)
AfterReply(b) ==
  IF b[1] # SOCKS5_VERSION THEN "Error"
  ELSE IF b[4] \in {IPV4, IPV6} THEN "ReadBound" ELSE "Panicked"

ReadReply ==
  /\ client = "ReadReply"
  /\ ReadExact(4)
  /\ client' = AfterReply(stream)
  /\ buf' = SubSeq(stream, 1, 4)
  /\ UNCHANGED <<addr, sent, proxyVars>>

(* ... and the bound address.  connect returns the stream if the reply,    *)
(* after Reply::from_u8, is Succeeded.                                     *)
Succeeded(code) == code = SOCKS5_REPLY_SUCCEEDED

ReadBound ==
  /\ client = "ReadBound"
  /\ ReadExact(BoundLen(buf[4]))
  /\ client' = IF Succeeded(buf[2]) THEN "Connected" ELSE "Error"
  /\ UNCHANGED <<addr, sent, buf, proxyVars>>
-----------------------------------------------------------------------------
(* The proxy (external).                                                   *)
Sends(bytes) ==
  /\ stream' = stream \o bytes
  /\ UNCHANGED <<clientVars, arrived>>

ChooseMethod(ver, method) ==
  /\ proxy = "Greeting" /\ sent = Greeting
  /\ proxy' = IF MethodChosen(<<ver, method>>) THEN "Request" ELSE "Over"
  /\ Sends(<<ver, method>>)
  /\ UNCHANGED <<granted, relayed>>

Respond(ver, code, atyp) ==
  /\ proxy = "Request" /\ client = "ReadReply"
  /\ granted' = (ver = SOCKS5_VERSION /\ code = SOCKS5_REPLY_SUCCEEDED)
  /\ proxy' = IF granted' THEN "Relay" ELSE "Over"
  /\ Sends(<<ver, code, 0, atyp>> \o BoundField(atyp))
  /\ UNCHANGED relayed

Relay ==
  /\ proxy = "Relay" /\ relayed < MaxRelay
  /\ relayed' = relayed + 1
  /\ Sends(<<-(relayed + 1)>>)
  /\ UNCHANGED <<proxy, granted>>

(* One more byte reaches the client.                                       *)
Arrive ==
  /\ arrived < Len(stream)
  /\ arrived' = arrived + 1
  /\ UNCHANGED <<clientVars, proxyVars, stream>>

Next ==
  \/ Connect \/ ReadMethod \/ ReadReply \/ ReadBound \/ GiveUp
  \/ \E ver, method \in Byte : ChooseMethod(ver, method)
  \/ \E ver, code, atyp \in Byte : Respond(ver, code, atyp)
  \/ Relay \/ Arrive

Spec == Init /\ [][Next]_vars
-----------------------------------------------------------------------------
(* The proxy takes out of the request what the client was asked for, with  *)
(* nothing missing or left over, for every kind of address, every port and *)
(* names of up to Base - 1 bytes: Socks5TcpRequest::write_to puts the      *)
(* length of a name into one byte.                                         *)
ServerSeesTarget ==
  (client \in {"ReadReply", "ReadBound", "Connected"} /\ Len(addr.host) < Base)
    => Parsed(sent) = addr /\ Len(sent) = PortFirst(sent) + 1

(* connect hands the stream over only if the proxy granted the request,    *)
(* and exactly at the first byte of the destination: whatever the pieces   *)
(* in which it arrived, read_from has taken the whole response and nothing *)
(* of what follows it.                                                     *)
RelayStartsAtPayload ==
  client = "Connected" =>
    granted /\ stream = [i \in 1 .. relayed |-> -i]
=============================================================================
