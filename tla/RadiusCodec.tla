---------------------------- MODULE RadiusCodec ----------------------------
(***************************************************************************)
(* From a datagram to an accounting event: parseRadiusPacket,              *)
(* verifyAccountingRequest and getAccountingEvent, in the order of the     *)
(* message handler. Bytes are small numbers and every size is a parameter; *)
(* digests are free terms: two are equal when their inputs are.            *)
(* The value of a Message-Authenticator is the field mac of a datagram,    *)
(* with zeros in its place in the body.                                    *)
(***************************************************************************)
EXTENDS Integers, Sequences, SequencesExt, FiniteSetsExt

CONSTANTS
  HeaderSize, MaxLength,    \* 20 and 4095 bytes
  IntSize, AuthSize,        \* bytes of an integer (4) and of an authenticator (16)
  ByteBase, MaxSafe,        \* 256, and Number.MAX_SAFE_INTEGER
  Request,                  \* the code of an Accounting-Request
  StatusAttr, SessionAttr, NasAttr, NasIpAttr, OctetsAttr, GigawordsAttr, MacAttr,
  OptionalAttrs,            \* Framed-IP-Address, Acct-Session-Time, Acct-Terminate-Cause
  StatusCodes,              \* the keys of STATUS_TYPES
  Fallbacks,                \* whether the client has a configured nasIdentifier
  Datagrams                 \* what may arrive

ASSUME CodecAssumption ==
  /\ {HeaderSize, MaxLength, IntSize, AuthSize, ByteBase, MaxSafe} \subseteq Nat
  /\ HeaderSize < MaxLength /\ Fallbacks \subseteq BOOLEAN
  /\ \A d \in Datagrams : {d.size, d.declared} \subseteq Nat /\ d.body \in Seq(0..ByteBase - 1)

VARIABLES
  datagram,   \* what is being handled
  step,       \* where the handler stands
  offset,     \* of the attribute loop
  attributes, \* the attributes read so far
  fallback    \* client.nasIdentifier is set

codecVars == <<datagram, step, offset, attributes, fallback>>

NoDatagram == [size |-> 0, declared |-> HeaderSize, body |-> <<>>]
Zeros == <<"zeros">>

CodecInit ==
  /\ datagram = NoDatagram /\ step = "listening"
  /\ offset = 0 /\ attributes = <<>> /\ fallback = FALSE

(* packet.subarray(20, length), which ends where the buffer does: what     *)
(* follows the declared length is not looked at.                           *)
Region(d) == SubSeq(d.body, 1, Min({d.declared - HeaderSize, Len(d.body)}))

AuthenticatorOver(d) == <<"md5", d.code, d.declared, Region(d), d.mac>>
(* HMAC over the packet with that Request Authenticator and a zeroed MAC.  *)
MacOver(authenticator, d) == <<"hmac", authenticator, d.code, d.declared, Region(d)>>

-----------------------------------------------------------------------------
(* The handler                                                             *)

Arrive ==
  /\ step = "listening"
  /\ datagram' \in Datagrams /\ fallback' \in Fallbacks
  /\ step' = "header"
  /\ UNCHANGED <<offset, attributes>>

Proceed(next) == step' = next /\ UNCHANGED <<datagram, fallback>>

(* "shorter than the 20-byte minimum", "Invalid RADIUS packet length".     *)
LengthOk(d) ==
  /\ d.size >= HeaderSize
  /\ d.declared \in HeaderSize..MaxLength
  /\ d.declared <= d.size

Header ==
  /\ step = "header"
  /\ Proceed(IF LengthOk(datagram) THEN "attributes" ELSE "rejected")
  /\ UNCHANGED <<offset, attributes>>

(* Mutant of Readable: an attribute that is only a header is too short.    *)
ReadableWithValue(b, i) == i + 2 <= Len(b) /\ b[i + 2] > 2 /\ i + b[i + 2] <= Len(b)

(* "Malformed RADIUS attribute header", "... length".                      *)
Readable(b, i) == i + 2 <= Len(b) /\ b[i + 2] >= 2 /\ i + b[i + 2] <= Len(b)

(* One turn of the loop of attributeList().                                *)
ReadAttribute ==
  LET b == Region(datagram) IN
  /\ step = "attributes" /\ offset < Len(b)
  /\ IF Readable(b, offset)
     THEN /\ attributes' = Append(attributes,
               [type |-> b[offset + 1], value |-> SubSeq(b, offset + 3, offset + b[offset + 2])])
          /\ offset' = offset + b[offset + 2]
          /\ Proceed("attributes")
     ELSE Proceed("rejected") /\ UNCHANGED <<offset, attributes>>

LastAttribute ==
  /\ step = "attributes" /\ offset >= Len(Region(datagram))
  /\ Proceed("verify")
  /\ UNCHANGED <<offset, attributes>>

(* firstAttribute(): its value, in a set of at most one.                   *)
First(type) ==
  LET found == {i \in DOMAIN attributes : attributes[i].type = type} IN
  {attributes[i].value : i \in {i \in found : \A j \in found : i <= j}}

(* verifyAccountingRequest: the Message-Authenticator is checked over the  *)
(* authenticator that the packet carries.                                  *)
Verify ==
  /\ step = "verify"
  /\ Proceed(IF /\ datagram.code = Request
                /\ datagram.authenticator = AuthenticatorOver(datagram)
                /\ \A v \in First(MacAttr) :
                     /\ Len(v) = AuthSize
                     /\ datagram.mac = MacOver(datagram.authenticator, datagram)
             THEN "event" ELSE "rejected")
  /\ UNCHANGED <<offset, attributes>>

Number(v) == FoldLeft(LAMBDA n, byte : n * ByteBase + byte, 0, v)

(* decodeUInt32(): any other size throws; none is 0, where it is optional. *)
Integers4(type) == \A v \in First(type) : Len(v) = IntSize
NumberOf(type) == IF First(type) = {} THEN 0 ELSE Number(CHOOSE v \in First(type) : TRUE)

(* safeCounter()                                                           *)
Counter == NumberOf(OctetsAttr) + NumberOf(GigawordsAttr) * ByteBase ^ IntSize

(* A name is a value that is not the empty string.                         *)
Named(type) == First(type) \notin {{}, {<<>>}}

(* getAccountingEvent: what it requires of a packet. An address is asked   *)
(* of the packet only where neither it nor the client names the NAS.       *)
EventOk ==
  /\ Integers4(StatusAttr) /\ NumberOf(StatusAttr) \in StatusCodes
  /\ Named(NasAttr) \/ fallback \/ (First(NasIpAttr) # {} /\ Integers4(NasIpAttr))
  /\ Named(SessionAttr)
  /\ \A type \in {OctetsAttr, GigawordsAttr} \cup OptionalAttrs : Integers4(type)
  /\ Counter <= MaxSafe

GetEvent ==
  /\ step = "event"
  /\ Proceed(IF EventOk THEN "accepted" ELSE "rejected")
  /\ UNCHANGED <<offset, attributes>>

(* The event goes to onAccounting, or the error to the log.                *)
Handled ==
  /\ step \in {"accepted", "rejected"}
  /\ datagram' = NoDatagram /\ step' = "listening"
  /\ offset' = 0 /\ attributes' = <<>> /\ fallback' = FALSE

CodecNext ==
  \/ Arrive \/ Header \/ ReadAttribute \/ LastAttribute \/ Verify \/ GetEvent \/ Handled

CodecSpec == CodecInit /\ [][CodecNext]_codecVars

-----------------------------------------------------------------------------
(* Properties                                                              *)

(* What a list of attributes looks like on the wire.                       *)
Encoded(as) ==
  FlattenSeq([i \in DOMAIN as |-> <<as[i].type, Len(as[i].value) + 2>> \o as[i].value])

(* From i on, the bytes are attributes up to the end.                      *)
Divisible(b) ==
  LET from[i \in 0..Len(b)] ==
        \/ i = Len(b)
        \/ i + 2 <= Len(b) /\ b[i + 2] >= 2 /\ i + b[i + 2] <= Len(b) /\ from[i + b[i + 2]]
  IN from[0]

(* The attributes read are the bytes of the datagram, all of them and no   *)
(* byte that it does not have, whatever lengths it declares; and a         *)
(* datagram is refused as malformed only if its bytes are no list of       *)
(* attributes (parseRadiusPacket and attributeList).                       *)
ParserIsExact ==
  /\ step \in {"verify", "event", "accepted"} =>
       /\ datagram.size >= datagram.declared
       /\ Encoded(attributes) = Region(datagram)
  /\ step = "rejected" /\ Encoded(attributes) # Region(datagram) =>
       \/ datagram.declared \notin HeaderSize..datagram.size
       \/ datagram.declared > MaxLength
       \/ ~Divisible(Region(datagram))

(* What README.md:76 promises of the Message-Authenticator: a complete     *)
(* request whose Message-Authenticator was computed the way it can be,     *)
(* before the Request Authenticator that covers it, is not rejected.       *)
SignedRequestsAreAccepted ==
  /\ step = "rejected" /\ First(MacAttr) # {}
  /\ LengthOk(datagram) /\ Encoded(attributes) = Region(datagram) /\ EventOk
  /\ datagram.code = Request /\ \A v \in First(MacAttr) : Len(v) = AuthSize
  /\ datagram.authenticator = AuthenticatorOver(datagram)
  => datagram.mac # MacOver(Zeros, datagram)

=============================================================================
