------------------------------- MODULE Codec -------------------------------
(***************************************************************************)
(* The wire format: message.go, grouped.go and the numbers of types.go.    *)
(* Byte strings are sequences of 0..255, with the real widths: the length  *)
(* of an attribute is one octet, the length of a payload two.  A 32-bit    *)
(* conference ID is the pair of its halves.                                *)
(***************************************************************************)
EXTENDS Integers, Sequences, SequencesExt

CommonHeaderLength == 12
ProtocolVersionRFC4582 == 1
ProtocolVersionRFC8855 == 2
headerFlagResponse == 16

Primitive ==
  [FloorRequest |-> 1, FloorRelease |-> 2, FloorRequestQuery |-> 3,
   FloorRequestStatus |-> 4, FloorQuery |-> 7, FloorStatus |-> 8,
   Hello |-> 11, HelloAck |-> 12, Error |-> 13, Goodbye |-> 16, GoodbyeAck |-> 17]

Attr ==
  [BeneficiaryID |-> 1, FloorID |-> 2, FloorRequestID |-> 3, Priority |-> 4,
   RequestStatus |-> 5, ErrorCode |-> 6, ErrorInfo |-> 7,
   SupportedAttributes |-> 10, SupportedPrimitives |-> 11, BeneficiaryInfo |-> 14,
   FloorRequestInfo |-> 15, RequestedByInfo |-> 16, FloorRequestStatus |-> 17,
   OverallRequestStatus |-> 18]

\* RequestStatus (types.go).
RequestStatus ==
  [Pending |-> 1, Accepted |-> 2, Granted |-> 3, Denied |-> 4,
   Cancelled |-> 5, Released |-> 6, Revoked |-> 7]

PutUint16(n) == <<n \div 256, n % 256>>
Uint16(bytes) == bytes[1] * 256 + bytes[2]

Zeros(n) == [i \in 1..n |-> 0]

\* The octets that follow n octets up to the next 4-byte boundary.
Padding(n) == (4 - (n % 4)) % 4

------------------------------------------------------------------------------
(* Building messages. *)

NewMessage(primitive, conferenceID, transactionID, userID) ==
  [version |-> ProtocolVersionRFC4582, reserved |-> 0, primitive |-> primitive,
   conferenceID |-> conferenceID, transactionID |-> transactionID, userID |-> userID,
   attributes |-> <<>>]

IsResponse(m) == (m.reserved \div headerFlagResponse) % 2 = 1

SetResponse(m, response) ==
  LET others == m.reserved - (IF IsResponse(m) THEN headerFlagResponse ELSE 0)
  IN  [m EXCEPT !.reserved = others + (IF response THEN headerFlagResponse ELSE 0)]

Attribute(type, value, raw) ==
  [type |-> type, length |-> Len(value) % 256, value |-> value, raw |-> raw]

AddAttribute(m, type, value) ==
  [m EXCEPT !.attributes = Append(@, Attribute(type, value, FALSE))]

\* AddFloorID, AddFloorRequestID, AddBeneficiaryID.
AddID(m, type, id) == AddAttribute(m, type, PutUint16(id))

AddPriority(m, priority) == AddAttribute(m, Attr.Priority, PutUint16(priority))

AddRequestStatus(m, status, queuePosition) ==
  AddAttribute(m, Attr.RequestStatus, <<status, queuePosition>>)

AddErrorCode(m, code) == AddAttribute(m, Attr.ErrorCode, <<code>>)

\* A text is a sequence of octets.
AddErrorInfo(m, info) == AddAttribute(m, Attr.ErrorInfo, info)

\* AddSupportedPrimitives, AddSupportedAttributes: one octet per number.
AddSupported(m, type, numbers) == AddAttribute(m, type, numbers)

\* An attribute that is encoded already; the length octet leaves the padding out.
buildSimpleAttr(type, mandatory, value) ==
  <<(2 * type + mandatory) % 256, (2 + Len(value)) % 256>>
    \o value \o Zeros(Padding(2 + Len(value)))

buildGroupedAttrWithHeaderID(type, mandatory, headerID, children) ==
  buildSimpleAttr(type, mandatory, PutUint16(headerID) \o FlattenSeq(children))

\* A FLOOR-REQUEST-INFORMATION as both builders below nest it.
RequestInformation(requestID, status, floorID) ==
  LET requestStatus == buildSimpleAttr(Attr.RequestStatus, 0, <<status, 0>>)
      overall == buildGroupedAttrWithHeaderID(Attr.OverallRequestStatus, 0, requestID,
                                              <<requestStatus>>)
      ofFloor == buildGroupedAttrWithHeaderID(Attr.FloorRequestStatus, 0, floorID,
                                              <<requestStatus>>)
  IN  buildGroupedAttrWithHeaderID(Attr.FloorRequestInfo, 1, requestID, <<overall, ofFloor>>)

AddFloorRequestInformationRFC4582(m, requestID, status, floorID) ==
  [m EXCEPT !.attributes =
     Append(@, Attribute(Attr.FloorRequestInfo,
                         RequestInformation(requestID, status, floorID), TRUE))]

\* The first octets of a message.
CommonHeader(m, words) ==
  <<m.version * 32 + (m.reserved % 32), m.primitive>> \o PutUint16(words)
    \o PutUint16(m.conferenceID[1]) \o PutUint16(m.conferenceID[2])
    \o PutUint16(m.transactionID) \o PutUint16(m.userID)

BuildFloorStatusMessage(version, conferenceID, transactionID, userID, floorID, requestID, status) ==
  LET payload == buildSimpleAttr(Attr.FloorID, 1, PutUint16(floorID))
                   \o RequestInformation(requestID, status, floorID)
      m == [NewMessage(Primitive.FloorStatus, conferenceID, transactionID, userID)
              EXCEPT !.version = version]
  IN  CommonHeader(m, Len(payload) \div 4) \o payload

------------------------------------------------------------------------------
(* Encode. *)

EncodedSize(a) ==
  IF a.raw THEN Len(a.value) ELSE 2 + a.length + Padding(2 + a.length)

\* Go's copy(buf[offset:], bytes): what does not fit into buf is dropped.
Copied(buf, offset, bytes) ==
  [i \in 1..Len(buf) |->
     IF i > offset /\ i - offset <= Len(bytes) THEN bytes[i - offset] ELSE buf[i]]

\* A mutant: the length of the value alone.
AttributeHeaderValueOnly(a) == <<(2 * a.type + 1) % 256, a.length>>

\* A mutant: the length is not cut to an octet.
AttributeHeaderWide(a) == <<(2 * a.type + 1) % 256, Len(a.value) + 2>>

\* The length octet counts itself and the type, and has eight bits.
AttributeHeader(a) == <<(2 * a.type + 1) % 256, (a.length + 2) % 256>>

EncodeAttribute(done, a) ==
  [buf |-> Copied(done.buf, done.offset,
                  IF a.raw THEN a.value ELSE AttributeHeader(a) \o a.value),
   offset |-> done.offset + EncodedSize(a)]

Encode(m) ==
  LET size == FoldLeft(LAMBDA n, a : n + EncodedSize(a), 0, m.attributes)
      start == [buf |-> CommonHeader(m, (size \div 4) % 65536) \o Zeros(size),
                offset |-> CommonHeaderLength]
  IN  FoldLeft(EncodeAttribute, start, m.attributes).buf

------------------------------------------------------------------------------
(* Decode.  A result has ok = FALSE where the code returns an error. *)

Octets(data, from, to) == SubSeq(data, from + 1, to)

\* The attributes of data[offset:end].  Decode refuses an attribute header cut
\* off at the end (strict), parseTLVs ignores it.
Attributes(data, first, end, strict) ==
  LET attrs[offset \in first..(end + 3)] ==
        IF offset + (IF strict THEN 1 ELSE 2) > end
          THEN [ok |-> TRUE, attributes |-> <<>>]
        ELSE IF offset + 2 > end
          THEN [ok |-> FALSE, attributes |-> <<>>]
        ELSE LET length == data[offset + 2] IN
          IF length < 2 \/ offset + length > end
            THEN [ok |-> FALSE, attributes |-> <<>>]
          ELSE LET rest == attrs[offset + length + Padding(length)]
                   value == Octets(data, offset + 2, offset + length)
               IN  [rest EXCEPT !.attributes =
                      <<Attribute(data[offset + 1] \div 2, value, FALSE)>> \o @]
  IN  attrs[first]

\* The payload length that the header announces, in octets.
PayloadSize(header) == 4 * Uint16(Octets(header, 2, 4))

Decode(data) ==
  LET version == data[1] \div 32
      parsed == Attributes(data, CommonHeaderLength,
                           CommonHeaderLength + PayloadSize(data), TRUE)
  IN  IF \/ Len(data) < CommonHeaderLength
         \/ version \notin {ProtocolVersionRFC4582, ProtocolVersionRFC8855}
         \/ Len(data) < CommonHeaderLength + PayloadSize(data)
         \/ ~parsed.ok
        THEN [ok |-> FALSE]
        ELSE [ok |-> TRUE,
              message |-> [version |-> version, reserved |-> data[1] % 32,
                           primitive |-> data[2],
                           conferenceID |-> <<Uint16(Octets(data, 4, 6)), Uint16(Octets(data, 6, 8))>>,
                           transactionID |-> Uint16(Octets(data, 8, 10)),
                           userID |-> Uint16(Octets(data, 10, 12)),
                           attributes |-> parsed.attributes]]

------------------------------------------------------------------------------
(* What a receiver asks of a message.  Missing stands for ok = false. *)

Missing == -1

\* The values of the attributes of one type, in order.
ValuesOf(attributes, type) ==
  LET found == SelectSeq(attributes, LAMBDA a : a.type = type)
  IN  [i \in DOMAIN found |-> found[i].value]

FirstOr(seq, default) == IF seq = <<>> THEN default ELSE Head(seq)
AtLeast(seqs, n) == SelectSeq(seqs, LAMBDA s : Len(s) >= n)

\* GetAttribute takes the first one of its type, whatever its size.
GetAttribute(m, type) == FirstOr(ValuesOf(m.attributes, type), <<>>)

parseTLVs(data) == Attributes(data, 0, Len(data), FALSE)

findRequestStatus(data) ==
  LET subs == parseTLVs(data)
      found == AtLeast(ValuesOf(subs.attributes, Attr.RequestStatus), 2)
  IN  IF subs.ok /\ found # <<>> THEN Head(found) ELSE <<>>

\* The last sub-attribute of a type wins, except for the floors.
parseFloorRequestInfo(value) ==
  LET subs == parseTLVs(Octets(value, 2, Len(value)))
      Of(type) == AtLeast(ValuesOf(subs.attributes, type), 2)
      StatusIn(sub) == findRequestStatus(Octets(sub, 2, Len(sub)))
      IDOf(type) == LET found == Of(type)
                    IN  IF found = <<>> THEN Missing ELSE Uint16(Last(found))
      overalls == SelectSeq(Of(Attr.OverallRequestStatus), LAMBDA s : StatusIn(s) # <<>>)
      floors == Of(Attr.FloorRequestStatus)
  IN  IF Len(value) < 2 \/ ~subs.ok
        THEN [ok |-> FALSE]
        ELSE [ok |-> TRUE, requestID |-> Uint16(value),
              overall |-> IF overalls = <<>> THEN <<>> ELSE StatusIn(Last(overalls)),
              floors |-> [i \in DOMAIN floors |->
                            [floorID |-> Uint16(floors[i]), status |-> StatusIn(floors[i])]],
              beneficiary |-> IDOf(Attr.BeneficiaryInfo),
              requestedBy |-> IDOf(Attr.RequestedByInfo),
              priority |-> IDOf(Attr.Priority)]

FloorRequestInfos(m) ==
  LET Body(a) == IF a.raw THEN Octets(a.value, 2, Len(a.value)) ELSE a.value
      attrs == SelectSeq(m.attributes, LAMBDA a : a.type = Attr.FloorRequestInfo)
  IN  SelectSeq([i \in DOMAIN attrs |-> parseFloorRequestInfo(Body(attrs[i]))],
                LAMBDA info : info.ok)

\* Status: the overall status, else that of the first floor that has one.
InfoStatus(info) ==
  LET floors == SelectSeq(info.floors, LAMBDA f : f.status # <<>>)
  IN  IF info.overall # <<>> THEN info.overall[1]
      ELSE IF floors # <<>> THEN floors[1].status[1]
      ELSE Missing

GetUint16(m, type) ==
  LET value == GetAttribute(m, type) IN IF Len(value) >= 2 THEN Uint16(value) ELSE Missing

GetFloorID(m) ==
  LET infos == SelectSeq(FloorRequestInfos(m), LAMBDA info : info.floors # <<>>)
  IN  IF GetUint16(m, Attr.FloorID) # Missing THEN GetUint16(m, Attr.FloorID)
      ELSE IF infos # <<>> THEN infos[1].floors[1].floorID
      ELSE Missing

GetFloorRequestID(m) ==
  IF GetUint16(m, Attr.FloorRequestID) # Missing THEN GetUint16(m, Attr.FloorRequestID)
  ELSE IF FloorRequestInfos(m) # <<>> THEN FloorRequestInfos(m)[1].requestID
  ELSE Missing

GetBeneficiaryID(m) == GetUint16(m, Attr.BeneficiaryID)

GetRequestStatus(m) ==
  LET value == GetAttribute(m, Attr.RequestStatus)
      infos == SelectSeq(FloorRequestInfos(m), LAMBDA info : InfoStatus(info) # Missing)
  IN  IF Len(value) >= 2 THEN value[1]
      ELSE IF infos # <<>> THEN InfoStatus(infos[1])
      ELSE Missing

GetErrorCode(m) ==
  LET value == GetAttribute(m, Attr.ErrorCode) IN IF value # <<>> THEN value[1] ELSE Missing

GetErrorInfo(m) == GetAttribute(m, Attr.ErrorInfo)

------------------------------------------------------------------------------
(* The messages of the library.  What one says is a record: its header and  *)
(* the numbers that its sender puts in, Missing where it puts none.         *)

Says(kind, version, conferenceID, transactionID, userID) ==
  [kind |-> kind, version |-> version, conferenceID |-> conferenceID,
   transactionID |-> transactionID, userID |-> userID,
   response |-> FALSE, primitives |-> <<>>, attributes |-> <<>>,
   floor |-> Missing, request |-> Missing, status |-> Missing,
   beneficiary |-> Missing, priority |-> Missing, code |-> Missing, info |-> <<>>]

\* What Client.Hello lists, and what the server's HelloAck does.
ClientPrimitives == <<1, 2, 3, 4, 8, 11, 12, 13, 16, 17>>
ClientAttributes == <<1, 2, 3, 4, 5, 6, 7, 10, 11>>
ServerPrimitives == <<1, 2, 4, 8, 11, 12, 13, 16, 17>>
ServerAttributes == <<1, 2, 3, 4, 5, 6, 7, 10, 11, 12, 13, 14, 15, 16, 17, 18, 8, 9>>

\* Hello and HelloAck; a keepalive is a Hello without lists.
HelloMessage(m, says) ==
  IF says.primitives = <<>> THEN m
  ELSE AddSupported(AddSupported(m, Attr.SupportedPrimitives, says.primitives),
                    Attr.SupportedAttributes, says.attributes)

\* Client.RequestFloor adds what is not zero.
FloorRequestMessage(m, says) ==
  LET floor == AddID(m, Attr.FloorID, says.floor)
      beneficiary == IF says.beneficiary > 0
                       THEN AddID(floor, Attr.BeneficiaryID, says.beneficiary) ELSE floor
  IN  IF says.priority > 0 THEN AddPriority(beneficiary, says.priority) ELSE beneficiary

FloorReleaseMessage(m, says) ==
  AddID(AddID(m, Attr.FloorID, says.floor), Attr.FloorRequestID, says.request)

FloorStatusMessage(m, says) ==
  AddRequestStatus(FloorReleaseMessage(m, says), says.status, 0)

ErrorMessage(m, says) ==
  IF says.info = <<>> THEN AddErrorCode(m, says.code)
                      ELSE AddErrorInfo(AddErrorCode(m, says.code), says.info)

MessageOf(says) ==
  LET new == NewMessage(Primitive[says.kind], says.conferenceID, says.transactionID,
                        says.userID)
      m == SetResponse([new EXCEPT !.version = says.version], says.response)
  IN  CASE says.kind = "FloorRequest" -> FloorRequestMessage(m, says)
        [] says.kind = "FloorRelease" -> FloorReleaseMessage(m, says)
        [] says.kind = "FloorQuery" -> AddID(m, Attr.FloorID, says.floor)
        [] says.kind = "FloorRequestStatus" ->
             AddFloorRequestInformationRFC4582(m, says.request, says.status, says.floor)
        [] says.kind = "FloorStatus" -> FloorStatusMessage(m, says)
        [] says.kind = "Error" -> ErrorMessage(m, says)
        [] says.kind \in {"Hello", "HelloAck"} -> HelloMessage(m, says)
        [] OTHER -> m

\* The octets written for it.  SendFloorState pushes a FloorStatus that
\* BuildFloorStatusMessage encodes, every other message goes through Encode.
Octetted(says, pushed) ==
  IF pushed
    THEN BuildFloorStatusMessage(says.version, says.conferenceID, says.transactionID,
                                 says.userID, says.floor, says.request, says.status)
    ELSE Encode(MessageOf(says))

KindOf(primitive) ==
  IF \E kind \in DOMAIN Primitive : Primitive[kind] = primitive
    THEN CHOOSE kind \in DOMAIN Primitive : Primitive[kind] = primitive
    ELSE "Unknown"

\* What the receiver of message m reads out of it.
Heard(m) ==
  [kind |-> KindOf(m.primitive), version |-> m.version, conferenceID |-> m.conferenceID,
   transactionID |-> m.transactionID, userID |-> m.userID, response |-> IsResponse(m),
   primitives |-> GetAttribute(m, Attr.SupportedPrimitives),
   attributes |-> GetAttribute(m, Attr.SupportedAttributes),
   floor |-> GetFloorID(m), request |-> GetFloorRequestID(m), status |-> GetRequestStatus(m),
   beneficiary |-> GetBeneficiaryID(m), priority |-> GetUint16(m, Attr.Priority),
   code |-> GetErrorCode(m), info |-> GetErrorInfo(m)]

==============================================================================
