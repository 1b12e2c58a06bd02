------------------------------ MODULE MqttCodec ------------------------------
(***************************************************************************)
(* mqtt_parser_execute, and the packets the broker serialises in answer.   *)
(*                                                                         *)
(* loop_read gives the parser a payload of exactly common.length bytes.    *)
(* The parser goes through its states with one cursor, nread, and returns  *)
(* strings as an offset into the payload and a length; offset 0 is NULL,   *)
(* since no string starts before its length.  What is in the payload is    *)
(* chosen where it is read.  A PUBLISH of QoS 0 is then serialised again   *)
(* for a subscriber, other packets are acknowledged: of what is written    *)
(* only the sizes are kept, and the length fields.                         *)
(***************************************************************************)
EXTENDS FixedHeader

CONSTANTS
    BYTE,      \* 256: the weight of the first byte of a string's length
    MaxLen     \* bound: payload lengths, at most what four digits can say

ASSUME CodecAssumption ==
    /\ BYTE \in Nat \ {0, 1}
    /\ MaxLen \in 0..(Weight(5) - 1)

MessageTypes == {"CONNECT", "CONNACK", "PUBLISH", "SUBSCRIBE", "PINGREQ",
                 "DISCONNECT", "other"}

Strings == {"protocol_name", "client_id", "will_topic", "will_message",
            "username", "password", "topic_name", "content", "topics"}

VARIABLES
    type, qos, length,     \* in_packet->common
    state,                 \* parser->state, without its prefix
    rc,                    \* what mqtt_parser_execute returned, "RUNNING" while
                           \* it runs, "FREE" without a packet
    nread,
    flags,                 \* the strings that the CONNECT flags announce
    str,                   \* offset and length of each string
    out                    \* the packet serialised last

vars == <<type, qos, length, state, rc, nread, flags, str, out>>

NoString == [data |-> 0, length |-> 0]
NoOut    == [length |-> 0, size |-> 0, written |-> 0, header |-> <<>>,
             topic |-> 0, says |-> 0]

(* loop_read has a whole packet, in_packet is all zero but for the header, *)
(* and the parser starts in its initial state.                             *)
Begin ==
    /\ rc = "FREE"
    /\ type' \in MessageTypes
    /\ qos' \in 0..3
    /\ length' \in 0..MaxLen
    /\ state' = "INITIAL"
    /\ rc' = "RUNNING"
    /\ UNCHANGED <<nread, flags, str, out>>
-----------------------------------------------------------------------------
(* The parser: one action per state; states that only go on to another are *)
(* left out.                                                               *)

Message == <<type, qos, length>>
In(s)   == rc = "RUNNING" /\ state = s

(* On to another state, or the end. *)
Go(s) == IF s = "DONE" THEN rc' = "DONE" /\ state' = "INITIAL"
         ELSE state' = s /\ UNCHANGED rc

(* Not enough bytes are left. *)
Left       == length - nread
Incomplete == /\ rc' = "INCOMPLETE"
              /\ UNCHANGED <<Message, state, nread, flags, str, out>>

(* A state that reads n bytes. *)
ReadBytes(at, n, to) ==
    /\ In(at)
    /\ \/ Left < n /\ Incomplete
       \/ /\ Left >= n
          /\ nread' = nread + n
          /\ Go(to)
          /\ UNCHANGED <<Message, flags, str, out>>

(* READ_STRING: a string of n bytes fits behind its length; mutant: the    *)
(* two bytes of the length are forgotten.                                  *)
FitsBarely(n) == Left >= n
Fits(n)       == Left - 2 >= n

(* Where it starts; mutant: off by one. *)
LateStart   == nread + 3
StringStart == nread + 2

(* extra is what the state reads behind the string, untested.              *)
READ_STRING(s, extra, to) ==
    \/ (Left < 2 \/ ~Fits(BYTE * BYTE - 1)) /\ Incomplete
    \/ /\ Left >= 2
       /\ \E n \in 0..(BYTE * BYTE - 1) :
             /\ Fits(n)
             /\ str' = [str EXCEPT ![s] = [data |-> StringStart, length |-> n]]
             /\ nread' = nread + 2 + n + extra
       /\ Go(to)
       /\ UNCHANGED <<Message, flags, out>>

(* A string that is there only if the CONNECT flags say so. *)
OptionalString(at, s, to) ==
    /\ In(at)
    /\ IF s \in flags THEN READ_STRING(s, 0, to)
       ELSE Go(to) /\ UNCHANGED <<Message, nread, flags, str, out>>

FirstState == [CONNECT   |-> "CONNECT_PROTOCOL_NAME",
               CONNACK   |-> "CONNACK",
               PUBLISH   |-> "PUBLISH_TOPIC_NAME",
               SUBSCRIBE |-> "SUBSCRIBE",
               PINGREQ   |-> "DONE",
               DISCONNECT |-> "DONE"]

Initial ==
    /\ In("INITIAL")
    /\ IF type \in DOMAIN FirstState THEN Go(FirstState[type])
       ELSE rc' = "ERROR" /\ UNCHANGED state
    /\ UNCHANGED <<Message, nread, flags, str, out>>

ProtocolName == In("CONNECT_PROTOCOL_NAME") /\
                READ_STRING("protocol_name", 0, "CONNECT_PROTOCOL_VERSION")

ProtocolVersion == ReadBytes("CONNECT_PROTOCOL_VERSION", 1, "CONNECT_FLAGS")

ConnectFlags ==
    /\ In("CONNECT_FLAGS")
    /\ \/ Left < 1 /\ Incomplete
       \/ /\ Left >= 1
          /\ \E w \in {{}, {"will_topic", "will_message"}},
                u \in {{}, {"username"}}, p \in {{}, {"password"}} :
                flags' = w \cup u \cup p
          /\ nread' = nread + 1
          /\ Go("CONNECT_KEEP_ALIVE")
          /\ UNCHANGED <<Message, str, out>>

KeepAlive == ReadBytes("CONNECT_KEEP_ALIVE", 2, "CONNECT_CLIENT_IDENTIFIER")

ClientIdentifier == In("CONNECT_CLIENT_IDENTIFIER") /\
                    READ_STRING("client_id", 0, "CONNECT_WILL_TOPIC")

WillTopic   == OptionalString("CONNECT_WILL_TOPIC", "will_topic", "CONNECT_WILL_MESSAGE")
WillMessage == OptionalString("CONNECT_WILL_MESSAGE", "will_message", "CONNECT_USERNAME")
Username    == OptionalString("CONNECT_USERNAME", "username", "CONNECT_PASSWORD")
Password    == OptionalString("CONNECT_PASSWORD", "password", "DONE")

Connack == ReadBytes("CONNACK", 2, "DONE")

PublishTopicName == In("PUBLISH_TOPIC_NAME") /\
                    READ_STRING("topic_name", 0, "PUBLISH_MESSAGE_ID")

(* A message id is read for QoS 1 and 2 only. *)
IdBytes == IF qos \in 1..2 THEN 2 ELSE 0

(* Two bytes must be left for an id, whatever the QoS. *)
PublishMessageId ==
    /\ In("PUBLISH_MESSAGE_ID")
    /\ \/ Left < 2 /\ Incomplete
       \/ /\ Left >= 2
          /\ nread' = nread + IdBytes
          /\ Go("PUBLISH_MESSAGE")
          /\ UNCHANGED <<Message, flags, str, out>>

(* msg_len, a uint32_t; mutant: there always is an id. *)
LessId     == (length - str["topic_name"].length - 2 - 2) % UINT
MessageLen == (length - str["topic_name"].length - 2 - IdBytes) % UINT

PublishMessage ==
    /\ In("PUBLISH_MESSAGE")
    /\ \/ Left < MessageLen /\ Incomplete
       \/ /\ Left >= MessageLen
          /\ str' = [str EXCEPT !["content"] = [data |-> nread, length |-> MessageLen]]
          /\ nread' = nread + MessageLen
          /\ Go("DONE")
          /\ UNCHANGED <<Message, flags, out>>

Subscribe == ReadBytes("SUBSCRIBE", 2, "SUBSCRIBE_TOPIC_NAME")

(* The first topic only; its QoS byte is read without a test. *)
SubscribeTopicName == In("SUBSCRIBE_TOPIC_NAME") /\ READ_STRING("topics", 1, "DONE")
-----------------------------------------------------------------------------
(* The serialiser. *)

(* The continuation bit of all length bytes but the last; mutant: none.    *)
NoContinuation == 0
Continuation   == BASE

(* A turn of the loop in mqtt_serialiser_write that emits the remaining    *)
(* length: n is what is left of it, rest what the turns after this one     *)
(* emit.  A length has four digits at most.                                *)
LengthTurn(n, rest) ==
    IF n \div BASE > 0 THEN <<(n % BASE) + Continuation>> \o rest
    ELSE <<n % BASE>>

LengthBytes(n) ==
    LET n2 == n \div BASE
        n3 == n2 \div BASE
        n4 == n3 \div BASE
    IN  LengthTurn(n, LengthTurn(n2, LengthTurn(n3, LengthTurn(n4, <<>>))))

(* How many of them mqtt_serialiser_size counts; mutant: off by one.       *)
LengthSizeLess(n) ==
    IF n <= Weight(2) THEN 1 ELSE IF n <= Weight(3) THEN 2
    ELSE IF n <= Weight(4) THEN 3 ELSE IF n <= Weight(5) THEN 4 ELSE 0
LengthSize(n) ==
    IF n <= Weight(2) - 1 THEN 1 ELSE IF n <= Weight(3) - 1 THEN 2
    ELSE IF n <= Weight(4) - 1 THEN 3 ELSE IF n <= Weight(5) - 1 THEN 4 ELSE 0

(* What mqtt_serialiser_size counts behind the header, and what            *)
(* mqtt_serialiser_write writes there, for a packet with a topic of t and  *)
(* a content of n bytes.                                                   *)
BodySize(ptype, t, n) == CASE ptype = "PUBLISH"  -> 2 + t + n
                           [] ptype = "SUBACK"   -> 3
                           [] ptype = "CONNACK"  -> 2
                           [] ptype = "PINGRESP" -> 0
Body(ptype, t, n)     == CASE ptype = "PUBLISH"  -> <<2, t, n>>
                           [] ptype = "SUBACK"   -> <<2, 1, 0>>
                           [] ptype = "CONNACK"  -> <<1, 1, 0>>
                           [] ptype = "PINGRESP" -> <<0, 0, 0>>

(* WRITE_STRING: the length that the two bytes it writes stand for.        *)
Says(t) == (((t \div (BYTE - 1)) % BYTE) * BYTE) + (t % BYTE)

Serialise(ptype, len, t, n) ==
    LET b == Body(ptype, t, n)
        l == LengthBytes(len)
    IN  out' = [length  |-> len,
                size    |-> 1 + LengthSize(len) + BodySize(ptype, t, n),
                written |-> 1 + Len(l) + b[1] + b[2] + b[3],
                header  |-> <<0>> \o l,
                topic   |-> t,
                says    |-> Says(t)]

(* publish_msg: the topic goes on as a C string, which ends at the first 0 *)
(* byte, the content as it is.                                             *)
Forward ==
    /\ rc = "DONE"
    /\ type = "PUBLISH" /\ qos = 0
    /\ \E t \in 0..str["topic_name"].length :
          LET n == str["content"].length
          IN  Serialise("PUBLISH", 2 + t + n, t, n)
    /\ UNCHANGED <<Message, state, rc, nread, flags, str>>

(* ack_msg *)
Acknowledged == {"CONNECT", "SUBSCRIBE", "PINGREQ"}
Acknowledge ==
    /\ rc = "DONE" /\ out = NoOut
    /\ \/ type = "CONNECT" /\ Serialise("CONNACK", 2, 0, 0)
       \/ type = "SUBSCRIBE" /\ Serialise("SUBACK", 3, 0, 0)
       \/ type = "PINGREQ" /\ Serialise("PINGRESP", 0, 0, 0)
    /\ UNCHANGED <<Message, state, rc, nread, flags, str>>

(* free_mqtt_msg: after the command is handled, or by clean_context if the *)
(* parser failed; a PUBLISH may have no subscriber.                        *)
Free ==
    /\ \/ rc \in {"INCOMPLETE", "ERROR"}
       \/ rc = "DONE" /\ (type \in Acknowledged => out # NoOut)
    /\ type' = "other" /\ qos' = 0 /\ length' = 0
    /\ state' = "INITIAL"
    /\ rc' = "FREE"
    /\ nread' = 0
    /\ flags' = {}
    /\ str' = [s \in Strings |-> NoString]
    /\ out' = NoOut
-----------------------------------------------------------------------------
Init ==
    /\ type = "other"
    /\ qos = 0
    /\ length = 0
    /\ state = "INITIAL"
    /\ rc = "FREE"
    /\ nread = 0
    /\ flags = {}
    /\ str = [s \in Strings |-> NoString]
    /\ out = NoOut

ConnectStep == \/ ProtocolName \/ ProtocolVersion \/ ConnectFlags \/ KeepAlive
               \/ ClientIdentifier \/ WillTopic \/ WillMessage
               \/ Username \/ Password
PublishStep == PublishTopicName \/ PublishMessageId \/ PublishMessage

Next ==
    \/ Begin
    \/ Initial
    \/ ConnectStep
    \/ Connack
    \/ PublishStep
    \/ Subscribe \/ SubscribeTopicName
    \/ Forward \/ Acknowledge
    \/ Free

Spec == Init /\ [][Next]_vars
-----------------------------------------------------------------------------
(* Properties. *)

(* The cursor and the strings have the types mqtt.h gives them; the cursor *)
(* passes the end of the payload at most by the QoS byte that SUBSCRIBE    *)
(* reads without a test.                                                   *)
TypeOK ==
    /\ type \in MessageTypes
    /\ qos \in 0..3
    /\ length \in 0..MaxLen
    /\ rc \in {"FREE", "RUNNING", "DONE", "INCOMPLETE", "ERROR"}
    /\ nread \in 0..(length + IF rc = "DONE" /\ type = "SUBSCRIBE" THEN 1 ELSE 0)
    /\ flags \subseteq Strings
    /\ str \in [Strings -> [data : Nat, length : Nat]]

End(s) == str[s].data + str[s].length

(* Every string that the parser returns lies in the payload, behind its    *)
(* length, and no two of them overlap, whatever the flags and the lengths  *)
(* in the packet say.                                                      *)
StringsInside ==
    \A s \in Strings : str[s] # NoString =>
        /\ str[s].data >= 2
        /\ End(s) <= length
        /\ \A u \in Strings \ {s} : str[u] # NoString =>
              End(s) <= str[u].data \/ End(u) <= str[s].data

(* A packet that is accepted has the strings its handler dereferences, and *)
(* the content of a PUBLISH is all the rest of its payload.                *)
HandlerHasAll ==
    rc = "DONE" =>
        /\ type = "CONNECT" => str["client_id"].data # 0
        /\ type = "SUBSCRIBE" => str["topics"].data # 0
        /\ type = "PUBLISH" => /\ str["topic_name"].data # 0
                               /\ str["content"].data = End("topic_name") + IdBytes
                               /\ End("content") = length

(* mqtt_serialiser_write fills exactly the buffer that was allocated with  *)
(* the size from mqtt_serialiser_size, at every number of length digits.   *)
WriteFits == out # NoOut => out.written = out.size

(* What is written can be read: the length bytes mean, by loop_read's      *)
(* rules, the number of bytes behind them, and a topic of less than 255    *)
(* bytes is preceded by its length.                                        *)
Readable ==
    out # NoOut =>
        /\ \A i \in 2..Len(out.header) : More(out.header[i]) <=> i < Len(out.header)
        /\ LengthOf(out.header) = out.length
        /\ out.written = Len(out.header) + out.length
        /\ out.topic < BYTE - 1 => out.says = out.topic
=============================================================================
