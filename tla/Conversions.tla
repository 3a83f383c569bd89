---------------------------- MODULE Conversions -----------------------------
(***************************************************************************)
(* The conversions of the A2A service between its wire types and the core  *)
(* types (grpc/convert.rs, core/task_types.rs).                            *)
(*                                                                         *)
(* JSON values and the values of a protobuf Struct are two sets of their   *)
(* own: ToJson and ToProto stand for prost_value_to_json and               *)
(* json_to_prost_value.  Every number becomes an f64 on the way out, and   *)
(* an infinity, a NaN or an unset value becomes null on the way in, so     *)
(* neither undoes the other everywhere; Plain are the wire values, finite  *)
(* and set at every depth, that come back as they were.                    *)
(***************************************************************************)
EXTENDS Naturals, Sequences, TaskStates

CONSTANTS Json, JsonObjects,    \* JSON values, and the objects among them
          ProtoValues, Structs, \* protobuf values, and the structs among them
          EmptyStruct,          \* Struct::default()
          Plain, ToJson, ToProto,
          MessageUuids,         \* strings that parse as a message id
          NotUuid,              \* ... and one that does not
          Texts,                \* texts, URLs and bytes
          Extras                \* file name, media type and metadata of a wire part

ASSUME ConversionAssumption ==
  /\ JsonObjects \subseteq Json /\ Structs \subseteq ProtoValues
  /\ EmptyStruct \in Structs /\ Plain \subseteq ProtoValues
  /\ ToJson \in [ProtoValues -> Json] /\ ToProto \in [Json -> ProtoValues]
  /\ \A v \in Plain : ToProto[ToJson[v]] = v
  /\ \A v \in ProtoValues : ToJson[v] \in JsonObjects <=> v \in Structs
  /\ \A j \in JsonObjects : ToProto[j] \in Structs
  /\ NotUuid \notin MessageUuids
  /\ [absent |-> TRUE] \notin Json \cup ProtoValues \cup MessageUuids

\* Option::None, an empty string, and a protobuf enum that was not set.
Absent == [absent |-> TRUE]

-----------------------------------------------------------------------------
(* States and roles *)

\* core_state_to_proto
CoreStateToProto ==
  [Submitted     |-> "TASK_STATE_SUBMITTED",      Working      |-> "TASK_STATE_WORKING",
   Completed     |-> "TASK_STATE_COMPLETED",      Failed       |-> "TASK_STATE_FAILED",
   Canceled      |-> "TASK_STATE_CANCELED",       Rejected     |-> "TASK_STATE_REJECTED",
   InputRequired |-> "TASK_STATE_INPUT_REQUIRED", AuthRequired |-> "TASK_STATE_AUTH_REQUIRED"]

\* proto_state_to_core: a state outside the domain is refused, the unspecified one too.
ProtoStateToCore ==
  [TASK_STATE_SUBMITTED      |-> "Submitted",     TASK_STATE_WORKING       |-> "Working",
   TASK_STATE_COMPLETED      |-> "Completed",     TASK_STATE_FAILED        |-> "Failed",
   TASK_STATE_CANCELED       |-> "Canceled",      TASK_STATE_REJECTED      |-> "Rejected",
   TASK_STATE_INPUT_REQUIRED |-> "InputRequired", TASK_STATE_AUTH_REQUIRED |-> "AuthRequired"]

StateParses(p) == p \in DOMAIN ProtoStateToCore

ProtoRole == {"User", "Agent", "Unspecified"}

RoleParses(r) == r \in {"User", "Agent"}

-----------------------------------------------------------------------------
(* Parts *)

ProtoPart == [content : [kind : {"text", "url", "raw"}, value : Texts] \cup
                        [kind : {"data"}, value : ProtoValues] \cup {Absent},
              extras  : Extras]

Part == [type : {"text", "url", "bytes"}, value : Texts] \cup
        [type : {"data"}, value : Json]

PartParses(p) == p.content # Absent

\* proto_part_to_core: the extras are dropped.
ProtoPartToCore(p) ==
  [type  |-> IF p.content.kind = "raw" THEN "bytes" ELSE p.content.kind,
   value |-> IF p.content.kind = "data" THEN ToJson[p.content.value] ELSE p.content.value]

\* The content core_part_to_proto sends.
CorePartToProto(p) ==
  [kind  |-> IF p.type = "bytes" THEN "raw" ELSE p.type,
   value |-> IF p.type = "data" THEN ToProto[p.value] ELSE p.value]

-----------------------------------------------------------------------------
(* Messages *)

AnyMessageId == MessageUuids \cup {NotUuid}

ProtoMessage == [message_id : AnyMessageId \cup {Absent},
                 role       : ProtoRole,
                 parts      : Seq(ProtoPart),
                 metadata   : Structs \cup {Absent}]

\* TaskMessage
CoreMessage == [id : MessageUuids, role : {"User", "Agent"}, parts : Seq(Part),
                metadata : Json \cup {Absent}]

\* proto_message_to_core: a message without parts is a message.
MessageParses(m) ==
  /\ RoleParses(m.role)
  /\ \A i \in DOMAIN m.parts : PartParses(m.parts[i])
  /\ m.message_id # NotUuid

\* A message without an id gets a fresh one.
ProtoMessageToCore(m, fresh) ==
  [id       |-> IF m.message_id = Absent THEN fresh ELSE m.message_id,
   role     |-> m.role,
   parts    |-> [i \in DOMAIN m.parts |-> ProtoPartToCore(m.parts[i])],
   metadata |-> IF m.metadata = Absent THEN Absent ELSE ToJson[m.metadata]]

\* json_to_prost_struct: what is not an object becomes an empty struct.
JsonToStruct(j) == IF j \in JsonObjects THEN ToProto[j] ELSE EmptyStruct

CoreMessageToProto(m) ==
  [message_id |-> m.id,
   role       |-> m.role,
   contents   |-> [i \in DOMAIN m.parts |-> CorePartToProto(m.parts[i])],
   metadata   |-> IF m.metadata = Absent THEN Absent ELSE JsonToStruct(m.metadata)]

=============================================================================
