--------------------------- MODULE PacketDispatch ---------------------------
(* From a packet id to its handler: PacketManager's two maps and the replies *)
(* of the DB server in ProcedureReplyHandler.  A packet travels to its       *)
(* handler as a pointer in a std::any, which gives it out only under the     *)
(* static type it was put in with.                                           *)
EXTENDS SequencesExt

(* REGISTER_PACKET_LIST, in order, and REGISTER_ALL_DB_REPLY_HANDLER.        *)
PacketList == <<"TestStringPacket", "EchoStringPacket", "TestProcedurePacket",
                "SelectTest2ProcedurePacket", "Ping", "RequestFileStream">>
ReplyList == <<"CallSelectTest2ProcedurePacketReply", "DBJobReply">>

(* Ids a client or the DB server may send; Pong is never registered.         *)
PacketIds == ToSet(PacketList) \cup ToSet(ReplyList) \cup {"Pong"}

VARIABLES
    packetFactoryFunctionMap, packetHandlerMap,  \* ids, PacketManager
    replyHandlerMap,                             \* ids, ProcedureReplyHandler
    toRegister,   \* what PacketManager::Init has still to register
    received,     \* registered ids given to OnRecvPacket
    handled,      \* ids whose handler was called
    sent,         \* what handlers sent: an answer, or a request to the DB server
    terminated    \* an exception left the thread's function

vars == <<packetFactoryFunctionMap, packetHandlerMap, replyHandlerMap, toRegister, received,
          handled, sent, terminated>>

(* DBClient, whose constructor registers the reply handlers, is made by the  *)
(* first handler that uses it.                                               *)
Init ==
    /\ packetFactoryFunctionMap = {} /\ packetHandlerMap = {} /\ replyHandlerMap = {}
    /\ toRegister = PacketList
    /\ received = {} /\ handled = {} /\ sent = {}
    /\ terminated = FALSE

(* REGISTER_PACKET: RegisterPacket, then RegisterPacketHandler.              *)
RegisterPacket ==
    /\ toRegister # <<>>
    /\ packetFactoryFunctionMap' = packetFactoryFunctionMap \cup {Head(toRegister)}
    /\ packetHandlerMap' = packetHandlerMap \cup {Head(toRegister)}
    /\ toRegister' = Tail(toRegister)
    /\ UNCHANGED <<replyHandlerMap, received, handled, sent, terminated>>

-----------------------------------------------------------------------------
(* MakePacket gives a shared_ptr<IPacket>, so that is what the any holds.    *)
HeldType == "IPacket*"

(* The lambda of PacketManager::RegisterPacketHandler casts to one type, the *)
(* one of ProcedureReplyHandler to another.                                  *)
PacketCast == "IGameAndClientPacket*"
ReplyCast == "IPacket*"

(* What the HandlePacket functions send.  TestProcedurePacket executes a     *)
(* batch of DB jobs, whose jobSPBuffer is never set: SendPacket refuses it.  *)
HandlePacket(id) ==
    CASE id = "TestStringPacket" -> {"TestStringPacket"}
      [] id = "Ping" -> {"Pong"}
      [] id = "SelectTest2ProcedurePacket" -> {"CallSelectTest2ProcedurePacket"}
      [] OTHER -> {}

UsesDBClient(id) == id \in {"TestProcedurePacket", "SelectTest2ProcedurePacket"}

(* OnRecvPacket on a worker: an unknown id is dropped.                       *)
DropPacket(id) ==
    /\ toRegister = <<>>
    /\ id \notin packetHandlerMap \cap packetFactoryFunctionMap
    /\ UNCHANGED vars

CallHandler(id) ==
    /\ toRegister = <<>>
    /\ id \in packetHandlerMap \cap packetFactoryFunctionMap
    /\ received' = received \cup {id}
    /\ IF HeldType = PacketCast
       THEN /\ handled' = handled \cup {id}
            /\ sent' = sent \cup HandlePacket(id)
            /\ replyHandlerMap' = IF UsesDBClient(id) THEN ToSet(ReplyList) ELSE replyHandlerMap
            /\ UNCHANGED terminated
       ELSE /\ terminated' = TRUE
            /\ UNCHANGED <<handled, sent, replyHandlerMap>>
    /\ UNCHANGED <<packetFactoryFunctionMap, packetHandlerMap, toRegister>>

(* SPReplyHandle on a thread of DBClient: the packet comes from              *)
(* PacketManager's factories.  The rows of a select go to the session that   *)
(* asked, if it still exists; the reply to a batch commits it or rolls back. *)
SPReplyHandle(id) ==
    /\ id \in replyHandlerMap \cap packetFactoryFunctionMap
    /\ HeldType = ReplyCast
    /\ handled' = handled \cup {id}
    /\ sent' \in IF id = "DBJobReply" THEN {sent} ELSE {sent, sent \cup {"rows"}}
    /\ UNCHANGED <<packetFactoryFunctionMap, packetHandlerMap, replyHandlerMap, toRegister,
                   received, terminated>>

Next ==
    \/ /\ ~terminated
       /\ \/ RegisterPacket
          \/ \E id \in PacketIds : DropPacket(id) \/ CallHandler(id) \/ SPReplyHandle(id)
    \/ terminated /\ UNCHANGED vars

Spec == Init /\ [][Next]_vars

-----------------------------------------------------------------------------
(* README.md:66: with the registered information PacketManager turns the     *)
(* buffer into the packet object and calls the handler that belongs to it.   *)
RegisteredPacketsHandled == received \subseteq handled
=============================================================================
