--------------------------- MODULE StageLifecycle ---------------------------
(***************************************************************************)
(* The life of a PaioStage: its constructors, the rules it reads from      *)
(* files when it has no control plane, the two connections to the control  *)
(* plane (handshake, southbound), the southbound listener, and the         *)
(* destructor that joins it.                                               *)
(*                                                                         *)
(* Two threads of the stage take steps: the one that constructs and        *)
(* destroys it ("main") and the connection thread ("listener").  An        *)
(* exception that leaves the connection thread terminates the process.     *)
(* The control plane is the environment: it sends operations, a header and *)
(* a payload each, and may close the connection at any time.               *)
(*                                                                         *)
(* Core is what StageControl models in detail, here one step per rule.     *)
(***************************************************************************)
EXTENDS RulesFile, Differentiation

CONSTANTS
  Configurations,   \* options of the build, arguments of PaioStage's constructor
  Operations,       \* what the control plane may send
  MaxOperations,    \* how many it sends at most
  MaxUnread,        \* of them, how many the stage has not read
  NoPath            \* an empty path

CommunicationTypes == {"unix", "inet", "rpc", "none"}

\* Operations that are followed by a structure of their own: among the
\* housekeeping rules, those of the two listed subtypes.
HasPayload(op) ==
  \/ op.type \in {"mark_stage_ready", "collect_stats", "create_enf_rule"}
  \/ op.type = "create_hsk_rule" /\ op.rule.operation \in {"create_channel", "create_object"}

ASSUME LifecycleAssumption ==
  /\ \A c \in Configurations :
       /\ c.constructor \in {"default", "channels", "files", "explicit"}
       /\ c.channels \in Nat
       /\ c.option_default_communication_type \in CommunicationTypes
       /\ c.connection_type \in CommunicationTypes
       /\ c.execute_on_receive \in BOOLEAN
  /\ MaxOperations \in Nat /\ MaxUnread \in Nat \ {0}

VARIABLES
  config,                             \* the constructor's arguments
  main,                               \* where the constructing thread is
  listener,                           \* where the connection thread is
  process,                            \* "alive", "terminated" or "undefined"
  cause,                              \* history: what terminated it
  core,                               \* m_core
  position,                           \* of the constructors' loops
  m_ready,
  m_shutdown,
  handshake_socket,                   \* whether the handler has a socket
  southbound_socket,
  open,                               \* the control plane's end is open
  inbox,                              \* what it sent and the stage has not read
  owed,                               \* the payload it has not sent yet
  sent,                               \* history: number of its operations
  operation,                          \* the one the listener handles
  status,                             \* of its handling, or of the last rule
  handled,                            \* history: operations taken up
  answers                             \* history: <<operation, AckCode>> written

peerVars == <<open, owed, sent>>
socketVars == <<handshake_socket, southbound_socket>>
listenVars == <<operation, status, handled, answers>>
vars == <<config, main, listener, process, cause, core, position, m_ready,
          m_shutdown, socketVars, peerVars, inbox, listenVars>>

Nothing == [type |-> "none"]

TypeOK ==
  /\ config \in Configurations
  /\ main \in {"core", "agent", "channels", "objects", "connect", "handshake",
               "southbound", "running", "joining", "destroyed", "failed"}
  /\ listener \in {"none", "handshake", "information", "address", "read",
                   "payload", "execute", "answer", "ended"}
  /\ position \in Nat
  /\ process \in {"alive", "terminated", "undefined"}
  /\ cause \in {"none", "no_socket", "handshake", "operation", "lost"}
  /\ m_ready \in BOOLEAN /\ m_shutdown \in BOOLEAN
  /\ handshake_socket \in BOOLEAN /\ southbound_socket \in BOOLEAN
  /\ open \in BOOLEAN
  /\ \A i \in DOMAIN inbox :
       inbox[i][1] \in {"operation", "payload", "address"}
  /\ sent \in 0..MaxOperations
  /\ operation \in Operations \cup {Nothing}
  /\ owed \in Operations \cup {Nothing}
  /\ status \in {"ok", "error"}
  /\ core.enforced \subseteq core.table
  /\ Len(answers) <= Len(handled) /\ Len(handled) <= sent

-----------------------------------------------------------------------------
(* Core and Agent.                                                         *)

EmptyCore == [table |-> {}, enforced |-> {}, channels |-> {}, objects |-> {}]

ChannelToken(workflow, type, context) ==
  Message(DefaultChannelClassifiers, <<workflow, type, context>>)

ObjectToken(type, context) == Message(DefaultObjectClassifiers, <<type, context>>)

\* Core::create_channel: neither the token nor the identifier may be there.
create_channel(c, id, token) ==
  IF \E k \in c.channels : k.id = id \/ k.token = token
    THEN [core |-> c, status |-> "error"]
    ELSE [core |-> [c EXCEPT !.channels = @ \cup {[id |-> id, token |-> token]}],
          status |-> "ok"]

\* Core::create_enforcement_object, down to SubmissionQueue.
create_enforcement_object(c, channel_id, id, token, type) ==
  IF \/ ~\E k \in c.channels : k.id = channel_id
     \/ \E o \in c.objects : o.channel_id = channel_id /\ o.token = token
    THEN [core |-> c, status |-> "error"]
    ELSE [core |-> [c EXCEPT !.objects = @ \cup {[channel_id |-> channel_id,
                      id |-> id, token |-> token, type |-> type]}],
          status |-> "ok"]

\* Core's parameterized constructor: channel i, told apart by workflow, with an
\* object if so wished.
CreateDefaultChannel(c, i, objects) ==
  LET made == create_channel(c, i, ChannelToken(i, 0, 0))
  IN  IF objects /\ made.status = "ok"
        THEN create_enforcement_object(made.core, i, 0, ObjectToken(0, 0), "noop").core
        ELSE made.core

\* Core::execute_housekeeping_rule for a rule that is not enforced yet.
execute_housekeeping_rule(c, r) ==
  LET p == r.properties
      made == IF r.operation = "create_channel"
                THEN create_channel(c, r.channel_id, ChannelToken(p[2], p[3], p[4]))
                ELSE create_enforcement_object(c, r.channel_id, r.object_id,
                                               ObjectToken(p[2], p[3]), p[4])
  IN  IF made.status = "ok"
        THEN [made EXCEPT !.core.enforced = @ \cup {r}] ELSE made

\* Agent::employ_housekeeping_rule.
employ_housekeeping_rule(c, r, on_receive) ==
  LET inserted == [c EXCEPT !.table = @ \cup {r}]
  IN  IF \E q \in c.table : q.rule_id = r.rule_id
        THEN [core |-> c, status |-> "error"]
      ELSE IF on_receive THEN execute_housekeeping_rule(inserted, r)
      ELSE [core |-> inserted, status |-> "ok"]

\* Agent::employ_enforcement_rule, down to obj_configure: a limiter takes the
\* operations of DRLConfiguration, and reads past an empty vector for one that
\* comes without its value.
employ_enforcement_rule(c, r) ==
  LET found == {o \in c.objects : o.channel_id = r.channel_id /\ o.id = r.object_id}
      object == CHOOSE o \in found : TRUE
  IN  IF found = {} THEN "error"
      ELSE IF object.type = "noop" THEN "ok"
      ELSE IF r.operation \notin {1, 2, 4} THEN "not_supported"
      ELSE IF Len(r.configurations) < (IF r.operation = 1 THEN 2 ELSE 1)
        THEN "undefined"
      ELSE "ok"

\* Agent::collect_channel_statistics and its detailed counterpart: of one
\* channel, or with -1 of all.  Channels keep statistics, which is the default.
collect_channel_statistics(c, channel_id) ==
  IF \E k \in c.channels : channel_id \in {k.id, -1} THEN "ok" ELSE "error"

-----------------------------------------------------------------------------
(* Construction.                                                           *)

option_default_communication_type == config.option_default_communication_type

\* The type Agent and ConnectionManager work with.
connection_type ==
  IF config.constructor = "explicit" THEN config.connection_type
  ELSE option_default_communication_type

\* The limit on the rules Agent takes from the file.
instances == IF config.constructor = "default" THEN -1 ELSE config.channels

\* Only one constructor passes execute_on_receive on.
execute_on_receive ==
  config.constructor = "files" => config.execute_on_receive

FileMode == connection_type = "none"

Init ==
  /\ config \in Configurations
  /\ main = "core"
  /\ listener = "none"
  /\ process = "alive"
  /\ cause = "none"
  /\ core = EmptyCore
  /\ position = 1
  /\ m_ready = FALSE
  /\ m_shutdown = FALSE
  /\ handshake_socket = FALSE
  /\ southbound_socket = FALSE
  /\ open = FALSE
  /\ inbox = <<>>
  /\ owed = Nothing
  /\ sent = 0
  /\ operation = Nothing
  /\ status = "error"
  /\ handled = <<>>
  /\ answers = <<>>

Alive == process = "alive"

\* The loop over the default channels, and its end.
ConstructCore ==
  /\ Alive
  /\ main = "core"
  /\ IF config.constructor # "default" /\ position <= config.channels
       THEN /\ core' = CreateDefaultChannel(core, position,
                                            config.default_object_creation)
            /\ position' = position + 1
            /\ UNCHANGED main
       ELSE main' = "agent" /\ UNCHANGED <<core, position>>
  /\ UNCHANGED <<config, listener, process, cause, m_ready, m_shutdown,
                 socketVars, peerVars, inbox, listenVars>>

\* Mutant: the objects come first.
FileRulesObjectsFirst(kind) ==
  IF kind = "channels" THEN get_create_object_rules(config.housekeeping, instances)
  ELSE get_create_channel_rules(config.housekeeping, instances)

\* What the parser makes of the housekeeping file in each of its two calls.
FileRules(kind) ==
  IF kind = "channels" THEN get_create_channel_rules(config.housekeeping, instances)
  ELSE get_create_object_rules(config.housekeeping, instances)

\* The loop has come to the end of the rules.
AllEmployed == \A i \in DOMAIN FileRules(main).rules : i < position

\* Agent's constructors without a control plane: the calls of the parser in
\* insert_housekeeping_rules_from_file.  An exception leaves the constructor.
ReadRulesFromFile(kind) ==
  /\ Alive
  /\ FileMode
  /\ \/ kind = "channels" /\ main = "agent" /\ config.housekeeping # NoPath
     \/ kind = "objects" /\ main = "channels" /\ AllEmployed
  /\ main' = IF FileRules(kind).end = "ok" THEN kind ELSE "failed"
  /\ process' = IF FileRules(kind).end = "undefined" THEN "undefined" ELSE "alive"
  /\ position' = 1
  /\ UNCHANGED <<config, listener, cause, core, m_ready, m_shutdown, socketVars,
                 peerVars, inbox, listenVars>>

\* Its two loops.  The status is that of the last rule.
EmployRuleFromFile ==
  /\ Alive
  /\ main \in {"channels", "objects"}
  /\ \E i \in DOMAIN FileRules(main).rules :
       LET employed == employ_housekeeping_rule(core, FileRules(main).rules[i],
                                                execute_on_receive)
       IN  /\ i >= position
           /\ \A j \in DOMAIN FileRules(main).rules : j < position \/ i <= j
           /\ core' = employed.core
           /\ status' = employed.status
           /\ position' = i + 1
  /\ UNCHANGED <<config, main, listener, process, cause, m_ready, m_shutdown,
                 socketVars, peerVars, inbox, operation, handled, answers>>

\* insert_enforcement_rules_from_file: how it ends.
insert_enforcement_rules_from_file(c, lines) ==
  LET rules == get_enforcement_rules(lines, -1)
  IN  IF lines = NoPath THEN "ok"
      ELSE IF rules.end # "ok" THEN rules.end
      ELSE IF \E i \in DOMAIN rules.rules :
                employ_enforcement_rule(c, rules.rules[i]) = "undefined"
        THEN "undefined"
      ELSE "ok"

\* Mutant: the stage is marked ready whatever became of the housekeeping rules.
InsertEnforcementRulesAlways ==
  LET end == IF status = "ok"
               THEN insert_enforcement_rules_from_file(core, config.enforcement)
               ELSE "ok"
  IN  /\ Alive
      /\ main = "objects"
      /\ AllEmployed
      /\ main' = IF end = "ok" THEN "connect" ELSE "failed"
      /\ process' = IF end = "undefined" THEN "undefined" ELSE "alive"
      /\ m_ready' = (end = "ok")
      /\ UNCHANGED <<config, listener, cause, core, position, m_shutdown,
                     socketVars, peerVars, inbox, listenVars>>

\* After the housekeeping rules, if the last one went well.
InsertEnforcementRules ==
  LET end == IF status = "ok"
               THEN insert_enforcement_rules_from_file(core, config.enforcement)
               ELSE "ok"
  IN  /\ Alive
      /\ main = "objects"
      /\ AllEmployed
      /\ main' = IF end = "ok" THEN "connect" ELSE "failed"
      /\ process' = IF end = "undefined" THEN "undefined" ELSE "alive"
      /\ m_ready' = (status = "ok" /\ end = "ok")
      /\ UNCHANGED <<config, listener, cause, core, position, m_shutdown,
                     socketVars, peerVars, inbox, listenVars>>

\* Agent's constructors with a control plane, or with an empty path: no file.
WaitForRules ==
  /\ Alive
  /\ main = "agent"
  /\ ~FileMode \/ config.housekeeping = NoPath
  /\ main' = "connect"
  /\ UNCHANGED <<config, listener, process, cause, core, position, m_ready,
                 m_shutdown, socketVars, peerVars, inbox, listenVars>>

\* connect_to_control_plane: whether the handler is constructed, with a socket.
\* The default constructor of ConnectionOptions refuses rpc.
ConnectOutcomes(type) ==
  CASE type \in {"unix", "inet"} -> {"socket", "throws"}
    [] OTHER -> {"no_socket"}

ConstructHandshakeHandler ==
  /\ Alive
  /\ main = "connect"
  /\ \E outcome \in IF connection_type = "rpc" /\ config.constructor # "explicit"
                      THEN {"throws"} ELSE ConnectOutcomes(connection_type) :
       /\ main' = IF outcome = "throws" THEN "failed"
                  ELSE IF connection_type = "none" THEN "southbound"
                  ELSE "handshake"
       /\ handshake_socket' = (outcome = "socket")
       /\ open' = (outcome = "socket")
  /\ listener' = IF main' = "handshake" THEN "handshake" ELSE "none"
  /\ UNCHANGED <<config, process, cause, core, position, m_ready, m_shutdown,
                 southbound_socket, owed, sent, inbox, listenVars>>

-----------------------------------------------------------------------------
(* The connection thread.                                                  *)

\* An exception leaves the thread: std::terminate.
Terminate(why) ==
  /\ process' = "terminated"
  /\ cause' = why
  /\ UNCHANGED <<config, main, listener, core, position, m_ready, m_shutdown,
                 socketVars, peerVars>>

\* A read takes what is there, or returns 0 when the other end is closed.
Reads(kind) == inbox # <<>> /\ inbox[1][1] = kind /\ inbox' = Tail(inbox)

EndOfStream == inbox = <<>> /\ ~open /\ UNCHANGED inbox

\* HandshakeConnectionHandler::listen up to the operation.
HandshakeListen ==
  /\ Alive
  /\ listener = "handshake"
  /\ IF ~handshake_socket
       THEN Terminate("no_socket") /\ UNCHANGED <<inbox, listenVars>>
     ELSE \/ EndOfStream /\ Terminate("handshake") /\ UNCHANGED listenVars
          \/ /\ Reads("operation")
             /\ IF inbox[1][2].type = "stage_handshake"
                  THEN /\ listener' = "information"
                       /\ UNCHANGED <<config, main, process, cause, core,
                                      position, m_ready, m_shutdown,
                                      socketVars, peerVars>>
                  ELSE Terminate("handshake")
             /\ UNCHANGED listenVars

\* stage_handshake: the stage writes who it is; a write to a closed connection
\* may still succeed.
StageHandshake ==
  /\ Alive
  /\ listener = "information"
  /\ \/ /\ listener' = "address"
        /\ UNCHANGED <<config, main, process, cause, core, position, m_ready,
                       m_shutdown, socketVars, peerVars>>
     \/ ~open /\ Terminate("handshake")
  /\ UNCHANGED <<inbox, listenVars>>

\* It reads the address of the southbound connection.
SetSouthboundSocketInfo ==
  /\ Alive
  /\ listener = "address"
  /\ \/ /\ Reads("address")
        /\ listener' = "ended"
        /\ UNCHANGED <<config, main, process, cause, core, position, m_ready,
                       m_shutdown, socketVars, peerVars>>
     \/ EndOfStream /\ Terminate("handshake")
  /\ UNCHANGED listenVars

\* ConnectionManager::connect goes on once the handshake thread is joined.
JoinHandshake ==
  /\ Alive
  /\ main = "handshake"
  /\ listener = "ended"
  /\ main' = "southbound"
  /\ listener' = "none"
  /\ UNCHANGED <<config, process, cause, core, position, m_ready, m_shutdown,
                 socketVars, peerVars, inbox, listenVars>>

\* The southbound handler is made for the default type, whatever the type of
\* this stage; the thread is spawned by the type of the stage.
ConstructSouthboundHandler ==
  /\ Alive
  /\ main = "southbound"
  /\ \E outcome \in ConnectOutcomes(option_default_communication_type) :
       /\ main' = IF outcome = "throws" THEN "failed" ELSE "running"
       /\ southbound_socket' = (outcome = "socket")
       /\ open' = (outcome = "socket")
  /\ listener' = IF main' = "running" /\ connection_type # "none" THEN "read"
                 ELSE "none"
  /\ inbox' = <<>>
  /\ owed' = Nothing
  /\ UNCHANGED <<config, process, cause, core, position, m_ready, m_shutdown,
                 handshake_socket, sent, listenVars>>

\* Mutant: the end of the stream is an error.
ListenFailsAtEnd ==
  /\ EndOfStream /\ Terminate("lost")
  /\ UNCHANGED listenVars

\* Mutant: the end of the stream is read again and again.
ListenRetriesAtEnd ==
  /\ m_shutdown /\ Reads("operation")
  /\ listener' = "ended"
  /\ UNCHANGED <<config, main, process, cause, core, position, m_ready, m_shutdown,
                 socketVars, peerVars, listenVars>>

\* listen: the end of the stream, or the shutdown of the stage, ends the loop.
\* Shutdown is seen once something is read, which is then dropped.
ListenEnds ==
  /\ EndOfStream \/ (m_shutdown /\ Reads("operation"))
  /\ listener' = "ended"
  /\ UNCHANGED <<config, main, process, cause, core, position, m_ready, m_shutdown,
                 socketVars, peerVars, listenVars>>

\* handle_control_operation: operations that are not there, or not for this
\* handler, throw.
Unsupported(op) ==
  \/ op.type \in {"stage_handshake", "create_dif_rule", "remove_rule", "unknown"}
  \/ op.type = "create_hsk_rule" /\ op.rule.operation = "no_op"
  \/ op.type = "collect_detailed_stats" /\ ~op.listed

UnsupportedOperation ==
  /\ ~m_shutdown
  /\ Reads("operation")
  /\ Unsupported(inbox[1][2])
  /\ handled' = Append(handled, inbox[1][2])
  /\ Terminate("operation")
  /\ UNCHANGED <<operation, status, answers>>

\* A housekeeping rule of a subtype that the switch does not have falls through
\* it, to an acknowledgement of error.
StatusWithoutPayload(op) ==
  IF op.type = "collect_detailed_stats" THEN collect_channel_statistics(core, -1)
  ELSE "error"

HandleControlOperation ==
  /\ ~m_shutdown
  /\ Reads("operation")
  /\ ~Unsupported(inbox[1][2])
  /\ operation' = inbox[1][2]
  /\ handled' = Append(handled, inbox[1][2])
  /\ \/ HasPayload(inbox[1][2]) /\ listener' = "payload" /\ UNCHANGED status
     \/ /\ ~HasPayload(inbox[1][2])
        /\ listener' = IF inbox[1][2].type = "exec_hsk_rules" THEN "execute" ELSE "answer"
        /\ status' = StatusWithoutPayload(inbox[1][2])
  /\ UNCHANGED <<config, main, process, cause, core, position, m_ready,
                 m_shutdown, socketVars, peerVars, answers>>

Listen ==
  /\ Alive
  /\ listener = "read"
  /\ IF ~southbound_socket
       THEN Terminate("no_socket") /\ UNCHANGED <<inbox, listenVars>>
       ELSE ListenEnds \/ UnsupportedOperation \/ HandleControlOperation

\* Core::execute_housekeeping_rules: the pending rules in the table's order,
\* which is any.  The first error ends it, and with nothing to do it is one.
ExecuteHousekeepingRules ==
  /\ Alive
  /\ listener = "execute"
  /\ \/ /\ core.table \subseteq core.enforced
        /\ listener' = "answer"
        /\ UNCHANGED <<core, status>>
     \/ \E r \in core.table \ core.enforced :
          LET executed == execute_housekeeping_rule(core, r)
          IN  /\ core' = executed.core
              /\ status' = executed.status
              /\ listener' = IF executed.status = "error" THEN "answer" ELSE "execute"
  /\ UNCHANGED <<config, main, process, cause, position, m_ready, m_shutdown,
                 socketVars, peerVars, inbox, operation, handled, answers>>

\* Mutant: the acknowledgement is for the insertion in the table.
EffectAcksInsertion(op) ==
  CASE op.type = "mark_stage_ready" ->
         [core |-> core, status |-> IF op.mark THEN "ok" ELSE "error",
          ready |-> m_ready \/ op.mark]
    [] op.type = "create_hsk_rule" ->
         [core |-> employ_housekeeping_rule(core, op.rule, execute_on_receive).core,
          status |-> "ok", ready |-> m_ready]
    [] op.type = "create_enf_rule" ->
         [core |-> core, ready |-> m_ready,
          status |-> IF employ_enforcement_rule(core, op.rule) = "ok"
                     THEN "ok" ELSE "error"]
    [] op.type = "collect_stats" ->
         [core |-> core, ready |-> m_ready,
          status |-> collect_channel_statistics(core, op.channel_id)]

\* mark_stage_as_ready, create_housekeeping_rule, create_enforcement_rule and
\* collect_statistics, once the structure is read.
Effect(op) ==
  CASE op.type = "mark_stage_ready" ->
         [core |-> core, status |-> IF op.mark THEN "ok" ELSE "error",
          ready |-> m_ready \/ op.mark]
    [] op.type = "create_hsk_rule" ->
         LET employed == employ_housekeeping_rule(core, op.rule, execute_on_receive)
         IN  [core |-> employed.core, status |-> employed.status, ready |-> m_ready]
    [] op.type = "create_enf_rule" ->
         [core |-> core, ready |-> m_ready,
          status |-> IF employ_enforcement_rule(core, op.rule) = "ok"
                     THEN "ok" ELSE "error"]
    [] op.type = "collect_stats" ->
         [core |-> core, ready |-> m_ready,
          status |-> collect_channel_statistics(core, op.channel_id)]

\* Mutant: a payload that does not come ends the handling without an answer.
ReadPayloadAnswersLess ==
  /\ Alive
  /\ listener = "payload"
  /\ \/ /\ Reads("payload")
        /\ core' = Effect(operation).core
        /\ status' = Effect(operation).status
        /\ m_ready' = Effect(operation).ready
        /\ listener' = IF status' = "ok" THEN "answer" ELSE "read"
     \/ EndOfStream /\ status' = "error" /\ listener' = "answer"
                    /\ UNCHANGED <<core, m_ready>>
  /\ UNCHANGED <<config, main, process, cause, position, m_shutdown,
                 socketVars, peerVars, operation, handled, answers>>

\* The structure, or the end of the stream: an answer is written all the same,
\* except that collect_statistics throws.
ReadPayload ==
  /\ Alive
  /\ listener = "payload"
  /\ \/ /\ Reads("payload")
        /\ core' = Effect(operation).core
        /\ status' = Effect(operation).status
        /\ m_ready' = Effect(operation).ready
        /\ process' = IF /\ operation.type = "create_enf_rule"
                         /\ employ_enforcement_rule(core, operation.rule) = "undefined"
                        THEN "undefined" ELSE "alive"
        /\ UNCHANGED cause
     \/ /\ EndOfStream
        /\ status' = "error"
        /\ IF operation.type = "collect_stats"
             THEN process' = "terminated" /\ cause' = "lost"
             ELSE UNCHANGED <<process, cause>>
        /\ UNCHANGED <<core, m_ready>>
  /\ listener' = "answer"
  /\ UNCHANGED <<config, main, position, m_shutdown, socketVars,
                 peerVars, operation, handled, answers>>

\* collect_statistics writes only what it has collected; every other handler
\* ends with an answer, an ACK or a structure of statistics.
HasAnswer == operation.type = "collect_stats" => status = "ok"

\* The answer is written.  When it cannot be, or there is none, listen throws.
WriteAnswer ==
  /\ Alive
  /\ listener = "answer"
  /\ \/ /\ HasAnswer
        /\ answers' = Append(answers, <<operation, status>>)
        /\ operation' = Nothing
        /\ listener' = "read"
        /\ UNCHANGED <<config, main, process, cause, core, position, m_ready,
                       m_shutdown, socketVars, peerVars>>
     \/ /\ ~open \/ ~HasAnswer
        /\ Terminate("lost")
        /\ UNCHANGED <<operation, answers>>
  /\ UNCHANGED <<inbox, status, handled>>

ListenerStep ==
  \/ HandshakeListen \/ StageHandshake \/ SetSouthboundSocketInfo
  \/ Listen \/ ReadPayload \/ ExecuteHousekeepingRules \/ WriteAnswer

-----------------------------------------------------------------------------
(* The destructor.                                                         *)

\* ~PaioStage calls shutdown_connection, then its members are destroyed.
ShutdownConnection ==
  /\ Alive
  /\ main = "running"
  /\ main' = "joining"
  /\ m_shutdown' = TRUE
  /\ UNCHANGED <<config, listener, process, cause, core, position, m_ready,
                 socketVars, peerVars, inbox, listenVars>>

\* disconnect_from_control_plane: join, if there is a thread.
DisconnectFromControlPlane ==
  /\ Alive
  /\ main = "joining"
  /\ connection_type # "none" => listener = "ended"
  /\ main' = "destroyed"
  /\ UNCHANGED <<config, listener, process, cause, core, position, m_ready, m_shutdown,
                 socketVars, peerVars, inbox, listenVars>>

MainStep ==
  \/ ConstructCore \/ ReadRulesFromFile("channels") \/ ReadRulesFromFile("objects")
  \/ EmployRuleFromFile \/ InsertEnforcementRules \/ WaitForRules
  \/ ConstructHandshakeHandler \/ JoinHandshake \/ ConstructSouthboundHandler
  \/ DisconnectFromControlPlane

-----------------------------------------------------------------------------
(* The control plane, modelled from how the handlers use it.               *)

\* One operation during the handshake, any afterwards.
CanSend ==
  /\ Alive /\ open /\ owed = Nothing
  /\ sent < MaxOperations /\ Len(inbox) < MaxUnread
  /\ southbound_socket \/ (listener = "handshake" /\ inbox = <<>>)

SendOperation(op) ==
  /\ CanSend
  /\ inbox' = Append(inbox, <<"operation", op>>)
  /\ owed' = IF HasPayload(op) /\ southbound_socket THEN op ELSE Nothing
  /\ sent' = sent + 1
  /\ UNCHANGED <<config, main, listener, process, cause, core, position, m_ready,
                 m_shutdown, socketVars, open, listenVars>>

SendPayload ==
  /\ Alive
  /\ open
  /\ owed # Nothing
  /\ Len(inbox) < MaxUnread
  /\ inbox' = Append(inbox, <<"payload", owed>>)
  /\ owed' = Nothing
  /\ UNCHANGED <<config, main, listener, process, cause, core, position, m_ready,
                 m_shutdown, socketVars, open, sent, listenVars>>

SendAddress ==
  /\ Alive
  /\ open
  /\ listener = "address"
  /\ inbox = <<>>
  /\ inbox' = << <<"address", Nothing>> >>
  /\ UNCHANGED <<config, main, listener, process, cause, core, position, m_ready,
                 m_shutdown, socketVars, peerVars, listenVars>>

CloseConnection ==
  /\ Alive
  /\ open
  /\ open' = FALSE
  /\ UNCHANGED <<config, main, listener, process, cause, core, position, m_ready,
                 m_shutdown, socketVars, owed, sent, inbox, listenVars>>

ControlPlane ==
  \/ \E op \in Operations : SendOperation(op)
  \/ SendPayload \/ SendAddress \/ CloseConnection

Next == MainStep \/ ShutdownConnection \/ ListenerStep \/ ControlPlane

\* The stage's threads run: the connection thread, and the one that waits for it
\* in the destructor.  When the application destroys the stage, and what the
\* control plane does, is up to them.
Fairness == WF_vars(DisconnectFromControlPlane) /\ WF_vars(ListenerStep)

Spec == Init /\ [][Next]_vars /\ Fairness

-----------------------------------------------------------------------------
(* Properties.                                                             *)

Answered(i) == answers[i][1]

\* The southbound protocol: the operations the listener took up are answered
\* in the order they came, once each, and before the next one is read.
OneAnswerEach ==
  /\ \A i \in DOMAIN answers : Answered(i) = handled[i]
  /\ Alive /\ listener \in {"read", "ended"} => Len(answers) = Len(handled)

\* An acknowledgement with AckCode::ok tells the control plane what the stage
\* has done, for good: the rule is in the table and, executed on receive, in
\* force; the object of an enforcement rule exists; the stage is ready.
OkMeansDone ==
  \A i \in DOMAIN answers :
    LET op == Answered(i)
    IN  answers[i][2] = "ok" =>
          /\ op.type = "mark_stage_ready" => m_ready
          /\ op.type = "create_hsk_rule" =>
               /\ op.rule \in core.table
               /\ execute_on_receive => op.rule \in core.enforced
          /\ op.type = "create_enf_rule" =>
               \E o \in core.objects : /\ o.channel_id = op.rule.channel_id
                                       /\ o.id = op.rule.object_id

\* The rule of the file that insert_housekeeping_rules_from_file employs last.
LastRule ==
  LET objects == FileRules("objects").rules
      channels == FileRules("channels").rules
  IN  IF DOMAIN objects # {} THEN objects[Max(DOMAIN objects)]
      ELSE channels[Max(DOMAIN channels)]

\* employ_housekeeping_rule of r returned ok.
Accepted(r) == r \in core.table /\ (execute_on_receive => r \in core.enforced)

\* A stage accepts requests only when someone said so: with a control plane, a
\* mark_stage_ready operation that it took up and that asks for it; without one,
\* Agent's constructor, at the end of both files, and only if the last
\* housekeeping rule was accepted: that rule is in the table and, executed on
\* receive, in force.  (The comment of mark_ready asks that all of them have been
\* executed.  The code does not: the status is that of the last one.)
ReadyForAReason ==
  m_ready =>
    IF FileMode
      THEN /\ main \notin {"core", "agent", "channels", "objects"}
           /\ Accepted(LastRule)
    ELSE \E i \in DOMAIN handled :
           handled[i].type = "mark_stage_ready" /\ handled[i].mark

\* What becomes of an object rule whose channel exists: it is in force, unless
\* its identifier was taken or its channel already has an object with its token.
Settled(c, r) ==
  (\E k \in c.channels : k.id = r.channel_id) =>
    \/ r \in c.enforced
    \/ \E q \in c.table \ {r} : q.rule_id = r.rule_id
    \/ \E o \in c.objects :
         /\ o.channel_id = r.channel_id
         /\ o.token = ObjectToken(r.properties[2], r.properties[3])

\* insert_housekeeping_rules_from_file: an object is not lost because its line
\* comes before the one of its channel.  Once the file is read, each object rule
\* is settled.
ObjectsFindTheirChannels ==
  ( /\ FileMode /\ execute_on_receive /\ config.housekeeping # NoPath
    /\ main \notin {"core", "agent", "channels", "objects", "failed"} ) =>
    LET rules == get_create_object_rules(config.housekeeping, instances).rules
    IN  \A i \in DOMAIN rules : Settled(core, rules[i])

\* The connection thread terminates the process only in the middle of an
\* operation, in the middle of the handshake, or for want of a socket; and it
\* lacks a socket only if the stage asks for rpc or for another type than the one
\* the library was built for.  That the control plane goes away between two
\* operations is harmless.
TerminatesInMidOperation ==
  process = "terminated" =>
    \/ cause = "handshake" /\ main = "handshake"
    \/ /\ cause = "no_socket"
       /\ \/ connection_type = "rpc"
          \/ connection_type # option_default_communication_type
    \/ Len(handled) > Len(answers)

\* ~PaioStage returns once the control plane has closed the connection, or the
\* listener has terminated the process.  (While the connection is open the
\* listener may wait in a read for ever.)
DestructorEnds ==
  main = "joining" /\ ~open ~> main = "destroyed" \/ ~Alive

\* "The default HousekeepingRules will be inserted and enforced at system
\* creation."
DefaultRulesEnforced ==
  FileMode /\ main = "connect" =>
    Cardinality(core.enforced) = Len(config.housekeeping)
=============================================================================
