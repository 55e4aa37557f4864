------------------------ MODULE StageLifecycleProofs ------------------------
(***************************************************************************)
(* What a stage promises over its life, for any configurations, rules      *)
(* files and control operations.                                           *)
(*                                                                         *)
(* Core only grows, so what was promised stays true.  Protocol says what   *)
(* the listener owes the control plane, Phases where the two threads can   *)
(* be at the same time, Settling how far the rules of the file have come.  *)
(***************************************************************************)
EXTENDS StageLifecycle, SequenceTheorems, TLAPS

IsCore(c) == DOMAIN c = {"table", "enforced", "channels", "objects"}

Grew(c, d) ==
  /\ IsCore(d)
  /\ c.table \subseteq d.table
  /\ c.enforced \subseteq d.enforced
  /\ c.channels \subseteq d.channels
  /\ c.objects \subseteq d.objects

AnyOperation == Operations \cup {Nothing}

Types ==
  /\ config \in Configurations
  /\ IsCore(core)
  /\ position \in Int
  /\ process \in {"alive", "terminated", "undefined"}
  /\ status \in {"ok", "error"}
  /\ inbox \in Seq({"operation", "payload", "address"} \X AnyOperation)
  /\ owed \in AnyOperation
  /\ operation \in AnyOperation
  /\ handled \in Seq(AnyOperation)
  /\ answers \in Seq(AnyOperation \X {"ok", "error"})

\* The listener has taken up an operation that it has not answered.
Busy == listener \in {"payload", "execute", "answer"}

Protocol ==
  /\ Len(answers) <= Len(handled)
  /\ \A i \in DOMAIN answers : Answered(i) = handled[i]
  /\ Alive => IF Busy THEN /\ Len(handled) = Len(answers) + 1
                           /\ operation = handled[Len(handled)]
              ELSE Len(handled) = Len(answers)
  /\ listener = "payload" => HasPayload(operation)
  /\ listener = "execute" => operation.type = "exec_hsk_rules"

WrongType ==
  connection_type = "rpc" \/ connection_type # option_default_communication_type

Phases ==
  /\ FileMode => listener = "none" /\ answers = <<>> /\ main # "handshake"
  /\ main \in {"channels", "objects"} => FileMode
  /\ listener \in {"handshake", "information", "address"} => main = "handshake"
  /\ listener = "handshake" /\ ~handshake_socket => connection_type = "rpc"
  /\ listener = "read" \/ Busy => main \in {"running", "joining"}
  /\ listener = "read" \/ Busy => southbound_socket \/ WrongType
  /\ TerminatesInMidOperation

ObjectRules == get_create_object_rules(config.housekeeping, instances).rules
ChannelRules == FileRules("channels").rules

\* The loop over the rules employed the one of line i last.
EmployedLast(rules, i) ==
  i \in DOMAIN rules /\ i < position /\ \A j \in DOMAIN rules : j < position => j <= i

\* The status, in the course of the loops: that of the last rule so far.
LastStatus ==
  /\ main \in {"core", "agent"} => status = "error"
  /\ main = "channels" /\ status = "ok" =>
       \E i \in DOMAIN ChannelRules : EmployedLast(ChannelRules, i) /\ Accepted(ChannelRules[i])
  /\ main = "objects" /\ status = "ok" =>
       \/ \E i \in DOMAIN ObjectRules : EmployedLast(ObjectRules, i) /\ Accepted(ObjectRules[i])
       \/ /\ \A j \in DOMAIN ObjectRules : ~(j < position)
          /\ \E i \in DOMAIN ChannelRules :
               /\ \A j \in DOMAIN ChannelRules : j <= i
               /\ Accepted(ChannelRules[i])

Readiness == ReadyForAReason /\ (FileMode => LastStatus)

\* What an acknowledgement of op promises.
DoneIn(c, ready, on_receive, op) ==
  /\ op.type = "mark_stage_ready" => ready
  /\ op.type = "create_hsk_rule" =>
       /\ op.rule \in c.table
       /\ on_receive => op.rule \in c.enforced
  /\ op.type = "create_enf_rule" =>
       \E o \in c.objects : /\ o.channel_id = op.rule.channel_id
                            /\ o.id = op.rule.object_id

Done(op) == DoneIn(core, m_ready, execute_on_receive, op)

Promises ==
  /\ \A i \in DOMAIN answers : answers[i][2] = "ok" => Done(Answered(i))
  /\ Alive /\ listener = "answer" /\ status = "ok" => Done(operation)

\* No object rule is employed before the objects' loop; from then on the ones in
\* the table, and the ones the loop has passed, are settled.
Settling ==
  FileMode /\ execute_on_receive =>
    /\ main \in {"core", "agent", "channels"} =>
         \A r \in core.table : r.operation # "create_object"
    /\ main = "objects" =>
         /\ \A r \in core.table : r.operation = "create_object" => Settled(core, r)
         /\ \A i \in DOMAIN ObjectRules : i < position => Settled(core, ObjectRules[i])
    /\ /\ config.housekeeping # NoPath
       /\ main \notin {"core", "agent", "channels", "objects", "failed"}
       => \A i \in DOMAIN ObjectRules : Settled(core, ObjectRules[i])

IInv ==
  Types /\ Protocol /\ Phases /\ Readiness /\ Promises /\ Settling

-----------------------------------------------------------------------------
(* Core.                                                                   *)

\* What a call of Core or Agent returns: Core, grown, and a status.
Returns(c, made) ==
  /\ DOMAIN made = {"core", "status"}
  /\ Grew(c, made.core)
  /\ made.status \in {"ok", "error"}

\* create_channel leaves the table of rules alone.
LEMMA CreateChannel ==
  ASSUME NEW c, IsCore(c), NEW id, NEW token
  PROVE  LET made == create_channel(c, id, token)
         IN  /\ Returns(c, made)
             /\ made.core.table = c.table
             /\ made.core.enforced = c.enforced
  BY DEF create_channel, IsCore, Returns, Grew

\* create_enforcement_object leaves the channels alone as well.  It fails for
\* want of a channel, or because the channel has such an object.
LEMMA CreateObject ==
  ASSUME NEW c, IsCore(c), NEW channel_id, NEW id, NEW token, NEW type
  PROVE  LET made == create_enforcement_object(c, channel_id, id, token, type)
         IN  /\ Returns(c, made)
             /\ made.core.table = c.table
             /\ made.core.enforced = c.enforced
             /\ made.core.channels = c.channels
             /\ \/ made.status = "ok"
                \/ ~\E k \in c.channels : k.id = channel_id
                \/ \E o \in made.core.objects :
                     o.channel_id = channel_id /\ o.token = token
  BY DEF create_enforcement_object, IsCore, Returns, Grew

\* The loop of Core's constructor: no rule is involved.
LEMMA DefaultChannel ==
  ASSUME NEW c, IsCore(c), NEW i, NEW objects
  PROVE  /\ Grew(c, CreateDefaultChannel(c, i, objects))
         /\ CreateDefaultChannel(c, i, objects).table = c.table
<1> DEFINE made == create_channel(c, i, ChannelToken(i, 0, 0))
           object == create_enforcement_object(made.core, i, 0, ObjectToken(0, 0), "noop")
<1>1. Grew(c, made.core) /\ made.core.table = c.table
  BY CreateChannel DEF Returns
<1>2. Grew(made.core, object.core) /\ object.core.table = made.core.table
  <2>1. IsCore(made.core)
    BY <1>1 DEF Grew
  <2> QED
    BY <2>1, CreateObject DEF Returns
<1>3. Grew(c, object.core)
  <2> HIDE DEF made, object
  <2> QED
    BY <1>1, <1>2 DEF Grew
<1>4. \/ CreateDefaultChannel(c, i, objects) = made.core
      \/ CreateDefaultChannel(c, i, objects) = object.core
  BY DEF CreateDefaultChannel
<1> QED
  <2> HIDE DEF made, object
  <2> QED
    BY <1>1, <1>2, <1>3, <1>4

\* execute_housekeeping_rule: with status ok the rule is marked as enforced; an
\* object rule leaves the channels alone, and is settled whatever the status.
LEMMA ExecuteRule ==
  ASSUME NEW c, IsCore(c), NEW r
  PROVE  LET executed == execute_housekeeping_rule(c, r)
         IN  /\ Returns(c, executed)
             /\ executed.core.table = c.table
             /\ executed.status = "ok" => r \in executed.core.enforced
             /\ r.operation = "create_object" =>
                  /\ executed.core.channels = c.channels
                  /\ Settled(executed.core, r)
<1> DEFINE p == r.properties
           channel == create_channel(c, r.channel_id, ChannelToken(p[2], p[3], p[4]))
           object == create_enforcement_object(c, r.channel_id, r.object_id,
                                               ObjectToken(p[2], p[3]), p[4])
           made == IF r.operation = "create_channel" THEN channel ELSE object
           executed == execute_housekeeping_rule(c, r)
<1>1. Returns(c, channel) /\ channel.core.table = c.table
  BY CreateChannel
<1>2. /\ Returns(c, object) /\ object.core.table = c.table
      /\ object.core.channels = c.channels
      /\ \/ object.status = "ok"
         \/ ~\E k \in c.channels : k.id = r.channel_id
         \/ \E o \in object.core.objects :
              o.channel_id = r.channel_id /\ o.token = ObjectToken(p[2], p[3])
  BY CreateObject
<1>3. Returns(c, made) /\ made.core.table = c.table
  BY <1>1, <1>2
<1>4. executed = IF made.status = "ok"
                   THEN [made EXCEPT !.core.enforced = @ \cup {r}] ELSE made
  BY DEF execute_housekeeping_rule
<1>5. /\ DOMAIN executed = {"core", "status"}
      /\ executed.status = made.status
      /\ IsCore(executed.core)
      /\ executed.core.table = made.core.table
      /\ executed.core.channels = made.core.channels
      /\ executed.core.objects = made.core.objects
      /\ executed.core.enforced =
           IF made.status = "ok" THEN made.core.enforced \cup {r}
           ELSE made.core.enforced
  <2> HIDE DEF made, executed
  <2> QED
    BY <1>3, <1>4 DEF Returns, Grew, IsCore
<1>6. Returns(c, executed) /\ executed.core.table = c.table
      /\ (executed.status = "ok" => r \in executed.core.enforced)
  <2> HIDE DEF made, executed
  <2> QED
    BY <1>3, <1>5 DEF Returns, Grew
<1>7. ASSUME r.operation = "create_object"
      PROVE  executed.core.channels = c.channels /\ Settled(executed.core, r)
  <2>1. made = object
    BY <1>7
  <2> HIDE DEF made, executed, object
  <2> QED
    BY <1>2, <1>5, <2>1 DEF Settled
<1> QED
  BY <1>6, <1>7

\* What Core does to what is settled: nothing, while the channels stay.
LEMMA SettledStays ==
  ASSUME NEW c, NEW d, Grew(c, d), d.channels = c.channels,
         NEW r, Settled(c, r)
  PROVE  Settled(d, r)
  BY DEF Settled, Grew

\* employ_housekeeping_rule: status ok means in the table and, if executed on
\* receive, enforced.
LEMMA EmployRule ==
  ASSUME NEW c, IsCore(c), NEW r, NEW on_receive \in BOOLEAN
  PROVE  LET employed == employ_housekeeping_rule(c, r, on_receive)
         IN  /\ Returns(c, employed)
             /\ employed.core.table \subseteq c.table \cup {r}
             /\ employed.status = "ok" =>
                  /\ r \in employed.core.table
                  /\ on_receive => r \in employed.core.enforced
<1> DEFINE inserted == [c EXCEPT !.table = @ \cup {r}]
           executed == execute_housekeeping_rule(inserted, r)
           employed == employ_housekeeping_rule(c, r, on_receive)
<1> SUFFICES /\ Returns(c, employed)
             /\ employed.core.table \subseteq c.table \cup {r}
             /\ employed.status = "ok" =>
                  /\ r \in employed.core.table
                  /\ on_receive => r \in employed.core.enforced
  OBVIOUS
<1>1. Grew(c, inserted) /\ inserted.table = c.table \cup {r}
  BY DEF IsCore, Grew
<1>2. /\ Returns(inserted, executed)
      /\ executed.core.table = inserted.table
      /\ executed.status = "ok" => r \in executed.core.enforced
  <2>1. IsCore(inserted)
    BY <1>1 DEF Grew
  <2> QED
    BY <2>1, ExecuteRule
<1>3. Returns(c, executed)
  <2> HIDE DEF inserted, executed
  <2> QED
    BY <1>1, <1>2 DEF Returns, Grew
<1>4. CASE \E q \in c.table : q.rule_id = r.rule_id
  <2>1. employed = [core |-> c, status |-> "error"]
    BY <1>4 DEF employ_housekeeping_rule
  <2> HIDE DEF employed
  <2> QED
    BY <2>1 DEF Returns, Grew, IsCore
<1>5. CASE ~(\E q \in c.table : q.rule_id = r.rule_id) /\ on_receive
  <2>1. employed = executed
    BY <1>5 DEF employ_housekeeping_rule
  <2> HIDE DEF employed, executed, inserted
  <2> QED
    BY <1>1, <1>2, <1>3, <2>1
<1>6. CASE ~(\E q \in c.table : q.rule_id = r.rule_id) /\ ~on_receive
  <2>1. employed = [core |-> inserted, status |-> "ok"]
    BY <1>6 DEF employ_housekeeping_rule
  <2> HIDE DEF employed, inserted
  <2> QED
    BY <1>1, <1>6, <2>1 DEF Returns
<1> QED
  BY <1>4, <1>5, <1>6

\* An object rule that is employed when those in the table are settled is
\* settled, and so are the others.
LEMMA EmployObjectRule ==
  ASSUME NEW c, IsCore(c), NEW r, r.operation = "create_object",
         \A q \in c.table : q.operation = "create_object" => Settled(c, q)
  PROVE  LET employed == employ_housekeeping_rule(c, r, TRUE)
         IN  /\ employed.core.channels = c.channels
             /\ Settled(employed.core, r)
<1> DEFINE inserted == [c EXCEPT !.table = @ \cup {r}]
           executed == execute_housekeeping_rule(inserted, r)
           employed == employ_housekeeping_rule(c, r, TRUE)
<1> SUFFICES employed.core.channels = c.channels /\ Settled(employed.core, r)
  OBVIOUS
<1>1. CASE \E q \in c.table : q.rule_id = r.rule_id
  <2>1. employed = [core |-> c, status |-> "error"]
    BY <1>1 DEF employ_housekeeping_rule
  <2>2. Settled(c, r)
    BY <1>1 DEF Settled
  <2> HIDE DEF employed
  <2> QED
    BY <2>1, <2>2
<1>2. CASE ~(\E q \in c.table : q.rule_id = r.rule_id)
  <2>1. employed = executed
    BY <1>2 DEF employ_housekeeping_rule
  <2>2. IsCore(inserted) /\ inserted.channels = c.channels
    BY DEF IsCore
  <2>3. executed.core.channels = inserted.channels /\ Settled(executed.core, r)
    BY <2>2, ExecuteRule
  <2> HIDE DEF employed, executed, inserted
  <2> QED
    BY <2>1, <2>2, <2>3
<1> QED
  BY <1>1, <1>2

-----------------------------------------------------------------------------
(* The rules of a file.                                                    *)

\* Rules are numbered by their lines.
LEMMA LinesAreNumbers ==
  ASSUME NEW outcomes, NEW total_rules
  PROVE  Reading(outcomes, total_rules).lines \subseteq Nat \ {0}
  BY DEF Reading

\* The two calls of the parser return rules of the two kinds.
LEMMA KindsOfRules ==
  /\ \A i \in DOMAIN FileRules("channels").rules :
       i \in Nat \ {0} /\ FileRules("channels").rules[i].operation = "create_channel"
  /\ FileRules("objects").rules = ObjectRules
  /\ \A i \in DOMAIN ObjectRules :
       i \in Nat \ {0} /\ ObjectRules[i].operation = "create_object"
<1> DEFINE lines == config.housekeeping
           c == Reading([i \in DOMAIN lines |-> ChannelLine(lines[i])], instances)
           o == Reading([i \in DOMAIN lines |-> ObjectLine(lines[i])], instances)
<1>1. c.lines \subseteq Nat \ {0} /\ o.lines \subseteq Nat \ {0}
  BY LinesAreNumbers
<1>2. FileRules("channels").rules = [i \in c.lines |-> ChannelRule(lines[i])]
  BY DEF FileRules, get_create_channel_rules
<1>3. ObjectRules = [i \in o.lines |-> ObjectRule(lines[i])]
  BY DEF ObjectRules, get_create_object_rules
<1>4. FileRules("objects").rules = ObjectRules
  BY DEF FileRules, ObjectRules
<1>5. /\ \A i : ChannelRule(lines[i]).operation = "create_channel"
      /\ \A i : ObjectRule(lines[i]).operation = "create_object"
  BY DEF ChannelRule, ObjectRule
<1> HIDE DEF c, o
<1> QED
  BY <1>1, <1>2, <1>3, <1>4, <1>5

-----------------------------------------------------------------------------
(* Types, and the growth of Core.                                          *)

\* What the handling of an operation with a structure does.
LEMMA Effects ==
  ASSUME Types, HasPayload(operation)
  PROVE  LET e == Effect(operation)
         IN  /\ Grew(core, e.core)
             /\ e.status \in {"ok", "error"}
             /\ m_ready => e.ready
             /\ e.ready => \/ m_ready
                           \/ /\ operation.type = "mark_stage_ready"
                              /\ operation.mark
             /\ e.status = "ok" => DoneIn(e.core, e.ready, execute_on_receive, operation)
<1> DEFINE e == Effect(operation)
<1> SUFFICES /\ Grew(core, e.core)
             /\ e.status \in {"ok", "error"}
             /\ m_ready => e.ready
             /\ e.ready => \/ m_ready
                           \/ /\ operation.type = "mark_stage_ready"
                              /\ operation.mark
             /\ e.status = "ok" => DoneIn(e.core, e.ready, execute_on_receive, operation)
  OBVIOUS
<1>1. Grew(core, core)
  BY DEF Types, Grew
<1>2. CASE operation.type = "mark_stage_ready"
  <2>1. e = [core |-> core, status |-> IF operation.mark THEN "ok" ELSE "error",
             ready |-> m_ready \/ operation.mark]
    BY <1>2 DEF Effect
  <2>2. e.core = core /\ e.status = IF operation.mark THEN "ok" ELSE "error"
    BY <2>1
  <2>3. e.ready = (m_ready \/ operation.mark)
    BY <2>1
  <2>4. e.status \in {"ok", "error"} /\ (e.status = "ok" => operation.mark)
    BY <2>2
  <2> HIDE DEF e
  <2> QED
    BY <1>1, <1>2, <2>2, <2>3, <2>4 DEF DoneIn
<1>3. CASE operation.type = "create_hsk_rule"
  <2> DEFINE employed == employ_housekeeping_rule(core, operation.rule, execute_on_receive)
  <2>1. e = [core |-> employed.core, status |-> employed.status, ready |-> m_ready]
    BY <1>3 DEF Effect
  <2>2. IsCore(core) /\ execute_on_receive \in BOOLEAN
    BY DEF Types, execute_on_receive
  <2>3. /\ Returns(core, employed)
        /\ employed.status = "ok" =>
             /\ operation.rule \in employed.core.table
             /\ execute_on_receive => operation.rule \in employed.core.enforced
    BY <2>2, EmployRule
  <2> HIDE DEF employed
  <2> QED
    BY <1>3, <2>1, <2>3 DEF Returns, DoneIn
<1>4. CASE operation.type = "create_enf_rule"
  <2> DEFINE end == employ_enforcement_rule(core, operation.rule)
  <2>1. e = [core |-> core, ready |-> m_ready,
             status |-> IF end = "ok" THEN "ok" ELSE "error"]
    BY <1>4 DEF Effect
  <2>2. end = "ok" => \E o \in core.objects :
                         /\ o.channel_id = operation.rule.channel_id
                         /\ o.id = operation.rule.object_id
    BY DEF employ_enforcement_rule
  <2> HIDE DEF end
  <2> QED
    BY <1>1, <1>4, <2>1, <2>2 DEF DoneIn
<1>5. CASE operation.type = "collect_stats"
  <2>1. e = [core |-> core, ready |-> m_ready,
             status |-> collect_channel_statistics(core, operation.channel_id)]
    BY <1>5 DEF Effect
  <2>2. collect_channel_statistics(core, operation.channel_id) \in {"ok", "error"}
    BY DEF collect_channel_statistics
  <2> QED
    BY <1>1, <1>5, <2>1, <2>2 DEF DoneIn
<1> QED
  BY <1>2, <1>3, <1>4, <1>5 DEF HasPayload

\* What every step keeps: types, the configuration, and what Core has.
Kept == Types' /\ config' = config /\ Grew(core, core')

\* A message that is read is one that was sent.
LEMMA Received ==
  ASSUME Types, NEW kind, Reads(kind)
  PROVE  /\ inbox' \in Seq({"operation", "payload", "address"} \X AnyOperation)
         /\ inbox[1][2] \in AnyOperation
  BY DEF Types, Reads

\* Steps that leave Core and the listener's record alone.
LEMMA KeptByQuiet ==
  ASSUME Types, UNCHANGED <<config, core, position, listenVars>>,
         process' \in {"alive", "terminated", "undefined"},
         inbox' \in Seq({"operation", "payload", "address"} \X AnyOperation),
         owed' \in AnyOperation
  PROVE  Kept
  BY DEF Types, Kept, Grew, listenVars

\* Types and growth.
LEMMA KeptByMain ==
  ASSUME Types, MainStep \/ ShutdownConnection
  PROVE  Kept
<1>1. CASE ConstructCore
  <2> DEFINE made == CreateDefaultChannel(core, position, config.default_object_creation)
  <2>1. Grew(core, made)
    BY DefaultChannel DEF Types
  <2> HIDE DEF made
  <2>2. \/ core' = made /\ position' = position + 1
        \/ UNCHANGED <<core, position>>
    BY <1>1 DEF ConstructCore, made
  <2>3. UNCHANGED <<config, process, inbox, owed, listenVars>>
    BY <1>1 DEF ConstructCore, peerVars
  <2> QED
    BY <2>1, <2>2, <2>3 DEF Types, Kept, Grew, listenVars
<1>2. CASE \E kind \in {"channels", "objects"} : ReadRulesFromFile(kind)
  BY <1>2 DEF ReadRulesFromFile, Types, Kept, Grew, listenVars, peerVars, Alive
<1>3. CASE EmployRuleFromFile
  <2> DEFINE rules == FileRules(main).rules
  <2>1. PICK i \in DOMAIN rules :
          LET employed == employ_housekeeping_rule(core, rules[i], execute_on_receive)
          IN  /\ core' = employed.core
              /\ status' = employed.status
              /\ position' = i + 1
    BY <1>3 DEF EmployRuleFromFile
  <2>2. i \in Int
    BY <1>3, KindsOfRules DEF EmployRuleFromFile
  <2> DEFINE employed == employ_housekeeping_rule(core, rules[i], execute_on_receive)
  <2>3. Returns(core, employed)
    <3>1. IsCore(core) /\ execute_on_receive \in BOOLEAN
      BY DEF Types, execute_on_receive
    <3> QED
      BY <3>1, EmployRule
  <2>4. core' = employed.core /\ status' = employed.status /\ position' = i + 1
    BY <2>1
  <2>5. UNCHANGED <<config, process, inbox, owed, operation, handled, answers>>
    BY <1>3 DEF EmployRuleFromFile, peerVars
  <2> HIDE DEF employed, rules
  <2> QED
    BY <2>2, <2>3, <2>4, <2>5 DEF Types, Kept, Grew, Returns
<1>4. CASE InsertEnforcementRules
  BY <1>4, KeptByQuiet DEF InsertEnforcementRules, Types, peerVars
<1>5. CASE WaitForRules \/ JoinHandshake \/ DisconnectFromControlPlane \/ ShutdownConnection
  BY <1>5, KeptByQuiet
     DEF WaitForRules, JoinHandshake, DisconnectFromControlPlane, ShutdownConnection,
         Types, peerVars
<1>6. CASE ConstructHandshakeHandler
  BY <1>6, KeptByQuiet DEF ConstructHandshakeHandler, Types, peerVars
<1>7. CASE ConstructSouthboundHandler
  <2>1. inbox' = <<>> /\ owed' = Nothing
        /\ UNCHANGED <<config, process, core, position, listenVars>>
    BY <1>7 DEF ConstructSouthboundHandler
  <2> QED
    BY <2>1, KeptByQuiet DEF Types, AnyOperation
<1> QED
  BY <1>1, <1>2, <1>3, <1>4, <1>5, <1>6, <1>7 DEF MainStep

\* Types and growth.
LEMMA KeptByListener ==
  ASSUME Types, Protocol, ListenerStep
  PROVE  Kept
<1> USE DEF socketVars, peerVars
<1>1. CASE HandshakeListen
  <2>1. inbox' \in Seq({"operation", "payload", "address"} \X AnyOperation)
    BY <1>1, Received DEF HandshakeListen, EndOfStream, Types
  <2>2. process' \in {"alive", "terminated"}
        /\ UNCHANGED <<config, core, position, listenVars, owed>>
    BY <1>1 DEF HandshakeListen, Terminate, Alive
  <2> QED
    BY <2>1, <2>2, KeptByQuiet DEF Types
<1>2. CASE StageHandshake
  <2>1. process' \in {"alive", "terminated"}
        /\ UNCHANGED <<config, core, position, listenVars, owed, inbox>>
    BY <1>2 DEF StageHandshake, Terminate, Alive
  <2> QED
    BY <2>1, KeptByQuiet DEF Types
<1>3. CASE SetSouthboundSocketInfo
  <2>1. inbox' \in Seq({"operation", "payload", "address"} \X AnyOperation)
    BY <1>3, Received DEF SetSouthboundSocketInfo, EndOfStream, Types
  <2>2. process' \in {"alive", "terminated"}
        /\ UNCHANGED <<config, core, position, listenVars, owed>>
    BY <1>3 DEF SetSouthboundSocketInfo, Terminate, Alive
  <2> QED
    BY <2>1, <2>2, KeptByQuiet DEF Types
<1>4. CASE Listen
  <2>1. CASE Terminate("no_socket") /\ UNCHANGED <<inbox, listenVars>>
    BY <2>1, KeptByQuiet DEF Terminate, Types
  <2>2. CASE ListenEnds
    <3>1. inbox' \in Seq({"operation", "payload", "address"} \X AnyOperation)
      BY <2>2, Received DEF ListenEnds, EndOfStream, Types
    <3> QED
      BY <2>2, <3>1, KeptByQuiet DEF ListenEnds, Types
  <2>3. CASE UnsupportedOperation \/ HandleControlOperation
    <3>1. Reads("operation")
      BY <2>3 DEF UnsupportedOperation, HandleControlOperation
    <3>2. /\ inbox' \in Seq({"operation", "payload", "address"} \X AnyOperation)
          /\ inbox[1][2] \in AnyOperation
      BY <3>1, Received
    <3>3. /\ handled' = Append(handled, inbox[1][2])
          /\ operation' \in {operation, inbox[1][2]}
          /\ status' \in {status, "ok", "error"}
          /\ process' \in {process, "terminated"}
          /\ UNCHANGED <<config, core, position, owed, answers>>
      BY <2>3 DEF UnsupportedOperation, HandleControlOperation, Terminate,
         StatusWithoutPayload, collect_channel_statistics
    <3> QED
      BY <3>2, <3>3 DEF Types, Kept, Grew
  <2> QED
    BY <1>4, <2>1, <2>2, <2>3 DEF Listen
<1>5. CASE ReadPayload
  <2>1. HasPayload(operation)
    BY <1>5 DEF ReadPayload, Protocol
  <2> DEFINE e == Effect(operation)
  <2>2. Grew(core, e.core) /\ e.status \in {"ok", "error"}
    BY <2>1, Effects
  <2>3. inbox' \in Seq({"operation", "payload", "address"} \X AnyOperation)
    BY <1>5, Received DEF ReadPayload, EndOfStream, Types
  <2>4. /\ \/ core' = e.core /\ status' = e.status
           \/ core' = core /\ status' = "error"
        /\ process' \in {"alive", "undefined", "terminated"}
        /\ UNCHANGED <<config, position, owed, operation, handled, answers>>
    BY <1>5 DEF ReadPayload, Alive
  <2> HIDE DEF e
  <2> QED
    BY <2>2, <2>3, <2>4 DEF Types, Kept, Grew
<1>6. CASE ExecuteHousekeepingRules
  <2>1. UNCHANGED <<config, process, position, inbox, owed, operation, handled, answers>>
    BY <1>6 DEF ExecuteHousekeepingRules
  <2>2. CASE UNCHANGED <<core, status>>
    BY <2>1, <2>2 DEF Types, Kept, Grew
  <2>3. CASE \E r \in core.table \ core.enforced :
               /\ core' = execute_housekeeping_rule(core, r).core
               /\ status' = execute_housekeeping_rule(core, r).status
    <3>1. PICK r : /\ core' = execute_housekeeping_rule(core, r).core
                   /\ status' = execute_housekeeping_rule(core, r).status
      BY <2>3
    <3>2. Returns(core, execute_housekeeping_rule(core, r))
      BY ExecuteRule DEF Types
    <3> QED
      BY <2>1, <3>1, <3>2 DEF Types, Kept, Grew, Returns
  <2> QED
    BY <1>6, <2>2, <2>3 DEF ExecuteHousekeepingRules
<1>7. CASE WriteAnswer
  <2>1. /\ answers' \in {answers, Append(answers, <<operation, status>>)}
        /\ operation' \in {operation, Nothing}
        /\ process' \in {process, "terminated"}
        /\ UNCHANGED <<config, core, position, inbox, owed, status, handled>>
    BY <1>7 DEF WriteAnswer, Terminate
  <2>2. operation' \in AnyOperation
    BY <2>1 DEF Types, AnyOperation
  <2>3. answers' \in Seq(AnyOperation \X {"ok", "error"})
    <3> DEFINE S == AnyOperation \X {"ok", "error"}
    <3>1. <<operation, status>> \in S /\ answers \in Seq(S)
      BY DEF Types
    <3> HIDE DEF S
    <3>2. answers' \in Seq(S)
      BY <2>1, <3>1
    <3> QED
      BY <3>2 DEF S
  <2> QED
    BY <2>1, <2>2, <2>3 DEF Types, Kept, Grew
<1> QED
  BY <1>1, <1>2, <1>3, <1>4, <1>5, <1>6, <1>7 DEF ListenerStep

\* Types and growth.
LEMMA KeptByControlPlane ==
  ASSUME Types, ControlPlane
  PROVE  Kept
<1>1. CASE \E op \in Operations : SendOperation(op)
  <2>1. PICK op \in Operations : SendOperation(op)
    BY <1>1
  <2>2. /\ inbox' = Append(inbox, <<"operation", op>>)
        /\ owed' \in {op, Nothing}
        /\ UNCHANGED <<config, process, core, position, listenVars>>
    BY <2>1 DEF SendOperation
  <2> QED
    BY <2>2, KeptByQuiet DEF Types, AnyOperation
<1>2. CASE SendPayload
  <2>1. /\ inbox' = Append(inbox, <<"payload", owed>>)
        /\ owed' = Nothing
        /\ UNCHANGED <<config, process, core, position, listenVars>>
    BY <1>2 DEF SendPayload
  <2> QED
    BY <2>1, KeptByQuiet DEF Types, AnyOperation
<1>3. CASE SendAddress
  <2>1. /\ inbox' = << <<"address", Nothing>> >>
        /\ UNCHANGED <<config, process, core, position, listenVars, owed>>
    BY <1>3 DEF SendAddress, peerVars
  <2> QED
    BY <2>1, KeptByQuiet DEF Types, AnyOperation
<1>4. CASE CloseConnection
  BY <1>4, KeptByQuiet DEF CloseConnection, Types
<1> QED
  BY <1>1, <1>2, <1>3, <1>4 DEF ControlPlane

\* Every step keeps types, the configuration, and what Core has.
LEMMA KeptByAll ==
  ASSUME Types, Protocol, [Next]_vars
  PROVE  Kept
<1>1. CASE UNCHANGED vars
  BY <1>1 DEF vars, Types, Kept, Grew, listenVars, peerVars
<1> QED
  BY <1>1, KeptByMain, KeptByListener, KeptByControlPlane DEF Next

\* What only depends on the configuration stays the same.
LEMMA SameConfiguration ==
  ASSUME config' = config
  PROVE  /\ FileMode' = FileMode
         /\ execute_on_receive' = execute_on_receive
         /\ connection_type' = connection_type
         /\ option_default_communication_type' = option_default_communication_type
         /\ instances' = instances
         /\ ObjectRules' = ObjectRules
         /\ ChannelRules' = ChannelRules
         /\ LastRule' = LastRule
  BY DEF FileMode, execute_on_receive, connection_type, instances, ObjectRules,
         option_default_communication_type, ChannelRules, FileRules, LastRule

-----------------------------------------------------------------------------
(* The southbound protocol.                                                *)

\* Steps that neither take up nor answer an operation.
LEMMA ProtocolFrame ==
  ASSUME Protocol, Alive, UNCHANGED <<operation, handled, answers>>,
         Alive' => (Busy' <=> Busy),
         listener' \in {"payload", "execute"} => listener' = listener
  PROVE  Protocol'
<1>1. UNCHANGED <<Len(answers), Len(handled), DOMAIN answers>>
  OBVIOUS
<1>2. (\A i \in DOMAIN answers : Answered(i) = handled[i])'
  BY DEF Protocol, Answered
<1> QED
  BY <1>1, <1>2 DEF Protocol, HasPayload, Busy

\* Operations are answered in order, one at a time.
LEMMA ProtocolStep ==
  ASSUME IInv, [Next]_vars
  PROVE  Protocol'
<1> USE DEF socketVars, peerVars, listenVars
<1> Types /\ Protocol /\ Phases
  BY DEF IInv
<1>1. CASE MainStep \/ ShutdownConnection
  <2>1. Alive /\ UNCHANGED <<operation, handled, answers>>
    BY <1>1 DEF MainStep, ShutdownConnection, ConstructCore, ReadRulesFromFile,
       EmployRuleFromFile, InsertEnforcementRules, WaitForRules,
       ConstructHandshakeHandler, JoinHandshake, ConstructSouthboundHandler,
       DisconnectFromControlPlane
  <2>2. \/ listener' = listener
        \/ ~Busy /\ ~Busy'
    <3>1. CASE ConstructHandshakeHandler
      BY <3>1 DEF ConstructHandshakeHandler, Phases, Busy
    <3>2. CASE JoinHandshake
      BY <3>2 DEF JoinHandshake, Phases, Busy
    <3>3. CASE ConstructSouthboundHandler
      BY <3>3 DEF ConstructSouthboundHandler, Phases, Busy
    <3>4. CASE UNCHANGED listener
      BY <3>4
    <3> QED
      BY <1>1, <3>1, <3>2, <3>3, <3>4 DEF MainStep, ShutdownConnection,
         ConstructCore, ReadRulesFromFile, EmployRuleFromFile,
         InsertEnforcementRules, WaitForRules, DisconnectFromControlPlane
  <2>3. /\ Busy' <=> Busy
        /\ listener' \in {"payload", "execute"} => listener' = listener
    BY <2>2 DEF Busy
  <2> QED
    BY <2>1, <2>3, ProtocolFrame
<1>2. CASE HandshakeListen \/ StageHandshake \/ SetSouthboundSocketInfo
  <2>1. /\ Alive
        /\ UNCHANGED <<operation, handled, answers>>
        /\ ~Busy
        /\ listener' \in {listener, "information", "address", "ended"}
    BY <1>2 DEF HandshakeListen, StageHandshake, SetSouthboundSocketInfo, Terminate,
                Busy
  <2> QED
    BY <2>1, ProtocolFrame DEF Busy
<1>3. CASE Listen
  <2>1. Alive /\ listener = "read" /\ ~Busy /\ Len(handled) = Len(answers)
    BY <1>3 DEF Listen, Busy, Protocol
  <2>2. CASE Terminate("no_socket") /\ UNCHANGED listenVars
    BY <2>1, <2>2, ProtocolFrame DEF Terminate, Alive
  <2>3. CASE ListenEnds
    BY <2>1, <2>3, ProtocolFrame DEF ListenEnds, Busy
  <2>4. CASE UnsupportedOperation \/ HandleControlOperation
    <3> DEFINE op == inbox[1][2]
    <3>1. op \in AnyOperation
      BY <2>4, Received DEF UnsupportedOperation, HandleControlOperation
    <3>2. handled' = Append(handled, op) /\ answers' = answers
      BY <2>4 DEF UnsupportedOperation, HandleControlOperation
    <3>3. /\ \/ ~Alive' /\ listener' = "read"
             \/ Busy' /\ operation' = op
          /\ listener' = "payload" => HasPayload(op)
          /\ listener' = "execute" => op.type = "exec_hsk_rules"
      BY <2>1, <2>4 DEF UnsupportedOperation, HandleControlOperation, Terminate,
                        Alive, Busy
    <3> HIDE DEF op
    <3>4. /\ Len(handled') = Len(handled) + 1
          /\ handled'[Len(handled) + 1] = op
          /\ \A i \in DOMAIN answers : handled'[i] = handled[i]
          /\ Len(answers) \in Nat
      BY <2>1, <3>1, <3>2 DEF Types
    <3>5. (\A i \in DOMAIN answers : Answered(i) = handled[i])'
      BY <3>2, <3>4 DEF Protocol, Answered
    <3>6. /\ listener' = "payload" => HasPayload(operation')
          /\ listener' = "execute" => operation'.type = "exec_hsk_rules"
      BY <3>3 DEF Busy
    <3> QED
      BY <2>1, <3>2, <3>3, <3>4, <3>5, <3>6 DEF Protocol, HasPayload
  <2> QED
    BY <1>3, <2>2, <2>3, <2>4 DEF Listen
<1>4. CASE ReadPayload \/ ExecuteHousekeepingRules
  <2>1. /\ Alive
        /\ UNCHANGED <<operation, handled, answers>>
        /\ Busy
        /\ listener' \in {listener, "answer"}
    BY <1>4 DEF ReadPayload, ExecuteHousekeepingRules, Busy
  <2> QED
    BY <2>1, ProtocolFrame DEF Busy
<1>5. CASE WriteAnswer
  <2>1. /\ Alive /\ Busy /\ listener = "answer"
        /\ Len(handled) = Len(answers) + 1
        /\ operation = handled[Len(handled)]
    BY <1>5 DEF WriteAnswer, Busy, Protocol
  <2>2. CASE Terminate("lost") /\ UNCHANGED <<operation, answers, handled>>
    BY <2>1, <2>2, ProtocolFrame DEF Terminate, Alive
  <2>3. CASE /\ answers' = Append(answers, <<operation, status>>)
             /\ listener' = "read"
             /\ handled' = handled
    <3>1. /\ Len(answers') = Len(answers) + 1
          /\ answers'[Len(answers) + 1] = <<operation, status>>
          /\ \A i \in DOMAIN answers : answers'[i] = answers[i]
          /\ DOMAIN answers' = DOMAIN answers \cup {Len(answers) + 1}
          /\ Len(answers) \in Nat
      BY <2>3 DEF Types
    <3>2. (\A i \in DOMAIN answers : Answered(i) = handled[i])'
      BY <2>1, <2>3, <3>1 DEF Protocol, Answered
    <3> QED
      BY <2>1, <2>3, <3>1, <3>2 DEF Protocol, Busy
  <2> QED
    BY <1>5, <2>2, <2>3 DEF WriteAnswer
<1>6. CASE ControlPlane
  <2>1. Alive /\ UNCHANGED <<listener, process, operation, handled, answers>>
    BY <1>6 DEF ControlPlane, SendOperation, SendPayload, SendAddress,
                CloseConnection, CanSend
  <2> QED
    BY <2>1, ProtocolFrame DEF Busy
<1>7. CASE UNCHANGED vars
  BY <1>7 DEF vars, Protocol, Answered, Alive, Busy, HasPayload
<1> QED
  BY <1>1, <1>2, <1>3, <1>4, <1>5, <1>6, <1>7 DEF Next, ListenerStep

\* Initially nothing is promised and nothing owed.
LEMMA InitIInv ==
  ASSUME Init
  PROVE  IInv
<1>1. Types
  BY DEF Init, Types, EmptyCore, IsCore, AnyOperation
<1>2. Protocol /\ Phases
  BY DEF Init, Protocol, Phases, Busy, TerminatesInMidOperation
<1>3. Readiness /\ Promises
  BY DEF Init, Readiness, LastStatus, Promises, ReadyForAReason
<1>4. Settling
  BY DEF Init, Settling, EmptyCore
<1> QED
  BY <1>1, <1>2, <1>3, <1>4 DEF IInv

-----------------------------------------------------------------------------
(* Where the threads are.                                                  *)

\* The types of communication of a stage.
LEMMA Communication ==
  ASSUME Types
  PROVE  /\ connection_type \in {"unix", "inet", "rpc", "none"}
         /\ option_default_communication_type \in {"unix", "inet", "rpc", "none"}
  BY LifecycleAssumption DEF Types, connection_type, CommunicationTypes,
     option_default_communication_type

\* A connection thread exists only with a control plane, and in its phases.
LEMMA PhasesStep ==
  ASSUME IInv, [Next]_vars
  PROVE  Phases'
<1> USE DEF socketVars, peerVars, listenVars
<1> Types /\ Protocol /\ Phases
  BY DEF IInv
<1>0. /\ connection_type' = connection_type
      /\ option_default_communication_type' = option_default_communication_type
      /\ FileMode' = FileMode
      /\ WrongType' = WrongType
      /\ FileMode <=> connection_type = "none"
  BY KeptByAll, SameConfiguration DEF Kept, WrongType, FileMode
<1>1. CASE ConstructCore \/ WaitForRules \/ InsertEnforcementRules
  <2>1. /\ Alive
        /\ main' \notin {"handshake", "channels", "objects"}
        /\ process' # "terminated"
        /\ UNCHANGED <<listener, answers, handshake_socket, southbound_socket>>
        /\ main \in {"core", "agent", "objects"}
    BY <1>1 DEF ConstructCore, WaitForRules, InsertEnforcementRules, Alive
  <2> QED
    BY <1>0, <2>1 DEF Phases, TerminatesInMidOperation, Busy
<1>2. CASE \E kind \in {"channels", "objects"} : ReadRulesFromFile(kind)
  <2>1. /\ Alive /\ FileMode
        /\ main' \in {"channels", "objects", "failed"}
        /\ process' # "terminated"
        /\ UNCHANGED <<listener, answers>>
    BY <1>2 DEF ReadRulesFromFile, Alive
  <2> QED
    BY <1>0, <2>1 DEF Phases, TerminatesInMidOperation, Busy
<1>3. CASE EmployRuleFromFile \/ DisconnectFromControlPlane \/ ShutdownConnection
  <2>1. /\ Alive /\ process' = process
        /\ \/ main' = main
           \/ main = "running" /\ main' = "joining"
           \/ main' = "destroyed" /\ (FileMode \/ listener = "ended")
        /\ UNCHANGED <<listener, answers, handshake_socket, southbound_socket>>
        /\ main # "handshake"
    BY <1>0, <1>3 DEF EmployRuleFromFile, DisconnectFromControlPlane,
       ShutdownConnection
  <2> QED
    BY <1>0, <2>1 DEF Phases, TerminatesInMidOperation, Busy, Alive
<1>4. CASE ConstructHandshakeHandler
  <2>1. /\ Alive /\ process' = process /\ answers' = answers
        /\ main' \in {"failed", "southbound", "handshake"}
        /\ main' = "handshake" => ~FileMode
        /\ listener' = IF main' = "handshake" THEN "handshake" ELSE "none"
    BY <1>0, <1>4 DEF ConstructHandshakeHandler
  <2>2. main' = "handshake" /\ ~handshake_socket' => connection_type = "rpc"
    BY <1>0, <1>4, Communication DEF ConstructHandshakeHandler, ConnectOutcomes
  <2> QED
    BY <1>0, <2>1, <2>2 DEF Phases, TerminatesInMidOperation, Busy, Alive
<1>5. CASE JoinHandshake
  <2>1. /\ Alive /\ process' = process /\ answers' = answers
        /\ main' = "southbound" /\ listener' = "none"
    BY <1>5 DEF JoinHandshake
  <2> QED
    BY <1>0, <2>1 DEF Phases, TerminatesInMidOperation, Busy, Alive
<1>6. CASE ConstructSouthboundHandler
  <2>1. /\ Alive /\ process' = process /\ answers' = answers
        /\ main' \in {"failed", "running"}
        /\ listener' = IF main' = "running" /\ ~FileMode THEN "read" ELSE "none"
    BY <1>0, <1>6 DEF ConstructSouthboundHandler
  <2>2. main' = "running" /\ ~FileMode => southbound_socket' \/ WrongType
    BY <1>0, <1>6, Communication DEF ConstructSouthboundHandler, ConnectOutcomes,
       WrongType
  <2> QED
    BY <1>0, <2>1, <2>2 DEF Phases, TerminatesInMidOperation, Busy, Alive
<1>7. CASE HandshakeListen \/ StageHandshake \/ SetSouthboundSocketInfo
  <2>1. /\ main = "handshake" /\ main' = main /\ ~FileMode
        /\ listener' \in {listener, "information", "address", "ended"}
        /\ listener' = "handshake" => listener = "handshake"
        /\ UNCHANGED <<handshake_socket, southbound_socket>>
    BY <1>7 DEF HandshakeListen, StageHandshake, SetSouthboundSocketInfo, Terminate,
       Phases
  <2>2. process' = "terminated" =>
          \/ cause' = "handshake"
          \/ cause' = "no_socket" /\ connection_type = "rpc"
    BY <1>7 DEF HandshakeListen, StageHandshake, SetSouthboundSocketInfo, Terminate,
       Phases, Alive
  <2>3. listener \in {"handshake", "information", "address"}
    BY <1>7 DEF HandshakeListen, StageHandshake, SetSouthboundSocketInfo
  <2> QED
    BY <1>0, <2>1, <2>2, <2>3 DEF Phases, TerminatesInMidOperation, Busy
<1>8. CASE Listen \/ ReadPayload \/ ExecuteHousekeepingRules \/ WriteAnswer
  <2>1. /\ Alive
        /\ listener \in {"read", "payload", "execute", "answer"}
        /\ listener' \in {"read", "payload", "execute", "answer", "ended"}
        /\ UNCHANGED <<main, southbound_socket>>
    BY <1>8 DEF Listen, ReadPayload, ExecuteHousekeepingRules, WriteAnswer,
       ListenEnds, UnsupportedOperation, HandleControlOperation, Terminate
  <2>2. /\ ~FileMode
        /\ main' \in {"running", "joining"}
        /\ southbound_socket' \/ WrongType
    BY <2>1 DEF Phases, Busy
  <2>3. TerminatesInMidOperation'
    <3>1. CASE Listen
      <4>1. Len(handled) = Len(answers)
        BY <3>1 DEF Listen, Protocol, Busy
      <4>2. CASE ~southbound_socket /\ cause' = "no_socket"
        BY <1>0, <2>2, <2>1, <4>2 DEF TerminatesInMidOperation, WrongType
      <4>3. CASE UnsupportedOperation
        <5>1. /\ handled' = Append(handled, inbox[1][2])
              /\ inbox[1][2] \in AnyOperation
              /\ answers' = answers
          BY <4>3, Received DEF UnsupportedOperation
        <5>2. Len(handled') > Len(answers')
          BY <4>1, <5>1 DEF Types
        <5> QED
          BY <5>2 DEF TerminatesInMidOperation
      <4>4. CASE ListenEnds \/ HandleControlOperation
        BY <2>1, <4>4 DEF ListenEnds, HandleControlOperation, Alive,
           TerminatesInMidOperation
      <4> QED
        BY <3>1, <4>2, <4>3, <4>4 DEF Listen, Terminate
    <3>2. CASE ReadPayload \/ ExecuteHousekeepingRules
      <4>1. Len(handled) = Len(answers) + 1 /\ Len(answers) \in Nat
        BY <2>1, <3>2 DEF ReadPayload, ExecuteHousekeepingRules, Protocol, Busy, Types
      <4>2. Len(handled') > Len(answers')
        BY <3>2, <4>1 DEF ReadPayload, ExecuteHousekeepingRules
      <4> QED
        BY <4>2 DEF TerminatesInMidOperation
    <3>3. CASE WriteAnswer
      <4>1. Len(handled) = Len(answers) + 1 /\ Len(answers) \in Nat
        BY <3>3 DEF WriteAnswer, Protocol, Busy, Types
      <4>2. CASE UNCHANGED <<handled, answers>>
        <5>1. Len(handled') > Len(answers')
          BY <4>1, <4>2
        <5> QED
          BY <5>1 DEF TerminatesInMidOperation
      <4>3. CASE process' = process
        BY <2>1, <4>3 DEF Alive, TerminatesInMidOperation
      <4> QED
        BY <3>3, <4>2, <4>3 DEF WriteAnswer
    <3> QED
      BY <1>8, <3>1, <3>2, <3>3
  <2> QED
    BY <1>0, <2>1, <2>2, <2>3 DEF Phases, Busy
<1>9. CASE ControlPlane
  <2>1. Alive /\ UNCHANGED <<listener, process, main, answers, handshake_socket,
                            southbound_socket>>
    BY <1>9 DEF ControlPlane, SendOperation, SendPayload, SendAddress,
                CloseConnection, CanSend
  <2> QED
    BY <1>0, <2>1 DEF Phases, Busy, TerminatesInMidOperation, Alive
<1>10. CASE UNCHANGED vars
  <2>1. UNCHANGED <<listener, process, cause, main, answers, handled,
                    handshake_socket, southbound_socket>>
    BY <1>10 DEF vars
  <2>2. TerminatesInMidOperation'
    BY <1>0, <2>1 DEF Phases, TerminatesInMidOperation
  <2> QED
    BY <1>0, <2>1, <2>2 DEF Phases, Busy
<1> QED
  BY <1>1, <1>2, <1>3, <1>4, <1>5, <1>6, <1>7, <1>8, <1>9, <1>10
     DEF Next, MainStep, ListenerStep

-----------------------------------------------------------------------------
(* Readiness and promises.                                                 *)

\* Where a step of the stage can be in each mode.
LEMMA FileModeSteps ==
  ASSUME Phases, FileMode
  PROVE  ~ListenerStep
  BY DEF Phases, ListenerStep, HandshakeListen, StageHandshake,
     SetSouthboundSocketInfo, Listen, ReadPayload, ExecuteHousekeepingRules,
     WriteAnswer

\* Only the end of the files and a mark_stage_ready operation touch m_ready.
LEMMA ReadyFlag ==
  ASSUME IInv, [Next]_vars
  PROVE  \/ m_ready' = m_ready
         \/ FileMode /\ InsertEnforcementRules
         \/ ReadPayload /\ m_ready' = Effect(operation).ready
<1> USE DEF socketVars, peerVars, listenVars
<1>1. CASE MainStep \/ ShutdownConnection
  <2>1. CASE InsertEnforcementRules
    <3>1. FileMode
      BY <2>1 DEF InsertEnforcementRules, IInv, Phases
    <3> QED
      BY <2>1, <3>1
  <2> QED
    BY <1>1, <2>1 DEF MainStep, ShutdownConnection, ConstructCore,
       ReadRulesFromFile, EmployRuleFromFile, WaitForRules,
       ConstructHandshakeHandler, JoinHandshake, ConstructSouthboundHandler,
       DisconnectFromControlPlane
<1>2. CASE ListenerStep
  <2>1. CASE ReadPayload
    BY <2>1 DEF ReadPayload
  <2> QED
    BY <1>2, <2>1 DEF ListenerStep, HandshakeListen, StageHandshake,
       SetSouthboundSocketInfo, Listen, ListenEnds, UnsupportedOperation,
       HandleControlOperation, ExecuteHousekeepingRules, WriteAnswer, Terminate
<1>3. CASE ControlPlane
  BY <1>3 DEF ControlPlane, SendOperation, SendPayload, SendAddress, CloseConnection
<1>4. CASE UNCHANGED vars
  BY <1>4 DEF vars
<1> QED
  BY <1>1, <1>2, <1>3, <1>4 DEF Next

\* The operations that were taken up stay in the record.
LEMMA RecordGrows ==
  ASSUME Types, [Next]_vars
  PROVE  \A i \in DOMAIN handled : i \in DOMAIN handled' /\ handled'[i] = handled[i]
<1> USE DEF socketVars, peerVars, listenVars
<1>1. CASE UnsupportedOperation \/ HandleControlOperation
  <2>1. handled' = Append(handled, inbox[1][2]) /\ inbox[1][2] \in AnyOperation
    BY <1>1, Received DEF UnsupportedOperation, HandleControlOperation
  <2> QED
    BY <2>1 DEF Types
<1>2. CASE UNCHANGED handled
  BY <1>2
<1>3. CASE MainStep \/ ShutdownConnection
  BY <1>2, <1>3 DEF MainStep, ShutdownConnection, ConstructCore, ReadRulesFromFile,
     EmployRuleFromFile, InsertEnforcementRules, WaitForRules,
     ConstructHandshakeHandler, JoinHandshake, ConstructSouthboundHandler,
     DisconnectFromControlPlane
<1>4. CASE ListenerStep
  BY <1>1, <1>2, <1>4 DEF ListenerStep, HandshakeListen, StageHandshake,
     SetSouthboundSocketInfo, Listen, ListenEnds, ReadPayload,
     ExecuteHousekeepingRules, WriteAnswer
<1>5. CASE ControlPlane
  BY <1>2, <1>5 DEF ControlPlane, SendOperation, SendPayload, SendAddress,
     CloseConnection
<1>6. CASE UNCHANGED vars
  BY <1>2, <1>6 DEF vars
<1> QED
  BY <1>3, <1>4, <1>5, <1>6 DEF Next

\* The greatest of a set of lines.
LEMMA Greatest ==
  ASSUME NEW S, S \subseteq Nat, NEW i \in S, \A j \in S : j <= i
  PROVE  Max(S) = i
<1>1. \E x \in S : \A y \in S : x >= y
  OBVIOUS
<1>2. Max(S) \in S /\ \A y \in S : Max(S) >= y
  BY <1>1 DEF Max
<1>3. \A m \in S : m >= i => m = i
  OBVIOUS
<1> QED
  BY <1>2, <1>3

\* A rule that was accepted remains so.
LEMMA AcceptedStays ==
  ASSUME IInv, [Next]_vars, NEW r, Accepted(r)
  PROVE  Accepted(r)'
<1>1. config' = config /\ Grew(core, core')
  BY KeptByAll DEF IInv, Kept
<1>2. execute_on_receive' = execute_on_receive
  BY <1>1, SameConfiguration
<1> QED
  BY <1>1, <1>2 DEF Grew, Accepted

\* A step of either loop: the status is that of the rule it employs.
LEMMA EmployedStatus ==
  ASSUME IInv, EmployRuleFromFile, status' = "ok"
  PROVE  \E i \in DOMAIN FileRules(main).rules :
           /\ i \in Nat /\ position' = i + 1
           /\ Accepted(FileRules(main).rules[i])'
<1> DEFINE rules == FileRules(main).rules
<1>1. PICK i \in DOMAIN rules :
        LET employed == employ_housekeeping_rule(core, rules[i], execute_on_receive)
        IN  /\ core' = employed.core
            /\ status' = employed.status
            /\ position' = i + 1
  BY DEF EmployRuleFromFile
<1> DEFINE r == rules[i]
           employed == employ_housekeeping_rule(core, r, execute_on_receive)
<1>2. IsCore(core) /\ execute_on_receive \in BOOLEAN
  BY DEF IInv, Types, execute_on_receive
<1>3. employed.status = "ok" =>
        /\ r \in employed.core.table
        /\ execute_on_receive => r \in employed.core.enforced
  BY <1>2, EmployRule
<1>4. core' = employed.core /\ status' = employed.status
  BY <1>1
<1>5. config' = config /\ main' = main /\ main \in {"channels", "objects"}
  BY DEF EmployRuleFromFile
<1>6. execute_on_receive' = execute_on_receive /\ rules' = rules
  BY <1>5, SameConfiguration DEF FileRules, instances
<1>7. i \in Nat
  BY <1>5, KindsOfRules
<1>8. r \in core'.table /\ (execute_on_receive => r \in core'.enforced)
  <2> HIDE DEF employed, r, rules
  <2> QED
    BY <1>3, <1>4
<1>9. Accepted(rules[i])'
  BY <1>6, <1>8 DEF Accepted
<1> QED
  BY <1>1, <1>7, <1>9

\* Without a control plane the status is that of the last rule of the file.
LEMMA LastStatusStep ==
  ASSUME IInv, [Next]_vars, FileMode
  PROVE  LastStatus'
<1> USE DEF socketVars, peerVars, listenVars
<1>1. Types /\ LastStatus /\ config' = config
  BY KeptByAll DEF IInv, Readiness, Kept
<1>2. ObjectRules' = ObjectRules /\ ChannelRules' = ChannelRules
  BY <1>1, SameConfiguration
<1>3. \A r : Accepted(r) => Accepted(r)'
  BY AcceptedStays
<1>4. /\ FileRules("channels").rules = ChannelRules
      /\ FileRules("objects").rules = ObjectRules
      /\ \A i \in DOMAIN ChannelRules : i \in Nat \ {0}
      /\ \A i \in DOMAIN ObjectRules : i \in Nat \ {0}
  BY KindsOfRules DEF ChannelRules
<1>5. CASE UNCHANGED <<main, status, position>>
  BY <1>1, <1>2, <1>3, <1>5 DEF LastStatus, EmployedLast, Accepted
<1>6. CASE main' \notin {"core", "agent", "channels", "objects"}
  BY <1>6 DEF LastStatus
<1>7. CASE ConstructCore
  BY <1>1, <1>7 DEF ConstructCore, LastStatus
<1>8. CASE ReadRulesFromFile("channels")
  BY <1>1, <1>8 DEF ReadRulesFromFile, LastStatus
<1>9. CASE ReadRulesFromFile("objects")
  <2>1. /\ main = "channels" /\ main' \in {"objects", "failed"}
        /\ status' = status /\ position' = 1
        /\ \A i \in DOMAIN ChannelRules : i < position
    BY <1>4, <1>9 DEF ReadRulesFromFile, AllEmployed
  <2>2. ASSUME status = "ok"
        PROVE  \E i \in DOMAIN ChannelRules :
                 /\ \A j \in DOMAIN ChannelRules : j <= i
                 /\ Accepted(ChannelRules[i])
    BY <1>1, <2>1, <2>2 DEF LastStatus, EmployedLast
  <2>3. \A j \in DOMAIN ObjectRules : ~(j < 1)
    BY <1>4
  <2>4. status = "ok" => \E i \in DOMAIN ChannelRules :
                           /\ \A j \in DOMAIN ChannelRules : j <= i
                           /\ Accepted(ChannelRules[i])'
    <3>1. \A i : Accepted(ChannelRules[i]) => Accepted(ChannelRules[i])'
      BY <1>2, <1>3 DEF Accepted
    <3> QED
      BY <2>2, <3>1
  <2> QED
    BY <1>2, <2>1, <2>3, <2>4 DEF LastStatus
<1>10. CASE EmployRuleFromFile
  <2>1. main' = main /\ main \in {"channels", "objects"}
    BY <1>10 DEF EmployRuleFromFile
  <2> SUFFICES ASSUME status' = "ok" PROVE LastStatus'
    BY <2>1 DEF LastStatus
  <2>2. PICK i \in DOMAIN FileRules(main).rules :
          /\ i \in Nat /\ position' = i + 1
          /\ Accepted(FileRules(main).rules[i])'
    BY <1>10, EmployedStatus
  <2>3. CASE main = "channels"
    <3>1. i \in DOMAIN ChannelRules /\ Accepted(ChannelRules[i])'
      <4>1. FileRules(main).rules = ChannelRules
        BY <2>3 DEF ChannelRules
      <4>2. (FileRules(main).rules = ChannelRules)'
        BY <2>1, <2>3 DEF ChannelRules
      <4> QED
        BY <2>2, <4>1, <4>2 DEF Accepted
    <3>2. EmployedLast(ChannelRules, i)'
      BY <1>2, <1>4, <2>2, <3>1 DEF EmployedLast
    <3> QED
      BY <1>2, <2>1, <2>3, <3>1, <3>2 DEF LastStatus
  <2>4. CASE main = "objects"
    <3>1. i \in DOMAIN ObjectRules /\ Accepted(ObjectRules[i])'
      <4>1. FileRules(main).rules = FileRules("objects").rules
        BY <2>4
      <4>2. (FileRules(main).rules = ObjectRules)'
        BY <2>1, <2>4 DEF FileRules, ObjectRules
      <4> QED
        BY <1>4, <2>2, <4>1, <4>2
    <3>2. EmployedLast(ObjectRules, i)'
      BY <1>2, <1>4, <2>2, <3>1 DEF EmployedLast
    <3> QED
      BY <1>2, <2>1, <2>4, <3>1, <3>2 DEF LastStatus
  <2> QED
    BY <2>1, <2>3, <2>4
<1>11. CASE \/ InsertEnforcementRules \/ WaitForRules \/ ConstructHandshakeHandler
            \/ JoinHandshake \/ ConstructSouthboundHandler
            \/ DisconnectFromControlPlane \/ ShutdownConnection
  BY <1>6, <1>11 DEF InsertEnforcementRules, WaitForRules, ConstructHandshakeHandler,
     JoinHandshake, ConstructSouthboundHandler, DisconnectFromControlPlane,
     ShutdownConnection
<1>12. ~ListenerStep
  BY FileModeSteps DEF IInv
<1>13. CASE ControlPlane \/ UNCHANGED vars
  BY <1>5, <1>13 DEF ControlPlane, SendOperation, SendPayload, SendAddress,
     CloseConnection, vars
<1> QED
  BY <1>7, <1>8, <1>9, <1>10, <1>11, <1>12, <1>13 DEF Next, MainStep

\* At the end of the loops the status is that of LastRule.
LEMMA LastRuleAccepted ==
  ASSUME IInv, FileMode, main = "objects", AllEmployed, status = "ok"
  PROVE  Accepted(LastRule)
<1>1. /\ FileRules("objects").rules = ObjectRules
      /\ FileRules("channels").rules = ChannelRules
      /\ DOMAIN ChannelRules \subseteq Nat
      /\ DOMAIN ObjectRules \subseteq Nat
  BY KindsOfRules DEF ChannelRules
<1>2. \A j \in DOMAIN ObjectRules : j < position
  BY <1>1 DEF AllEmployed
<1>3. CASE \E i \in DOMAIN ObjectRules :
             EmployedLast(ObjectRules, i) /\ Accepted(ObjectRules[i])
  <2>1. PICK i \in DOMAIN ObjectRules :
               (\A j \in DOMAIN ObjectRules : j <= i) /\ Accepted(ObjectRules[i])
    BY <1>2, <1>3 DEF EmployedLast
  <2>2. Max(DOMAIN ObjectRules) = i
    BY <1>1, <2>1, Greatest
  <2> QED
    BY <1>1, <2>1, <2>2 DEF LastRule
<1>4. CASE /\ \A j \in DOMAIN ObjectRules : ~(j < position)
           /\ \E i \in DOMAIN ChannelRules :
                /\ \A j \in DOMAIN ChannelRules : j <= i
                /\ Accepted(ChannelRules[i])
  <2>1. PICK i \in DOMAIN ChannelRules :
               (\A j \in DOMAIN ChannelRules : j <= i) /\ Accepted(ChannelRules[i])
    BY <1>4
  <2>2. Max(DOMAIN ChannelRules) = i /\ DOMAIN ObjectRules = {}
    BY <1>1, <1>2, <1>4, <2>1, Greatest
  <2> QED
    BY <1>1, <2>1, <2>2 DEF LastRule
<1> QED
  BY <1>3, <1>4 DEF IInv, Readiness, LastStatus

\* No step leads back into Agent's constructor.
LEMMA ConstructedOnce ==
  ASSUME [Next]_vars, main \notin {"core", "agent", "channels", "objects"}
  PROVE  main' \notin {"core", "agent", "channels", "objects"}
BY DEF Next, MainStep, ShutdownConnection, ConstructCore, ReadRulesFromFile,
   EmployRuleFromFile, InsertEnforcementRules, WaitForRules,
   ConstructHandshakeHandler, JoinHandshake, ConstructSouthboundHandler,
   DisconnectFromControlPlane, ListenerStep, HandshakeListen, StageHandshake,
   SetSouthboundSocketInfo, Listen, ListenEnds, UnsupportedOperation,
   HandleControlOperation, ReadPayload, ExecuteHousekeepingRules, WriteAnswer,
   Terminate, ControlPlane, SendOperation, SendPayload, SendAddress,
   CloseConnection, vars

\* The stage becomes ready for a reason, and the reason remains.
LEMMA ReadinessStep ==
  ASSUME IInv, [Next]_vars
  PROVE  Readiness'
<1>1. Types /\ Protocol /\ Phases /\ Readiness
  BY DEF IInv
<1>2. config' = config /\ Grew(core, core')
  BY <1>1, KeptByAll DEF Kept
<1>3. FileMode' = FileMode /\ LastRule' = LastRule
  BY <1>2, SameConfiguration
<1>4. FileMode => LastStatus'
  BY LastStatusStep
<1>5. ASSUME m_ready', FileMode
      PROVE  /\ main' \notin {"core", "agent", "channels", "objects"}
             /\ Accepted(LastRule)'
  <2>1. CASE m_ready' = m_ready
    <3>1. /\ main \notin {"core", "agent", "channels", "objects"}
          /\ Accepted(LastRule)
      BY <1>1, <1>5, <2>1 DEF Readiness, ReadyForAReason
    <3>2. Accepted(LastRule)'
      BY <1>3, <3>1, AcceptedStays DEF Accepted
    <3> QED
      BY <3>1, <3>2, ConstructedOnce
  <2>2. CASE InsertEnforcementRules
    <3>1. /\ status = "ok" /\ main = "objects" /\ AllEmployed
          /\ main' = "connect"
      BY <1>5, <2>2 DEF InsertEnforcementRules
    <3>2. Accepted(LastRule)
      BY <1>5, <3>1, LastRuleAccepted
    <3>3. Accepted(LastRule)'
      BY <1>3, <3>2, AcceptedStays DEF Accepted
    <3> QED
      BY <3>1, <3>3
  <2>3. ~ReadPayload
    BY <1>1, <1>5, FileModeSteps DEF ListenerStep
  <2> QED
    BY <2>1, <2>2, <2>3, ReadyFlag
<1>6. ASSUME m_ready', ~FileMode
      PROVE  \E i \in DOMAIN handled' :
               handled'[i].type = "mark_stage_ready" /\ handled'[i].mark
  <2>1. \A i \in DOMAIN handled : i \in DOMAIN handled' /\ handled'[i] = handled[i]
    BY <1>1, RecordGrows
  <2>2. \E i \in DOMAIN handled :
          handled[i].type = "mark_stage_ready" /\ handled[i].mark
    <3>1. CASE m_ready
      BY <1>1, <1>6, <3>1 DEF Readiness, ReadyForAReason
    <3>2. CASE ~m_ready /\ ReadPayload /\ m_ready' = Effect(operation).ready
      <4>1. /\ HasPayload(operation)
            /\ Len(handled) = Len(answers) + 1
            /\ operation = handled[Len(handled)]
        BY <1>1, <3>2 DEF Protocol, ReadPayload, Busy
      <4>2. operation.type = "mark_stage_ready" /\ operation.mark
        BY <1>1, <1>6, <3>2, <4>1, Effects
      <4>3. Len(handled) \in DOMAIN handled
        BY <1>1, <4>1 DEF Types
      <4> QED
        BY <4>1, <4>2, <4>3
    <3> QED
      BY <1>6, <3>1, <3>2, ReadyFlag
  <2> QED
    BY <2>1, <2>2
<1> QED
  BY <1>3, <1>4, <1>5, <1>6 DEF Readiness, ReadyForAReason

\* What is done stays done.
LEMMA DoneStays ==
  ASSUME Grew(core, core'), m_ready => m_ready', NEW op, Done(op)
  PROVE  DoneIn(core', m_ready', execute_on_receive, op)
  BY DEF Done, DoneIn, Grew

\* Where the listener comes to an answer, and where it writes one.
LEMMA ComingToAnswer ==
  ASSUME IInv, [Next]_vars
  PROVE  /\ \/ answers' = answers
            \/ /\ answers' = Append(answers, <<operation, status>>)
               /\ Alive /\ listener = "answer" /\ listener' # "answer"
         /\ Alive' /\ listener' = "answer" /\ status' = "ok" =>
              \/ /\ Alive /\ listener = "answer" /\ status = "ok"
                 /\ operation' = operation
              \/ operation'.type \notin {"mark_stage_ready", "create_hsk_rule",
                                          "create_enf_rule"}
              \/ /\ ReadPayload
                 /\ core' = Effect(operation).core
                 /\ status' = Effect(operation).status
                 /\ m_ready' = Effect(operation).ready
<1> USE DEF socketVars, peerVars, listenVars
<1>1. CASE MainStep \/ ShutdownConnection
  <2>1. CASE EmployRuleFromFile
    BY <2>1 DEF EmployRuleFromFile, IInv, Phases
  <2> QED
    BY <1>1, <2>1 DEF MainStep, ShutdownConnection, ConstructCore,
       ReadRulesFromFile, InsertEnforcementRules, WaitForRules,
       ConstructHandshakeHandler, JoinHandshake, ConstructSouthboundHandler,
       DisconnectFromControlPlane
<1>2. CASE HandshakeListen \/ StageHandshake \/ SetSouthboundSocketInfo
  BY <1>2 DEF HandshakeListen, StageHandshake, SetSouthboundSocketInfo, Terminate
<1>3. CASE Listen
  BY <1>3 DEF Listen, ListenEnds, UnsupportedOperation, HandleControlOperation,
     Terminate, Alive, HasPayload, StatusWithoutPayload
<1>4. CASE ReadPayload
  BY <1>4 DEF ReadPayload
<1>5. CASE ExecuteHousekeepingRules
  <2>1. operation'.type = "exec_hsk_rules" /\ answers' = answers
    BY <1>5 DEF ExecuteHousekeepingRules, IInv, Protocol
  <2> QED
    BY <2>1
<1>6. CASE WriteAnswer
  BY <1>6 DEF WriteAnswer, Terminate, Alive
<1>7. CASE ControlPlane
  BY <1>7 DEF ControlPlane, SendOperation, SendPayload, SendAddress,
     CloseConnection, Alive
<1>8. CASE UNCHANGED vars
  BY <1>8 DEF vars, Alive
<1> QED
  BY <1>1, <1>2, <1>3, <1>4, <1>5, <1>6, <1>7, <1>8 DEF Next, ListenerStep

\* An acknowledgement is written for what is done.
LEMMA PromisesStep ==
  ASSUME IInv, [Next]_vars
  PROVE  Promises'
<1>1. Types /\ Protocol /\ Phases /\ Promises
  BY DEF IInv
<1>2. config' = config /\ Grew(core, core')
  BY <1>1, KeptByAll DEF Kept
<1>3. CASE FileMode
  <2>1. /\ FileMode'
        /\ Phases'
    BY <1>2, <1>3, PhasesStep, SameConfiguration
  <2>2. answers' = <<>> /\ listener' = "none"
    BY <2>1 DEF Phases
  <2> QED
    BY <2>2 DEF Promises
<1>4. CASE ~FileMode
  <2>1. m_ready => m_ready'
    <3>1. CASE ReadPayload /\ m_ready' = Effect(operation).ready
      <4>1. HasPayload(operation)
        BY <1>1, <3>1 DEF Protocol, ReadPayload
      <4> QED
        BY <1>1, <3>1, <4>1, Effects
    <3> QED
      BY <1>4, <3>1, ReadyFlag
  <2> DEFINE DoneNext(op) == DoneIn(core', m_ready', execute_on_receive, op)
  <2>2. \A op : Done(op) => DoneNext(op)
    BY <1>2, <2>1, DoneStays
  <2>3. ASSUME NEW i \in DOMAIN answers', answers'[i][2] = "ok"
        PROVE  DoneNext(answers'[i][1])
    <3>1. Done(answers'[i][1])
      <4>1. CASE answers' = answers
        BY <1>1, <2>3, <4>1 DEF Promises, Answered
      <4>2. CASE /\ answers' = Append(answers, <<operation, status>>)
                 /\ Alive /\ listener = "answer"
        <5>1. \/ i \in DOMAIN answers /\ answers'[i] = answers[i]
              \/ answers'[i] = <<operation, status>>
          BY <1>1, <4>2 DEF Types
        <5> QED
          BY <1>1, <2>3, <4>2, <5>1 DEF Promises, Answered
      <4> QED
        BY <4>1, <4>2, ComingToAnswer
    <3> QED
      BY <2>2, <3>1
  <2>4. ASSUME Alive', listener' = "answer", status' = "ok"
        PROVE  DoneNext(operation')
    <3>1. CASE /\ Alive /\ listener = "answer" /\ status = "ok"
               /\ operation' = operation
      <4>1. Done(operation)
        BY <1>1, <3>1 DEF Promises
      <4> QED
        BY <2>2, <3>1, <4>1
    <3>2. CASE operation'.type \notin {"mark_stage_ready", "create_hsk_rule", "create_enf_rule"}
      BY <3>2 DEF DoneIn
    <3>3. CASE /\ ReadPayload
               /\ core' = Effect(operation).core
               /\ status' = Effect(operation).status
               /\ m_ready' = Effect(operation).ready
      <4>1. HasPayload(operation) /\ operation' = operation
        BY <1>1, <3>3 DEF Protocol, ReadPayload
      <4>2. DoneNext(operation)
        BY <1>1, <2>4, <3>3, <4>1, Effects
      <4> QED
        BY <4>1, <4>2
    <3> QED
      BY <2>4, <3>1, <3>2, <3>3, ComingToAnswer
  <2>5. execute_on_receive' = execute_on_receive
    BY <1>2, SameConfiguration
  <2> QED
    BY <2>3, <2>4, <2>5 DEF Promises, Done, Answered
<1> QED
  BY <1>3, <1>4

-----------------------------------------------------------------------------
(* The rules of the file.                                                  *)

\* A step of the objects' loop.
LEMMA ObjectsLoop ==
  ASSUME IInv, FileMode, execute_on_receive, main = "objects", EmployRuleFromFile
  PROVE  /\ \A r \in core'.table : r.operation = "create_object" => Settled(core', r)
         /\ \A i \in DOMAIN ObjectRules :
              i < position' => Settled(core', ObjectRules[i])
<1>1. /\ Types
      /\ \A r \in core.table : r.operation = "create_object" => Settled(core, r)
      /\ \A i \in DOMAIN ObjectRules : i < position => Settled(core, ObjectRules[i])
  BY DEF IInv, Settling
<1>2. /\ FileRules(main).rules = ObjectRules
      /\ \A i \in DOMAIN ObjectRules :
           i \in Nat /\ ObjectRules[i].operation = "create_object"
  BY KindsOfRules
<1>3. PICK i \in DOMAIN ObjectRules :
        LET employed == employ_housekeeping_rule(core, ObjectRules[i],
                                                 execute_on_receive)
        IN  /\ i >= position
            /\ \A j \in DOMAIN ObjectRules : j < position \/ i <= j
            /\ core' = employed.core
            /\ position' = i + 1
  BY <1>2 DEF EmployRuleFromFile
<1> DEFINE r == ObjectRules[i]
           employed == employ_housekeeping_rule(core, r, TRUE)
<1>4. core' = employed.core
  <2>1. execute_on_receive = TRUE
    BY DEF execute_on_receive
  <2> QED
    BY <1>3, <2>1
<1>5. /\ Grew(core, employed.core)
      /\ employed.core.table \subseteq core.table \cup {r}
  BY <1>1, EmployRule DEF Types, Returns
<1>6. employed.core.channels = core.channels /\ Settled(employed.core, r)
  <2>1. IsCore(core) /\ r.operation = "create_object"
    BY <1>1, <1>2 DEF Types
  <2> QED
    BY <1>1, <2>1, EmployObjectRule
<1> HIDE DEF employed
<1>7. \A q : Settled(core, q) => Settled(core', q)
  BY <1>4, <1>5, <1>6, SettledStays
<1>8. ASSUME NEW j \in DOMAIN ObjectRules, j < position'
      PROVE  Settled(core', ObjectRules[j])
  <2>1. j < position \/ j = i
    BY <1>1, <1>2, <1>3, <1>8 DEF Types
  <2> QED
    BY <1>1, <1>4, <1>6, <1>7, <2>1
<1>9. ASSUME NEW q \in core'.table, q.operation = "create_object"
      PROVE  Settled(core', q)
  <2>1. q \in core.table \/ q = r
    BY <1>4, <1>5, <1>9
  <2> QED
    BY <1>1, <1>4, <1>6, <1>7, <1>9, <2>1
<1> QED
  BY <1>8, <1>9

\* A step of the channels' loop employs no object rule.
LEMMA ChannelsLoop ==
  ASSUME IInv, main = "channels", EmployRuleFromFile,
         \A r \in core.table : r.operation # "create_object"
  PROVE  \A r \in core'.table : r.operation # "create_object"
<1> DEFINE rules == FileRules(main).rules
<1>1. PICK i \in DOMAIN rules :
        core' = employ_housekeeping_rule(core, rules[i], execute_on_receive).core
  BY DEF EmployRuleFromFile
<1>2. rules[i].operation = "create_channel"
  BY KindsOfRules
<1>3. IsCore(core) /\ execute_on_receive \in BOOLEAN
  BY DEF IInv, Types, execute_on_receive
<1>4. core'.table \subseteq core.table \cup {rules[i]}
  BY <1>1, <1>3, EmployRule
<1> HIDE DEF rules
<1> QED
  BY <1>2, <1>4

\* The rules of the file are settled in order, channels before objects.
LEMMA SettlingStep ==
  ASSUME IInv, [Next]_vars
  PROVE  Settling'
<1> USE DEF socketVars, peerVars, listenVars
<1>1. Types /\ Phases /\ Settling /\ config' = config
  BY KeptByAll DEF IInv, Kept
<1>2. /\ FileMode' = FileMode
      /\ execute_on_receive' = execute_on_receive
      /\ ObjectRules' = ObjectRules
  BY <1>1, SameConfiguration
<1> SUFFICES ASSUME FileMode, execute_on_receive
             PROVE  Settling'
  BY <1>2 DEF Settling
<1>3. CASE ConstructCore
  <2>1. core'.table = core.table /\ main = "core" /\ main' \in {"core", "agent"}
    <3>1. /\ main = "core" /\ main' \in {"core", "agent"}
          /\ \/ core' = core
             \/ core' = CreateDefaultChannel(core, position,
                                             config.default_object_creation)
      BY <1>3 DEF ConstructCore
    <3> QED
      BY <1>1, <3>1, DefaultChannel DEF Types
  <2> QED
    BY <1>1, <2>1 DEF Settling
<1>4. CASE ReadRulesFromFile("channels")
  <2>1. core' = core /\ main = "agent" /\ main' \in {"channels", "failed"}
    BY <1>4 DEF ReadRulesFromFile
  <2> QED
    BY <1>1, <2>1 DEF Settling
<1>5. CASE ReadRulesFromFile("objects")
  <2>1. /\ core' = core /\ main = "channels" /\ main' \in {"objects", "failed"}
        /\ position' = 1
    BY <1>5 DEF ReadRulesFromFile
  <2>2. \A i \in DOMAIN ObjectRules : ~(i < 1)
    BY KindsOfRules
  <2> QED
    BY <1>1, <1>2, <2>1, <2>2 DEF Settling
<1>6. CASE EmployRuleFromFile
  <2>1. main' = main /\ main \in {"channels", "objects"}
    BY <1>6 DEF EmployRuleFromFile
  <2>2. CASE main = "channels"
    <3>1. \A r \in core'.table : r.operation # "create_object"
      BY <1>1, <1>6, <2>2, ChannelsLoop DEF Settling
    <3> QED
      BY <2>1, <2>2, <3>1 DEF Settling
  <2>3. CASE main = "objects"
    <3>1. /\ \A r \in core'.table : r.operation = "create_object" => Settled(core', r)
          /\ \A i \in DOMAIN ObjectRules :
               i < position' => Settled(core', ObjectRules[i])
      BY <1>6, <2>3, ObjectsLoop
    <3> QED
      BY <1>2, <2>1, <2>3, <3>1 DEF Settling
  <2> QED
    BY <2>1, <2>2, <2>3
<1>7. CASE InsertEnforcementRules
  <2>1. /\ core' = core /\ main = "objects" /\ main' \in {"connect", "failed"}
        /\ AllEmployed
    BY <1>7 DEF InsertEnforcementRules
  <2>2. \A i \in DOMAIN ObjectRules : i < position
    BY <2>1, KindsOfRules DEF AllEmployed
  <2> QED
    BY <1>1, <1>2, <2>1, <2>2 DEF Settling
<1>8. CASE WaitForRules
  <2>1. config'.housekeeping = NoPath /\ main' = "connect"
    BY <1>1, <1>8 DEF WaitForRules
  <2> QED
    BY <2>1 DEF Settling
<1>9. CASE \/ ConstructHandshakeHandler \/ JoinHandshake
           \/ ConstructSouthboundHandler \/ DisconnectFromControlPlane
           \/ ShutdownConnection
  <2>1. /\ core' = core
        /\ main \in {"connect", "handshake", "southbound", "joining", "running"}
        /\ main' \notin {"core", "agent", "channels", "objects"}
    BY <1>9 DEF ConstructHandshakeHandler, JoinHandshake,
       ConstructSouthboundHandler, DisconnectFromControlPlane, ShutdownConnection
  <2> QED
    BY <1>1, <1>2, <2>1 DEF Settling
<1>10. ~ListenerStep
  BY <1>1, FileModeSteps
<1>11. CASE ControlPlane \/ UNCHANGED vars
  <2>1. UNCHANGED <<core, main, position>>
    BY <1>11 DEF ControlPlane, SendOperation, SendPayload, SendAddress,
       CloseConnection, vars
  <2> QED
    BY <1>1, <1>2, <2>1 DEF Settling
<1> QED
  BY <1>3, <1>4, <1>5, <1>6, <1>7, <1>8, <1>9, <1>10, <1>11 DEF Next, MainStep

-----------------------------------------------------------------------------
(* Theorems.                                                               *)

\* The inductive invariant holds in every state.
LEMMA Invariance == Spec => []IInv
<1>1. Init => IInv
  BY InitIInv
<1>2. IInv /\ [Next]_vars => IInv'
  <2> SUFFICES ASSUME IInv, [Next]_vars
               PROVE  IInv'
    OBVIOUS
  <2>1. Types'
    BY KeptByAll DEF IInv, Kept
  <2> QED
    BY <2>1, ProtocolStep, PhasesStep, ReadinessStep, PromisesStep, SettlingStep
       DEF IInv
<1> QED
  BY <1>1, <1>2, PTL DEF Spec

\* SouthboundConnectionHandler::listen answers each operation once, in order and
\* before it reads the next one, whatever the control plane sends and whenever it
\* goes away.
THEOREM AnswersInOrder == Spec => []OneAnswerEach
<1>1. IInv => OneAnswerEach
  BY DEF IInv, Protocol, OneAnswerEach, Busy
<1> QED
  BY <1>1, Invariance, PTL

\* An acknowledgement with AckCode::ok is true when it is written and remains
\* true, with and without execute_on_receive.
THEOREM AcknowledgedIsDone == Spec => []OkMeansDone
<1>1. IInv => OkMeansDone
  BY DEF IInv, Promises, OkMeansDone, Done, DoneIn, Answered
<1> QED
  BY <1>1, Invariance, PTL

\* A stage becomes ready by a mark_stage_ready operation that asks for it or,
\* without a control plane, once both files are read and the last housekeeping rule
\* is in the table and, if rules are executed on receive, in force; and that stays
\* true.
THEOREM ReadyWhenTold == Spec => []ReadyForAReason
<1>1. IInv => ReadyForAReason
  BY DEF IInv, Readiness
<1> QED
  BY <1>1, Invariance, PTL

\* insert_housekeeping_rules_from_file loses no object to the order of the lines,
\* for any file and any limit on the rules.
THEOREM OrderOfLinesIsIrrelevant == Spec => []ObjectsFindTheirChannels
<1>1. IInv => ObjectsFindTheirChannels
  BY DEF IInv, Settling, ObjectsFindTheirChannels, ObjectRules
<1> QED
  BY <1>1, Invariance, PTL

\* The connection thread ends the process only in the middle of an operation or
\* of the handshake, or for want of a socket.
THEOREM GoingAwayIsHarmless == Spec => []TerminatesInMidOperation
<1>1. IInv => TerminatesInMidOperation
  BY DEF IInv, Phases
<1> QED
  BY <1>1, Invariance, PTL
=============================================================================
