---------------------------- MODULE StageControl ----------------------------
(***************************************************************************)
(* A data plane stage: the control plane's thread (SouthboundConnection-   *)
(* Handler::listen) inserts and executes housekeeping rules through Agent, *)
(* Core and HousekeepingTable, while application threads call              *)
(* PaioStage::enforce_request.                                             *)
(*                                                                         *)
(* One thread runs the control operations, one at a time.  Its steps are   *)
(* cut where a data thread can see a difference: the emplacement into      *)
(* m_channels, which enforce_request reads without m_channels_lock, and    *)
(* each section under m_objects_lock.  The channel's own work is module    *)
(* ChannelQueues; here it is one step.  Differentiation tokens come with   *)
(* the rule or the request: hashing is a function of the classifiers.      *)
(***************************************************************************)
EXTENDS Naturals, Sequences, FiniteSets

CONSTANTS
  Rules,             \* rule identifiers the control plane uses
  Rule,              \* what each rule says
  ChannelTokens,     \* differentiation tokens of channels
  ObjectTokens,      \* differentiation tokens of enforcement objects
  ChannelIds,
  ObjectIds,
  Threads,           \* threads that call enforce_request
  None,              \* nullptr, or a token that was not found (-1)
  DefaultChannels,   \* <<id, token>> of the channels Core's constructor makes
  DefaultObjects     \* objects it puts in each of them, at most one

RuleContents ==
  [operation : {"create_channel"}, channel_id : ChannelIds,
   token : ChannelTokens]
  \cup [operation : {"create_object"}, channel_id : ChannelIds,
        object_id : ObjectIds, token : ObjectTokens,
        type : {"noop", "drl", "other"}, configured : BOOLEAN]

Object == [id : ObjectIds, token : ObjectTokens, type : {"noop", "drl"},
           settings : {"default", "initial", "rule"}]

\* Core's constructor goes through create_channel: no id or token occurs twice.
ASSUME StageAssumption ==
  /\ IsFiniteSet(Rules)
  /\ Rule \in [Rules -> RuleContents]
  /\ ChannelTokens # {} /\ ObjectTokens # {}
  /\ None \notin ChannelTokens \cup ObjectTokens \cup ChannelIds
  /\ DefaultChannels \in Seq(ChannelIds \X ChannelTokens)
  /\ \A i, j \in DOMAIN DefaultChannels :
       i # j => /\ DefaultChannels[i][1] # DefaultChannels[j][1]
                /\ DefaultChannels[i][2] # DefaultChannels[j][2]
  /\ DefaultObjects \in Seq(Object)
  /\ Len(DefaultObjects) <= 1

VARIABLES
  m_housekeeping_rules,              \* state of each rule in the table
  order,                             \* the table's iteration order
  m_number_of_rules,
  m_number_of_rules_left_to_employ,
  m_channels,                        \* id of the channel under each token
  m_channel_id_to_token_linkers,
  m_enf_objects,                     \* per channel, in order of creation
  m_object_id_to_token_linkers,      \* per channel
  m_ready,
  m_execute_on_receive,              \* rules are executed as they come
  control,                           \* where the control thread is
  rule,                              \* the rule it executes
  position,                          \* in order, 0 outside a traversal
  status,                            \* of the traversal so far
  ack,                               \* the last operation and its answer
  thread,                            \* where each data thread is
  request,                           \* its request's two tokens
  channel_ptr,                       \* the channel it selected, by token
  handler,                           \* index of the object that enforced it,
                                     \* 0 for m_no_match_object
  returned,                          \* PStatus of its last call
  expected                           \* history: object in place at the call

tableVars == <<m_housekeeping_rules, order, m_number_of_rules,
               m_number_of_rules_left_to_employ>>
channelVars == <<m_channels, m_channel_id_to_token_linkers>>
objectVars == <<m_enf_objects, m_object_id_to_token_linkers>>
agentVars == <<m_ready, m_execute_on_receive>>
controlVars == <<control, rule, position, status, ack>>
dataVars == <<thread, request, channel_ptr, handler, returned, expected>>
vars == <<tableVars, channelVars, objectVars, agentVars, controlVars, dataVars>>

Statuses == {"ok", "error", "not_supported"}

\* Every variable holds a value of its type: in particular the number of rules
\* left to employ, which insertion raises and the mark lowers at another time,
\* never falls below zero.
TypeOK ==
  /\ m_housekeeping_rules \in [Rules -> {"absent", "pending", "enforced"}]
  /\ order \in Seq(Rules)
  /\ m_number_of_rules \in Nat
  /\ m_number_of_rules_left_to_employ \in Nat
  /\ m_channels \in [ChannelTokens -> ChannelIds \cup {None}]
  /\ m_channel_id_to_token_linkers \in Seq(ChannelIds \X ChannelTokens)
  /\ m_enf_objects \in [ChannelTokens -> Seq(Object)]
  /\ m_object_id_to_token_linkers \in
       [ChannelTokens -> Seq(ObjectIds \X ObjectTokens)]
  /\ m_ready \in BOOLEAN
  /\ m_execute_on_receive \in BOOLEAN
  /\ control \in {"idle", "traverse", "execute", "emplace", "link_channel",
                  "link_object", "initialize", "mark"}
  /\ rule \in Rules \cup {None}
  /\ position \in Nat
  /\ status \in Statuses
  /\ ack \in {"none", "employ", "execute", "configure"} \X {"ok", "error"}
  /\ thread \in [Threads -> {"idle", "find", "enforce"}]
  /\ request \in [Threads -> ChannelTokens \X ObjectTokens]
  /\ channel_ptr \in [Threads -> ChannelTokens \cup {None}]
  /\ handler \in [Threads -> Nat]
  /\ returned \in [Threads -> {"none", "error", "enforced"}]
  /\ expected \in [Threads -> Nat]

DefaultTokens == {DefaultChannels[i][2] : i \in DOMAIN DefaultChannels}

\* Core's parameterized constructor.
Init ==
  /\ m_housekeeping_rules = [r \in Rules |-> "absent"]
  /\ order = <<>>
  /\ m_number_of_rules = 0
  /\ m_number_of_rules_left_to_employ = 0
  /\ m_channels = [k \in ChannelTokens |->
       IF k \in DefaultTokens
         THEN (CHOOSE i \in ChannelIds :
                 \E n \in DOMAIN DefaultChannels : DefaultChannels[n] = <<i, k>>)
         ELSE None]
  /\ m_channel_id_to_token_linkers = DefaultChannels
  /\ m_enf_objects = [k \in ChannelTokens |->
       IF k \in DefaultTokens THEN DefaultObjects ELSE <<>>]
  /\ m_object_id_to_token_linkers = [k \in ChannelTokens |->
       [i \in DOMAIN m_enf_objects[k] |->
          <<m_enf_objects[k][i].id, m_enf_objects[k][i].token>>]]
  /\ m_ready = FALSE
  /\ m_execute_on_receive \in BOOLEAN
  /\ control = "idle"
  /\ rule = None
  /\ position = 0
  /\ status = "error"
  /\ ack = <<"none", "ok">>
  /\ thread = [t \in Threads |-> "idle"]
  /\ request = [t \in Threads |-> CHOOSE q \in ChannelTokens \X ObjectTokens : TRUE]
  /\ channel_ptr = [t \in Threads |-> None]
  /\ handler = [t \in Threads |-> 0]
  /\ returned = [t \in Threads |-> "none"]
  /\ expected = [t \in Threads |-> 0]

-----------------------------------------------------------------------------
(* Lookups.                                                                *)

\* First position in s of an element that satisfies a test, 0 if none does.
FirstIndex(s, Test(_)) ==
  IF \E i \in DOMAIN s : Test(s[i])
    THEN CHOOSE i \in DOMAIN s : Test(s[i]) /\ \A j \in 1..i - 1 : ~Test(s[j])
    ELSE 0

\* get_channel_diff_token and get_enforcement_object_diff_token.
GetDiffToken(linkers, id) ==
  LET i == FirstIndex(linkers, LAMBDA l : l[1] = id)
  IN  IF i = 0 THEN None ELSE linkers[i][2]

\* select_enforcement_object.
SelectEnforcementObject(objects, token) ==
  FirstIndex(objects, LAMBDA o : o.token = token)

DoesChannelTokenExist(token) == m_channels[token] # None

DoesChannelIdExist(id) == GetDiffToken(m_channel_id_to_token_linkers, id) # None

-----------------------------------------------------------------------------
(* The control plane's thread.                                             *)

\* The unordered_map's order after an insertion: anything, a rehash included.
Orders(S) == {s \in [1..Cardinality(S) -> S] : \A r \in S : \E i \in DOMAIN s : s[i] = r}

Reply(call, result) ==
  ack' = <<call, IF result = "ok" THEN "ok" ELSE "error">>

\* Agent::employ_housekeeping_rule, up to the execution of the rule.
EmployHousekeepingRule(r) ==
  /\ control = "idle"
  /\ m_housekeeping_rules[r] = "absent"
  /\ m_housekeeping_rules' = [m_housekeeping_rules EXCEPT ![r] = "pending"]
  /\ order' \in Orders({q \in Rules : m_housekeeping_rules'[q] # "absent"})
  /\ m_number_of_rules' = m_number_of_rules + 1
  /\ m_number_of_rules_left_to_employ' = m_number_of_rules_left_to_employ + 1
  /\ IF m_execute_on_receive
       THEN control' = "execute" /\ rule' = r /\ UNCHANGED ack
       ELSE Reply("employ", "ok") /\ UNCHANGED <<control, rule>>
  /\ UNCHANGED <<channelVars, objectVars, agentVars, position, status, dataVars>>

\* insert_housekeeping_rule finds the identifier in the table.
RejectHousekeepingRule(r) ==
  /\ control = "idle"
  /\ m_housekeeping_rules[r] # "absent"
  /\ Reply("employ", "error")
  /\ UNCHANGED <<tableVars, channelVars, objectVars, agentVars, control, rule,
                 position, status, dataVars>>

\* Mutant: the first rule of the table is left out.
ExecuteAllButFirst ==
  /\ control = "idle"
  /\ control' = "traverse"
  /\ position' = 2
  /\ status' = "error"
  /\ UNCHANGED <<tableVars, channelVars, objectVars, agentVars, rule, ack,
                 dataVars>>

\* Core::execute_housekeeping_rules, reached through Agent.
ExecuteHousekeepingRules ==
  /\ control = "idle"
  /\ control' = "traverse"
  /\ position' = 1
  /\ status' = "error"
  /\ UNCHANGED <<tableVars, channelVars, objectVars, agentVars, rule, ack,
                 dataVars>>

TraverseNext ==
  /\ control = "traverse"
  /\ position <= Len(order)
  /\ IF m_housekeeping_rules[order[position]] = "pending"
       THEN /\ control' = "execute"
            /\ rule' = order[position]
            /\ UNCHANGED position
       ELSE position' = position + 1 /\ UNCHANGED <<control, rule>>
  /\ UNCHANGED <<tableVars, channelVars, objectVars, agentVars, status, ack,
                 dataVars>>

TraverseEnd ==
  /\ control = "traverse"
  /\ position > Len(order)
  /\ control' = "idle"
  /\ position' = 0
  /\ Reply("execute", status)
  /\ UNCHANGED <<tableVars, channelVars, objectVars, agentVars, rule, status,
                 dataVars>>

\* execute_housekeeping_rule returns: to employ_housekeeping_rule, or to the
\* traversal, which only an error ends.
ReturnStatus(result) ==
  /\ rule' = None
  /\ IF position = 0
       THEN /\ control' = "idle"
            /\ Reply("employ", result)
            /\ UNCHANGED <<position, status>>
       ELSE IF result = "error"
       THEN /\ control' = "idle"
            /\ position' = 0
            /\ Reply("execute", "error")
            /\ UNCHANGED status
       ELSE /\ control' = "traverse"
            /\ position' = position + 1
            /\ status' = result
            /\ UNCHANGED ack

Executing(operation) == control = "execute" /\ Rule[rule].operation = operation

\* Core::create_channel: the channel is there already, by token or by id.
ChannelExists(r) ==
  \/ DoesChannelTokenExist(Rule[r].token)
  \/ DoesChannelIdExist(Rule[r].channel_id)

CreateChannelFails ==
  /\ Executing("create_channel")
  /\ ChannelExists(rule)
  /\ ReturnStatus("error")
  /\ UNCHANGED <<tableVars, channelVars, objectVars, agentVars, dataVars>>

CreateChannel ==
  /\ Executing("create_channel")
  /\ ~ChannelExists(rule)
  /\ control' = "emplace"
  /\ UNCHANGED <<tableVars, channelVars, objectVars, agentVars, rule, position,
                 status, ack, dataVars>>

\* The end of m_channels.emplace, which takes several memory accesses.
EmplaceChannel ==
  /\ control = "emplace"
  /\ m_channels' = [m_channels EXCEPT ![Rule[rule].token] = Rule[rule].channel_id]
  /\ control' = "link_channel"
  /\ UNCHANGED <<tableVars, m_channel_id_to_token_linkers, objectVars, agentVars,
                 rule, position, status, ack, dataVars>>

CreateNewChannelLinker ==
  /\ control = "link_channel"
  /\ m_channel_id_to_token_linkers' =
       Append(m_channel_id_to_token_linkers,
              <<Rule[rule].channel_id, Rule[rule].token>>)
  /\ control' = "mark"
  /\ UNCHANGED <<tableVars, m_channels, objectVars, agentVars, rule, position,
                 status, ack, dataVars>>

\* The channel of a create_object rule, None if it has no linker.
ChannelOf(r) ==
  GetDiffToken(m_channel_id_to_token_linkers, Rule[r].channel_id)

\* Mutant: the token is not compared.
ObjectNeverExists(r) == FALSE

\* SubmissionQueue::create_enforcement_object: only the token is compared.
ObjectExists(r) ==
  SelectEnforcementObject(m_enf_objects[ChannelOf(r)], Rule[r].token) # 0

\* Core, ChannelDefault and SubmissionQueue::create_enforcement_object.
CreateObjectFails ==
  /\ Executing("create_object")
  /\ IF ChannelOf(rule) = None THEN ReturnStatus("error")
     ELSE IF Rule[rule].type = "other" THEN ReturnStatus("not_supported")
     ELSE ObjectExists(rule) /\ ReturnStatus("error")
  /\ UNCHANGED <<tableVars, channelVars, objectVars, agentVars, dataVars>>

\* Mutant: an object with the same token is replaced.
CreateEnforcementObjectReplaces ==
  LET new == [id |-> Rule[rule].object_id, token |-> Rule[rule].token,
              type |-> Rule[rule].type, settings |-> "default"]
  IN  /\ Executing("create_object")
      /\ ChannelOf(rule) # None
      /\ m_enf_objects' =
           [m_enf_objects EXCEPT ![ChannelOf(rule)] =
              IF ObjectExists(rule)
                THEN [@ EXCEPT ![SelectEnforcementObject(@, new.token)] = new]
                ELSE Append(@, new)]
      /\ control' = "link_object"
      /\ UNCHANGED <<tableVars, channelVars, m_object_id_to_token_linkers,
                     agentVars, rule, position, status, ack, dataVars>>

CreateEnforcementObject ==
  /\ Executing("create_object")
  /\ ChannelOf(rule) # None
  /\ Rule[rule].type # "other"
  /\ ~ObjectExists(rule)
  /\ m_enf_objects' =
       [m_enf_objects EXCEPT ![ChannelOf(rule)] =
          Append(@, [id |-> Rule[rule].object_id, token |-> Rule[rule].token,
                     type |-> Rule[rule].type, settings |-> "default"])]
  /\ control' = "link_object"
  /\ UNCHANGED <<tableVars, channelVars, m_object_id_to_token_linkers, agentVars,
                 rule, position, status, ack, dataVars>>

CreateNewObjectLinker ==
  /\ control = "link_object"
  /\ m_object_id_to_token_linkers' =
       [m_object_id_to_token_linkers EXCEPT ![ChannelOf(rule)] =
          Append(@, <<Rule[rule].object_id, Rule[rule].token>>)]
  /\ control' = IF Rule[rule].configured /\ Rule[rule].type = "drl"
                THEN "initialize" ELSE "mark"
  /\ UNCHANGED <<tableVars, channelVars, m_enf_objects, agentVars, rule, position,
                 status, ack, dataVars>>

\* Mutant: whatever the type.
ConfiguredAnyType(objects, token, settings) ==
  LET i == SelectEnforcementObject(objects, token)
  IN  IF i # 0 THEN [objects EXCEPT ![i].settings = settings] ELSE objects

\* configure_enforcement_object: an object that is not a limiter ignores it.
Configured(objects, token, settings) ==
  LET i == SelectEnforcementObject(objects, token)
  IN  IF i # 0 /\ objects[i].type = "drl"
        THEN [objects EXCEPT ![i].settings = settings] ELSE objects

\* Mutant: the initial configuration is not applied.
InitializeObjectSkipped ==
  /\ control = "initialize"
  /\ control' = "mark"
  /\ UNCHANGED <<tableVars, channelVars, objectVars, agentVars, rule, position,
                 status, ack, dataVars>>

InitializeObject ==
  /\ control = "initialize"
  /\ m_enf_objects' =
       [m_enf_objects EXCEPT ![ChannelOf(rule)] =
          Configured(@, Rule[rule].token, "initial")]
  /\ control' = "mark"
  /\ UNCHANGED <<tableVars, channelVars, m_object_id_to_token_linkers, agentVars,
                 rule, position, status, ack, dataVars>>

\* Mutant: the copy of the rule is marked, not the rule in the table.
MarkCopyAsEnforced ==
  /\ control = "mark"
  /\ m_number_of_rules_left_to_employ' = m_number_of_rules_left_to_employ - 1
  /\ ReturnStatus("ok")
  /\ UNCHANGED <<m_housekeeping_rules, order, m_number_of_rules, channelVars,
                 objectVars, agentVars, dataVars>>

MarkHousekeepingRuleAsEnforced ==
  /\ control = "mark"
  /\ m_housekeeping_rules' = [m_housekeeping_rules EXCEPT ![rule] = "enforced"]
  /\ m_number_of_rules_left_to_employ' = m_number_of_rules_left_to_employ - 1
  /\ ReturnStatus("ok")
  /\ UNCHANGED <<order, m_number_of_rules, channelVars, objectVars, agentVars,
                 dataVars>>

\* Agent, Core and ChannelDefault: an enforcement rule for an object.  A no-op
\* object accepts any operation, a limiter the three that obj_configure knows.
EmployEnforcementRule(channel_id, object_id, known) ==
  LET channel == GetDiffToken(m_channel_id_to_token_linkers, channel_id)
      object == IF channel = None THEN None
                ELSE GetDiffToken(m_object_id_to_token_linkers[channel], object_id)
      selected == m_enf_objects[channel]
                    [SelectEnforcementObject(m_enf_objects[channel], object)]
      accepted == object # None /\ (known \/ selected.type # "drl")
  IN  /\ control = "idle"
      /\ Reply("configure", IF accepted THEN "ok" ELSE "error")
      /\ m_enf_objects' =
           IF accepted
             THEN [m_enf_objects EXCEPT ![channel] = Configured(@, object, "rule")]
             ELSE m_enf_objects
      /\ UNCHANGED <<tableVars, channelVars, m_object_id_to_token_linkers,
                     agentVars, control, rule, position, status, dataVars>>

MarkReady ==
  /\ control = "idle"
  /\ m_ready' = TRUE
  /\ UNCHANGED <<tableVars, channelVars, objectVars, m_execute_on_receive,
                 controlVars, dataVars>>

\* set_execute_on_receive, an atomic store: employ_housekeeping_rule loads the
\* flag once, after the rule is in the table.
SetExecuteOnReceive(value) ==
  /\ control = "idle"
  /\ m_execute_on_receive' = value
  /\ UNCHANGED <<tableVars, channelVars, objectVars, m_ready, controlVars,
                 dataVars>>

-----------------------------------------------------------------------------
(* Data threads: PaioStage::enforce_request.                               *)

\* The object that is in place for a request, 0 if there is none.
InPlace(q) ==
  IF m_channels[q[1]] = None THEN 0
  ELSE SelectEnforcementObject(m_enf_objects[q[1]], q[2])

EnforceRequest(t, q) ==
  /\ thread[t] = "idle"
  /\ thread' = [thread EXCEPT ![t] = IF m_ready THEN "find" ELSE "idle"]
  /\ returned' = [returned EXCEPT ![t] = IF m_ready THEN "none" ELSE "error"]
  /\ request' = [request EXCEPT ![t] = q]
  /\ expected' = [expected EXCEPT ![t] = InPlace(q)]
  /\ channel_ptr' = [channel_ptr EXCEPT ![t] = None]
  /\ handler' = [handler EXCEPT ![t] = 0]
  /\ UNCHANGED <<tableVars, channelVars, objectVars, agentVars, controlVars>>

\* find on m_channels; while another thread emplaces it may miss the token.
FindOutcomes(token) ==
  {IF DoesChannelTokenExist(token) THEN token ELSE None}
  \cup (IF control = "emplace" THEN {None} ELSE {})

\* Core::enforce_request: select_channel, without m_channels_lock.  With a null
\* pointer the call is over, and PaioStage returns Enforced.
SelectChannel(t) ==
  /\ thread[t] = "find"
  /\ channel_ptr' \in
       {[channel_ptr EXCEPT ![t] = k] : k \in FindOutcomes(request[t][1])}
  /\ IF channel_ptr'[t] = None
       THEN /\ thread' = [thread EXCEPT ![t] = "idle"]
            /\ returned' = [returned EXCEPT ![t] = "enforced"]
       ELSE thread' = [thread EXCEPT ![t] = "enforce"] /\ UNCHANGED returned
  /\ UNCHANGED <<tableVars, channelVars, objectVars, agentVars, controlVars,
                 request, handler, expected>>

\* Mutant: the channel's first object enforces whatever comes.
EnforceByFirstObject(t) ==
  /\ thread[t] = "enforce"
  /\ handler' = [handler EXCEPT ![t] =
       IF m_enf_objects[channel_ptr[t]] = <<>> THEN 0 ELSE 1]
  /\ thread' = [thread EXCEPT ![t] = "idle"]
  /\ returned' = [returned EXCEPT ![t] = "enforced"]
  /\ UNCHANGED <<tableVars, channelVars, objectVars, agentVars, controlVars,
                 request, channel_ptr, expected>>

\* channel_enforce: the object is selected under m_objects_lock.
EnforceMechanism(t) ==
  /\ thread[t] = "enforce"
  /\ handler' = [handler EXCEPT ![t] =
       SelectEnforcementObject(m_enf_objects[channel_ptr[t]], request[t][2])]
  /\ thread' = [thread EXCEPT ![t] = "idle"]
  /\ returned' = [returned EXCEPT ![t] = "enforced"]
  /\ UNCHANGED <<tableVars, channelVars, objectVars, agentVars, controlVars,
                 request, channel_ptr, expected>>

-----------------------------------------------------------------------------
ControlStep ==
  \/ \E r \in Rules : EmployHousekeepingRule(r) \/ RejectHousekeepingRule(r)
  \/ ExecuteHousekeepingRules \/ TraverseNext \/ TraverseEnd
  \/ CreateChannelFails \/ CreateChannel \/ EmplaceChannel
  \/ CreateNewChannelLinker
  \/ CreateObjectFails \/ CreateEnforcementObject \/ CreateNewObjectLinker
  \/ InitializeObject
  \/ MarkHousekeepingRuleAsEnforced
  \/ \E c \in ChannelIds, o \in ObjectIds, known \in BOOLEAN :
       EmployEnforcementRule(c, o, known)
  \/ MarkReady
  \/ \E value \in BOOLEAN : SetExecuteOnReceive(value)

DataStep(t) ==
  \/ \E q \in ChannelTokens \X ObjectTokens : EnforceRequest(t, q)
  \/ SelectChannel(t) \/ EnforceMechanism(t)

Next == ControlStep \/ \E t \in Threads : DataStep(t)

Spec == Init /\ [][Next]_vars

-----------------------------------------------------------------------------
(* Properties.                                                             *)

Enforced(operation) ==
  {r \in Rules : /\ m_housekeeping_rules[r] = "enforced"
                 /\ Rule[r].operation = operation}

\* In every channel the linkers name the objects in the order of their creation,
\* and no two objects share a token: the object an enforcement rule configures
\* is one that requests reach.
LinkersMatchObjects ==
  \A k \in ChannelTokens :
    LET objects == m_enf_objects[k]
        linkers == m_object_id_to_token_linkers[k]
    IN  /\ Len(objects) = Len(linkers)
             + (IF control = "link_object" /\ ChannelOf(rule) = k THEN 1 ELSE 0)
        /\ \A i \in DOMAIN linkers : linkers[i] = <<objects[i].id, objects[i].token>>
        /\ \A i, j \in DOMAIN objects : i # j => objects[i].token # objects[j].token

\* A rule marked as enforced is in force: its channel is the one installed under
\* its token, its object is in its channel with its initial configuration.
EnforcedMeansInstalled ==
  /\ \A r \in Enforced("create_channel") : m_channels[Rule[r].token] = Rule[r].channel_id
  /\ \A r \in Enforced("create_object") :
       /\ ChannelOf(r) # None
       /\ \E i \in DOMAIN m_enf_objects[ChannelOf(r)] :
            LET o == m_enf_objects[ChannelOf(r)][i]
            IN  /\ o.id = Rule[r].object_id
                /\ o.token = Rule[r].token
                /\ o.type = Rule[r].type
                /\ Rule[r].configured /\ o.type = "drl" => o.settings # "default"

\* No rule is applied twice, none is half applied: beyond what the constructor
\* made, the stage has one channel or object for each rule marked as enforced,
\* and the one of the rule in hand.
InHand(operation) ==
  IF /\ control \in {"link_channel", "link_object", "initialize", "mark"}
     /\ Rule[rule].operation = operation
    THEN 1 ELSE 0

Installed == UNION {{k} \X DOMAIN m_enf_objects[k] : k \in ChannelTokens}

InstalledOnce ==
  /\ Cardinality({k \in ChannelTokens : m_channels[k] # None}) =
       Len(DefaultChannels) + Cardinality(Enforced("create_channel"))
       + InHand("create_channel")
  /\ Cardinality(Installed) =
       Len(DefaultChannels) * Len(DefaultObjects)
       + Cardinality(Enforced("create_object")) + InHand("create_object")

\* A request that reaches its channel is enforced by the object that was in place
\* for it when the call began, whatever the control plane does meanwhile; if none
\* was, by none or by one created for requests like it.
RoutedToItsObject ==
  \A t \in Threads :
    (returned[t] = "enforced" /\ channel_ptr[t] # None) =>
      \/ handler[t] = expected[t]
      \/ /\ expected[t] = 0
         /\ m_enf_objects[channel_ptr[t]][handler[t]].token = request[t][2]

\* What core.hpp:311-316 says of execute_housekeeping_rules, and agent.hpp:192-194
\* repeats: it answers OK only if all rules were employed.
OkMeansAllEmployed ==
  (control = "idle" /\ ack = <<"execute", "ok">>) =>
    \A r \in Rules : m_housekeeping_rules[r] # "pending"

\* An operation that executes the pending rules is acknowledged only if it came
\* through the whole table, whatever its order and whichever rules had failed
\* before: every rule the stage can carry out is carried out.  A rule for an
\* object of an unknown type is passed over, against what the headers say
\* (OkMeansAllEmployed).
AcknowledgedTraversalIsComplete ==
  (control = "idle" /\ ack = <<"execute", "ok">>) =>
    \A r \in Rules :
      Rule[r].operation = "create_channel" \/ Rule[r].type # "other" =>
        m_housekeeping_rules[r] # "pending"

\* An object stays where it is, as what it is.  Its configuration changes from
\* the default to the initial one of its own rule, or to an enforcement rule's;
\* it never falls back, also when a later rule names the same object.
ObjectsStay ==
  [][\A k \in ChannelTokens :
       \A i \in DOMAIN m_enf_objects[k] :
         /\ i \in DOMAIN m_enf_objects'[k]
         /\ m_enf_objects'[k][i].id = m_enf_objects[k][i].id
         /\ m_enf_objects'[k][i].token = m_enf_objects[k][i].token
         /\ m_enf_objects'[k][i].type = m_enf_objects[k][i].type
         /\ \/ m_enf_objects'[k][i].settings = m_enf_objects[k][i].settings
            \/ /\ m_enf_objects[k][i].settings = "default"
               /\ m_enf_objects'[k][i].settings = "initial"
            \/ m_enf_objects'[k][i].settings = "rule"]_vars

\* Concurrency control over m_channels "is handle by upper methods": nobody
\* searches the map while create_channel changes it.
NoSearchDuringEmplace ==
  control = "emplace" => \A t \in Threads : thread[t] # "find"
=============================================================================
