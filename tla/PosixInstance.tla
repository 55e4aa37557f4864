---------------------------- MODULE PosixInstance ----------------------------
(***************************************************************************)
(* A request from the call of a PosixLayer (or a PaioInstance) to the file *)
(* system: the context made of the instance's defaults, the wait for the   *)
(* stage, the two tokens that choose a channel and an object, and what is  *)
(* done with the result.  Meanwhile the instance's defaults are set, the   *)
(* control thread creates channels and objects, and others change how      *)
(* requests are differentiated.                                            *)
(*                                                                         *)
(* The channel works in fast-path mode and its objects return the content  *)
(* they are given (NoopObject, DynamicRateLimiter); ChannelQueues and      *)
(* RateLimiter have the details.  What matters here of a limiter is that   *)
(* one of capacity 0 never returns.                                        *)
(*                                                                         *)
(* A data race on a flag or a number is a read of the old or of the new    *)
(* value.  A builder's m_func_build_token is a std::function that is       *)
(* called without the lock under which it is assigned.  Its targets are    *)
(* lambdas that capture the same `this' and nothing else, so that a call   *)
(* during an assignment runs the old or the new one, whichever invoker it  *)
(* finds: Bound.                                                           *)
(***************************************************************************)
EXTENDS Differentiation, Integers, FiniteSets

CONSTANTS
  Threads,        \* of the application
  Definers,       \* threads that define the differentiation
  Operations,     \* what the application calls
  Workflows, Types, Contexts, \* values of the instance's defaults
  FirstDefault,   \* the defaults given to the constructor
  GivenContexts,  \* contexts of the extended versions of the calls, of an
                  \* operation size above 0
  Counts,         \* sizes of their buffers
  Requests,       \* of the control plane, in order: <<channel_id, tuple>> and
                  \* <<channel_id, object_id, pair, type, capacity>> to create
  DefaultCapacity, \* of a limiter that was not initialized
  Classifiers,    \* what define_channel_differentiation is given
  Pairs,          \* what define_enforcement_object_differentiation is given
  Hash(_),        \* the token of a text
  NotFound,       \* the token 2^32-1
  MaxSettings,    \* how often a default is set
  None

Writes == {"write", "pwrite", "pwrite64"}
Reads == {"read", "pread", "pread64"}

\* "not implemented; bypassing enforcement"
Bypassing ==
  {"close", "fclose", "open", "open64", "creat", "creat64", "openat", "fopen",
   "fdopen", "rename", "renameat", "unlink", "unlinkat", "mkdir", "mkdirat",
   "rmdir", "mknod", "mknodat", "getxattr", "lgetxattr", "fgetxattr",
   "setxattr", "lsetxattr", "fsetxattr"}

\* PaioInstance::build_context_object followed by its enforce.
Raw == {"enforce"}

\* The types of object that ChannelDefault::create_enforcement_object can make.
Supported == {"noop", "drl"}

ASSUME InstanceAssumption ==
  /\ Operations \subseteq Writes \cup Reads \cup Bypassing \cup {"posix_base"} \cup Raw
  /\ Counts \subseteq Nat /\ MaxSettings \in Nat
  /\ Classifiers \subseteq [1..3 -> BOOLEAN] /\ Pairs \subseteq [1..2 -> BOOLEAN]
  /\ \A context \in GivenContexts \cup {FirstDefault} : DOMAIN context = 1..3
  /\ Len(Requests) \in Nat
  /\ \A n \in 1..Len(Requests) :
       IF Len(Requests[n]) = 2
         THEN /\ DOMAIN Requests[n][2] = 1..3
              /\ Requests[n][1] # None
              /\ \A use \in Classifiers \cup {DefaultChannelClassifiers} :
                   Hash(Message(use, Requests[n][2])) # None
         ELSE DOMAIN Requests[n][3] = 1..2

VARIABLES
  m_ready,                  \* of the stage
  m_default,                \* <<workflow id, operation type, operation context>>
  m_has_io_transformation,
  settings,                 \* how often one of them was set
  m_use,                    \* the classifiers of Core's builder
  m_func,                   \* the function it is bound to
  m_define_default,         \* m_define_default_object_differentiation of Core
  m_channels,               \* token -> channel
  m_linkers,                \* sequence of <<channel_id, token>>
  control,                  \* the control thread
  answered,                 \* history: its answers
  define,                   \* the threads of Definers
  call                      \* the threads of the application

stageVars == <<m_channels, m_linkers>>
builderVars == <<m_use, m_func>>
settingVars == <<m_default, m_has_io_transformation, m_define_default, settings>>
controlVars == <<control, answered>>
vars == <<m_ready, settingVars, builderVars, stageVars, controlVars, define, call>>

\* A call: the operation, the context, both reads of m_has_io_transformation,
\* the function that built the channel's token, the token, or None when no
\* channel has it, the same for the object, the Result, and what is handed to
\* the file system or returned: how many bytes, of the caller's buffer or of the
\* Result.
NoCall ==
  [at |-> "idle", op |-> None, count |-> 0, context |-> None,
   flag |-> FALSE, flag_again |-> FALSE, func |-> None, channel |-> None,
   object_func |-> None, object |-> None, success |-> FALSE, content |-> 0,
   touched |-> FALSE, from |-> None, bytes |-> 0]

TypeOK ==
  /\ m_ready \in BOOLEAN
  /\ m_has_io_transformation \in BOOLEAN /\ m_define_default \in BOOLEAN
  /\ settings \in 0..MaxSettings
  /\ m_use \in [1..3 -> BOOLEAN] /\ m_func \in [1..3 -> BOOLEAN]
  /\ \A i \in DOMAIN m_linkers : m_linkers[i][2] \in DOMAIN m_channels
  /\ \A t \in Threads :
       /\ call[t].at \in {"idle", "snapshot", "workflow", "context", "flag",
                          "file_read", "enforce", "token", "select",
                          "object_token", "object", "looping", "result", "done"}
       /\ call[t].bytes \in -1..call[t].count
       /\ call[t].at # "select" => call[t].channel \in DOMAIN m_channels \cup {None}

\* The control thread: the request in hand, the token of its channel, of its
\* object, the function that built it, and the one it is replacing.
Idle ==
  [at |-> "idle", rule |-> None, token |-> None, object |-> None, func |-> None,
   old |-> None]

Init ==
  /\ m_ready = FALSE
  /\ m_default = FirstDefault
  /\ m_has_io_transformation = FALSE
  /\ m_define_default = TRUE
  /\ settings = 0
  /\ m_use = DefaultChannelClassifiers
  /\ m_func = DefaultChannelClassifiers
  /\ m_channels = <<>>
  /\ m_linkers = <<>>
  /\ control = Idle
  /\ answered = <<>>
  /\ define = [d \in Definers |-> [at |-> "idle", channel |-> None, use |-> None,
                                   old |-> None]]
  /\ call = [t \in Threads |-> NoCall]

-----------------------------------------------------------------------------
(* Setters of the instance, each under m_lock.  To set what is set already *)
(* changes nothing.                                                        *)

SetDefault(i, value) ==
  /\ settings < MaxSettings /\ m_default[i] # value
  /\ settings' = settings + 1
  /\ m_default' = [m_default EXCEPT ![i] = value]
  /\ UNCHANGED <<m_ready, m_has_io_transformation, m_define_default, builderVars,
                 stageVars, controlVars, define, call>>

set_io_transformation(value) ==
  /\ settings < MaxSettings /\ m_has_io_transformation # value
  /\ settings' = settings + 1
  /\ m_has_io_transformation' = value
  /\ UNCHANGED <<m_ready, m_default, m_define_default, builderVars, stageVars,
                 controlVars, define, call>>

\* Of Core, and atomic.
set_default_object_differentiation(value) ==
  /\ settings < MaxSettings /\ m_define_default # value
  /\ settings' = settings + 1
  /\ m_define_default' = value
  /\ UNCHANGED <<m_ready, m_default, m_has_io_transformation, builderVars, stageVars,
                 controlVars, define, call>>

\* Agent::mark_data_plane_stage_ready.
MarkReady ==
  /\ m_ready' = TRUE
  /\ UNCHANGED <<settingVars, builderVars, stageVars, controlVars, define, call>>

Setters ==
  \/ \E w \in Workflows : SetDefault(1, w)
  \/ \E type \in Types : SetDefault(2, type)
  \/ \E c \in Contexts : SetDefault(3, c)
  \/ \E value \in BOOLEAN : set_io_transformation(value)
  \/ \E value \in BOOLEAN : set_default_object_differentiation(value)
  \/ MarkReady

-----------------------------------------------------------------------------
(* Defining the differentiation.                                           *)

\* get_channel_diff_token: the first link with the identifier.
get_channel_diff_token(channel_id) ==
  LET linked == {i \in DOMAIN m_linkers : m_linkers[i][1] = channel_id}
  IN  IF linked = {} THEN NotFound
      ELSE m_linkers[CHOOSE i \in linked : \A j \in linked : i <= j][2]

\* The threads that are assigning m_func_build_token of a builder, the one of a
\* channel or (None) Core's, under its m_lock.
Assigning(k) ==
  {define[d] : d \in {e \in Definers : define[e].at = "assign" /\ define[e].channel = k}}
    \cup {c \in {control} : c.at = "assign" /\ c.token = k}

\* What a call of m_func_build_token may run, which takes no lock.
Bound(k) ==
  {IF k = None THEN m_func ELSE m_channels[k].func} \cup {a.old : a \in Assigning(k)}

\* define_channel_differentiation, or define_enforcement_object_differentiation
\* of a channel; without its channel the call is an error.
Define(d, channel_id, use) ==
  LET token == get_channel_diff_token(channel_id)
  IN  /\ define[d].at = "idle"
      /\ channel_id # None => token # NotFound /\ token \in DOMAIN m_channels
      /\ define' = [define EXCEPT ![d] =
           [at |-> "set", channel |-> IF channel_id = None THEN None ELSE token,
            use |-> use, old |-> None]]
      /\ UNCHANGED <<m_ready, settingVars, builderVars, stageVars, controlVars, call>>

set_classifiers(d) ==
  /\ define[d].at = "set"
  /\ Assigning(define[d].channel) = {}
  /\ define' = [define EXCEPT ![d].at = "bind"]
  /\ IF define[d].channel = None
       THEN m_use' = define[d].use /\ UNCHANGED <<m_func, stageVars>>
       ELSE /\ m_channels' =
                 [m_channels EXCEPT ![define[d].channel].use = define[d].use]
            /\ UNCHANGED <<m_linkers, builderVars>>
  /\ UNCHANGED <<m_ready, settingVars, controlVars, call>>

\* Mutant: a thread that is overtaken binds what it was asked for.
BindOwnClassifiers(d) ==
  /\ define[d].at = "bind"
  /\ Assigning(define[d].channel) = {}
  /\ IF define[d].channel = None
       THEN /\ define' = [define EXCEPT ![d].at = "assign", ![d].old = m_func]
            /\ m_func' = define[d].use
            /\ UNCHANGED <<m_use, stageVars>>
       ELSE /\ define' = [define EXCEPT ![d].at = "assign",
                           ![d].old = m_channels[define[d].channel].func]
            /\ m_channels' =
                 [m_channels EXCEPT ![define[d].channel].func = define[d].use]
            /\ UNCHANGED <<m_linkers, builderVars>>
  /\ UNCHANGED <<m_ready, settingVars, controlVars, call>>

\* generate_builder, for the classifiers that are set by now.
bind_builder(d) ==
  /\ define[d].at = "bind"
  /\ Assigning(define[d].channel) = {}
  /\ IF define[d].channel = None
       THEN /\ define' = [define EXCEPT ![d].at = "assign", ![d].old = m_func]
            /\ m_func' = m_use
            /\ UNCHANGED <<m_use, stageVars>>
       ELSE /\ define' = [define EXCEPT ![d].at = "assign",
                           ![d].old = m_channels[define[d].channel].func]
            /\ m_channels' = [m_channels EXCEPT ![define[d].channel].func =
                                m_channels[define[d].channel].use]
            /\ UNCHANGED <<m_linkers, builderVars>>
  /\ UNCHANGED <<m_ready, settingVars, controlVars, call>>

\* The end of the assignment, and of bind_builder.
Assigned(d) ==
  /\ define[d].at = "assign"
  /\ define' = [define EXCEPT ![d] =
       [at |-> "done", channel |-> None, use |-> None, old |-> None]]
  /\ UNCHANGED <<m_ready, settingVars, builderVars, stageVars, controlVars, call>>

Definer(d) ==
  \/ \E use \in Classifiers : Define(d, None, use)
  \/ \E id \in {m_linkers[i][1] : i \in DOMAIN m_linkers}, use \in Pairs :
       Define(d, id, use)
  \/ set_classifiers(d) \/ bind_builder(d) \/ Assigned(d)

-----------------------------------------------------------------------------
(* The control thread: Core::create_channel and create_enforcement_object. *)

IsChannelRule(rule) == Len(rule) = 2
Token(use, values) == Hash(Message(use, values))
LinkedIds == {m_linkers[i][1] : i \in DOMAIN m_linkers}

\* What the control plane asks for next.
NextRequest == Requests[Len(answered) + 1]

Answer(status) ==
  /\ answered' = Append(answered, status)
  /\ control' = [control EXCEPT !.at = "idle"]

\* The token of the channel.
create_channel(rule) ==
  /\ control.at = "idle"
  /\ \E func \in Bound(None) :
       control' = [Idle EXCEPT !.at = "emplace", !.rule = rule, !.func = func,
                               !.token = Token(func, rule[2])]
  /\ UNCHANGED <<m_ready, settingVars, builderVars, stageVars, answered, define, call>>

\* From here on requests find the channel, before anything else is done.  Its
\* SubmissionQueue has the default classifiers.
emplace ==
  /\ control.at = "emplace"
  /\ IF \/ control.token \in DOMAIN m_channels
        \/ control.rule[1] \in LinkedIds
       THEN Answer("error") /\ UNCHANGED m_channels
       ELSE /\ m_channels' =
                 [k \in DOMAIN m_channels \cup {control.token} |->
                    IF k # control.token THEN m_channels[k]
                    ELSE [tuple |-> control.rule[2], made_for |-> control.func,
                          use |-> DefaultObjectClassifiers,
                          func |-> DefaultObjectClassifiers, objects |-> {}]]
            /\ control' = [control EXCEPT !.at = "link"]
            /\ UNCHANGED answered
  /\ UNCHANGED <<m_ready, settingVars, builderVars, m_linkers, define, call>>

create_new_channel_linker ==
  /\ control.at = "link"
  /\ m_linkers' = Append(m_linkers, <<control.rule[1], control.token>>)
  /\ control' = [control EXCEPT !.at = "set"]
  /\ UNCHANGED <<m_ready, settingVars, builderVars, m_channels, answered, define, call>>

\* define_object_differentiation with the defaults, over what may have been
\* defined since the channel is linked; unless Core is told not to.
define_default_set ==
  /\ control.at = "set"
  /\ IF ~m_define_default
       THEN Answer("ok") /\ UNCHANGED m_channels
       ELSE /\ Assigning(control.token) = {}
            /\ m_channels' =
                 [m_channels EXCEPT ![control.token].use = DefaultObjectClassifiers]
            /\ control' = [control EXCEPT !.at = "bind"]
            /\ UNCHANGED answered
  /\ UNCHANGED <<m_ready, settingVars, builderVars, m_linkers, define, call>>

define_default_bind ==
  /\ control.at = "bind"
  /\ Assigning(control.token) = {}
  /\ m_channels' = [m_channels EXCEPT ![control.token].func =
                      m_channels[control.token].use]
  /\ control' = [control EXCEPT !.at = "assign", !.old = m_channels[control.token].func]
  /\ UNCHANGED <<m_ready, settingVars, builderVars, m_linkers, answered, define, call>>

define_default_ends ==
  /\ control.at = "assign"
  /\ Answer("ok")
  /\ UNCHANGED <<m_ready, settingVars, builderVars, stageVars, define, call>>

\* Mutant: the channel is looked up by an identifier that is off by one.
CreateObjectOffByOne(rule) ==
  /\ control.at = "idle"
  /\ control' = [Idle EXCEPT !.at = "object", !.rule = rule,
                             !.token = get_channel_diff_token(rule[1] - 1)]
  /\ UNCHANGED <<m_ready, settingVars, builderVars, stageVars, answered, define, call>>

\* The token of the object's channel.
create_enforcement_object(rule) ==
  /\ control.at = "idle"
  /\ control' = [Idle EXCEPT !.at = "object", !.rule = rule,
                             !.token = get_channel_diff_token(rule[1])]
  /\ UNCHANGED <<m_ready, settingVars, builderVars, stageVars, answered, define, call>>

\* ChannelDefault::create_enforcement_object up to the choice of the type.  The
\* token that means "not found" is refused even if it is the one of a channel.
build_object_for ==
  /\ control.at = "object"
  /\ IF control.token = NotFound \/ control.token \notin DOMAIN m_channels
       THEN Answer("error")
     ELSE IF control.rule[4] \notin Supported
       THEN Answer("error")
     ELSE /\ \E func \in Bound(control.token) :
               control' = [control EXCEPT !.at = "insert", !.func = func,
                             !.object = Token(func, control.rule[3])]
          /\ UNCHANGED answered
  /\ UNCHANGED <<m_ready, settingVars, builderVars, stageVars, define, call>>

\* A request that loops in a limiter of capacity 0 keeps the channel's
\* m_objects_lock.
ObjectsLocked(k) == \E t \in Threads : call[t].at = "looping" /\ call[t].channel = k

\* SubmissionQueue::create_enforcement_object, and the object's link.
emplace_object ==
  LET channel == m_channels[control.token]
      rule == control.rule
  IN  /\ control.at = "insert"
      /\ ~ObjectsLocked(control.token)
      /\ IF \E o \in channel.objects : o.token = control.object
           THEN Answer("error") /\ UNCHANGED m_channels
         ELSE /\ m_channels' =
                   [m_channels EXCEPT ![control.token].objects = @ \cup
                      {[id |-> rule[2], pair |-> rule[3], token |-> control.object,
                        made_for |-> control.func,
                        capacity |-> IF rule[4] = "drl" THEN DefaultCapacity ELSE None]}]
              /\ IF rule[4] = "drl" /\ rule[5] # None
                   THEN /\ control' = [control EXCEPT !.at = "initialize"]
                        /\ UNCHANGED answered
                   ELSE Answer("ok")
      /\ UNCHANGED <<m_ready, settingVars, builderVars, m_linkers, define, call>>

\* The initial configuration of a limiter.  The object is there, and initialize
\* returns OK whatever it is given.
initialize_object ==
  /\ control.at = "initialize"
  /\ ~ObjectsLocked(control.token)
  /\ m_channels' = [m_channels EXCEPT ![control.token].objects =
       {IF o.token = control.object THEN [o EXCEPT !.capacity = control.rule[5]] ELSE o :
          o \in m_channels[control.token].objects}]
  /\ Answer("ok")
  /\ UNCHANGED <<m_ready, settingVars, builderVars, m_linkers, define, call>>

Control ==
  \/ /\ Len(answered) < Len(Requests)
     /\ IF IsChannelRule(NextRequest) THEN create_channel(NextRequest)
        ELSE create_enforcement_object(NextRequest)
  \/ emplace \/ create_new_channel_linker
  \/ define_default_set \/ define_default_bind \/ define_default_ends
  \/ build_object_for \/ emplace_object \/ initialize_object

-----------------------------------------------------------------------------
(* A call of the application.                                              *)

Goes(t, at) == call' = [call EXCEPT ![t].at = at]

CallOnly ==
  UNCHANGED <<m_ready, settingVars, builderVars, stageVars, controlVars, define>>

\* The call returns.
Returns(t, touched, bytes) ==
  call' = [call EXCEPT ![t] =
    [NoCall EXCEPT !.at = "done", !.op = call[t].op, !.count = call[t].count,
       !.touched = touched, !.bytes = bytes]]

\* A write returns: where from it was written is kept, and what for.
WriteReturns(t, touched, from, bytes) ==
  call' = [call EXCEPT ![t] =
    [NoCall EXCEPT !.at = "done", !.op = call[t].op, !.count = call[t].count,
       !.flag = call[t].flag, !.flag_again = m_has_io_transformation,
       !.channel = call[t].channel, !.touched = touched, !.from = from,
       !.bytes = bytes]]

\* The vanilla version builds the context, the extended one is given it.
Call(t, op, count, given) ==
  /\ call[t].at = "idle"
  /\ call' = [call EXCEPT ![t] =
       [NoCall EXCEPT !.op = op, !.count = count,
          !.context = IF given = None THEN <<None, op, None>> ELSE given,
          !.at = IF given # None THEN "flag"
                 ELSE IF op \in Writes \cup Reads THEN "workflow"
                 ELSE "snapshot"]]
  /\ CallOnly

\* The operations that only call the file system.
Bypass(t, op) ==
  /\ call[t].at = "idle"
  /\ call' = [call EXCEPT ![t] = [NoCall EXCEPT !.op = op, !.at = "done",
                                  !.touched = TRUE]]
  /\ CallOnly

\* build_context_object (): all the defaults, under m_lock.
build_context_object(t) ==
  /\ call[t].at = "snapshot"
  /\ call' = [call EXCEPT ![t].context = m_default, ![t].at = "flag"]
  /\ CallOnly

\* The defaults as arguments of build_context_object: read one by one, without
\* m_lock.
ReadWorkflow(t) ==
  /\ call[t].at = "workflow"
  /\ call' = [call EXCEPT ![t].context[1] = m_default[1], ![t].at = "context"]
  /\ CallOnly

ReadContext(t) ==
  /\ call[t].at = "context"
  /\ call' = [call EXCEPT ![t].context[3] = m_default[3], ![t].at = "flag"]
  /\ CallOnly

\* Which enforce to call.  PaioInstance leaves that to the application.
ReadFlag(t) ==
  /\ call[t].at = "flag"
  /\ \E flag \in IF call[t].op \in Raw THEN BOOLEAN ELSE {m_has_io_transformation} :
       call' = [call EXCEPT ![t].flag = flag,
                  ![t].at = IF flag /\ call[t].op \in Reads THEN "file_read"
                            ELSE "enforce"]
  /\ CallOnly

\* A read whose content is transformed reads first.
FileRead(t) ==
  /\ call[t].at = "file_read"
  /\ \E n \in -1..call[t].count :
       IF n > 0
         THEN call' = [call EXCEPT ![t].touched = TRUE, ![t].bytes = n,
                         ![t].at = "enforce"]
         ELSE Returns(t, TRUE, n)
  /\ CallOnly

\* InstanceInterface::enforce asks once a second until the stage is ready.
Enforce(t) ==
  /\ call[t].at = "enforce"
  /\ m_ready
  /\ Goes(t, "token")
  /\ CallOnly

\* Core::enforce_request: the token.
BuildToken(t) ==
  /\ call[t].at = "token"
  /\ \E func \in Bound(None) :
       call' = [call EXCEPT ![t].func = func, ![t].at = "select",
                            ![t].channel = Token(func, call[t].context)]
  /\ CallOnly

\* Mutant: the request is tried again when there is no channel for it.
SelectChannelRetries(t) ==
  LET found == call[t].channel \in DOMAIN m_channels
  IN  /\ call[t].at = "select"
      /\ call' = [call EXCEPT
                    ![t].channel = IF found THEN call[t].channel ELSE None,
                    ![t].at = IF found THEN "object_token" ELSE "enforce"]
      /\ CallOnly

\* Then the channel of the token: without one the Result is left as it is.
SelectChannel(t) ==
  LET found == call[t].channel \in DOMAIN m_channels
  IN  /\ call[t].at = "select"
      /\ call' = [call EXCEPT
                    ![t].channel = IF found THEN call[t].channel ELSE None,
                    ![t].at = IF found THEN "object_token" ELSE "result"]
      /\ CallOnly

\* Mutant: the operation context comes first.
BuildObjectTokenSwapped(t) ==
  LET pair == <<call[t].context[3], call[t].context[2]>>
  IN  /\ call[t].at = "object_token"
      /\ \E func \in Bound(call[t].channel) :
           call' = [call EXCEPT ![t].object_func = func, ![t].object = Token(func, pair),
                                ![t].at = "object"]
      /\ CallOnly

build_object_token(t) ==
  LET pair == <<call[t].context[2], call[t].context[3]>>
  IN  /\ call[t].at = "object_token"
      /\ \E func \in Bound(call[t].channel) :
           call' = [call EXCEPT ![t].object_func = func, ![t].object = Token(func, pair),
                                ![t].at = "object"]
      /\ CallOnly

\* enforce_mechanism, under m_objects_lock: the object of the token, or the one
\* for requests without a match.  Either returns the content of the ticket,
\* which has one if the request was given with a buffer; but try_consume of a
\* limiter of capacity 0 takes nothing from what is owed, for ever.
enforce_mechanism(t) ==
  LET found == {o \in m_channels[call[t].channel].objects : o.token = call[t].object}
      object == CHOOSE o \in found : TRUE
      read == IF call[t].op \in Reads THEN call[t].bytes ELSE call[t].count
  IN  /\ call[t].at = "object"
      /\ ~ObjectsLocked(call[t].channel)
      /\ IF found # {} /\ object.capacity = 0
           THEN call' = [call EXCEPT ![t].object = object.id, ![t].at = "looping"]
           ELSE call' = [call EXCEPT ![t].success = TRUE,
                           ![t].object = IF found = {} THEN None ELSE object.id,
                           ![t].content = IF call[t].flag THEN read ELSE 0,
                           ![t].at = "result"]
      /\ CallOnly

\* Mutant: the status of the result does not matter.
WriteWhateverTheStatus(t) ==
  /\ call[t].at = "result"
  /\ call[t].op \in Writes
  /\ IF m_has_io_transformation
       THEN WriteReturns(t, TRUE, "result", call[t].content)
       ELSE WriteReturns(t, TRUE, "buffer", call[t].count)
  /\ CallOnly

\* The end of write, pwrite and pwrite64: m_has_io_transformation is read again.
\* bytes are those handed to the file system.
WriteResult(t) ==
  /\ call[t].at = "result"
  /\ call[t].op \in Writes
  /\ IF ~call[t].success
       THEN WriteReturns(t, FALSE, None, -1)
     ELSE IF m_has_io_transformation
       THEN WriteReturns(t, TRUE, "result", call[t].content)
       ELSE WriteReturns(t, TRUE, "buffer", call[t].count)
  /\ CallOnly

\* The end of read, pread and pread64.  Content that was enforced is copied, cut
\* to its size, to what realloc makes of the caller's buffer, unless that fails
\* (the caller is not told where to, if it is moved); otherwise the file is read,
\* whatever the stage answered.
ReadResult(t) ==
  /\ call[t].at = "result"
  /\ call[t].op \in Reads
  /\ \E n \in IF ~call[t].flag THEN -1..call[t].count
               ELSE IF call[t].success THEN {call[t].content, -1} ELSE {-1} :
       Returns(t, TRUE, n)
  /\ CallOnly

\* The end of posix_base, and of PaioInstance's enforce, which returns nothing.
BaseResult(t) ==
  /\ call[t].at = "result"
  /\ call[t].op \in {"posix_base"} \cup Raw
  /\ Returns(t, FALSE, IF call[t].op \in Raw THEN 0
                       ELSE IF ~call[t].success THEN -1
                       ELSE IF call[t].content > 0 THEN call[t].content
                       ELSE call[t].count)
  /\ CallOnly

Continue(t) ==
  \/ build_context_object(t) \/ ReadWorkflow(t) \/ ReadContext(t)
  \/ ReadFlag(t) \/ FileRead(t) \/ Enforce(t) \/ BuildToken(t) \/ SelectChannel(t)
  \/ build_object_token(t) \/ enforce_mechanism(t)
  \/ WriteResult(t) \/ ReadResult(t) \/ BaseResult(t)

Application(t) ==
  \/ \E op \in Operations \ Bypassing, count \in Counts,
        given \in GivenContexts \cup {None} : Call(t, op, count, given)
  \/ \E op \in Operations \cap Bypassing : Bypass(t, op)
  \/ Continue(t)

Next ==
  \/ \E t \in Threads : Application(t)
  \/ \E d \in Definers : Definer(d)
  \/ Control
  \/ Setters

\* A call that has begun goes on; whether the stage gets ready is up to the
\* control plane.
Fairness == \A t \in Threads : WF_vars(Continue(t))

Spec == Init /\ [][Next]_vars /\ Fairness

-----------------------------------------------------------------------------
(* Properties.                                                             *)

\* set_classifiers and bind_builder are two critical sections, and several
\* threads may be in between.  Once none is, a builder is bound to the function
\* of the classifiers that are set, in Core and in every channel.
BuilderFollowsClassifiers ==
  /\ (\A d \in Definers : define[d].channel = None => define[d].at # "bind") =>
       m_func = m_use
  /\ \A k \in DOMAIN m_channels :
       /\ \A d \in Definers : define[d].channel = k => define[d].at # "bind"
       /\ ~(control.at = "bind" /\ control.token = k)
       => m_channels[k].func = m_channels[k].use

Agree(use, values, others) == \A i \in DOMAIN use : use[i] => values[i] = others[i]

\* A request is enforced by the channel, and in it by the object, that agree with
\* it on all classifiers its tokens are built for, which may be redefined
\* meanwhile: provided that the channel, and the object, got theirs for the same.
RoutesByClassifiers(t) ==
  /\ call[t].at = "select" /\ call'[t].at # "select" =>
       \A k \in DOMAIN m_channels :
         /\ m_channels[k].made_for = call[t].func
         /\ Agree(call[t].func, m_channels[k].tuple, call[t].context)
         => call'[t].channel = k
  /\ call[t].at = "object" /\ call'[t].at # "object" =>
       \A o \in m_channels[call[t].channel].objects :
         /\ o.made_for = call[t].object_func
         /\ Agree(o.made_for, o.pair, <<call[t].context[2], call[t].context[3]>>)
         => call'[t].object = o.id

RoutedByClassifiers == [][\A t \in Threads : RoutesByClassifiers(t)]_vars

\* What is written is what was enforced: the content of the Result if the stage
\* was given the content, and else the caller's buffer, whole.
AsEnforced(c) ==
  /\ c.bytes = c.count
  /\ c.from = IF c.flag THEN "result" ELSE "buffer"

\* A write reaches the file if and only if there was a channel for it, which
\* enforced it, whatever is created, defined and set beside; and then as enforced,
\* if both reads of m_has_io_transformation returned the same.
WrittenAsEnforced ==
  \A t \in Threads : call[t].at = "done" /\ call[t].op \in Writes =>
    /\ call[t].touched <=> call[t].channel # None
    /\ call[t].touched /\ call[t].flag = call[t].flag_again => AsEnforced(call[t])

\* What posix_layer.hpp says of set_io_transformation: that it may be called beside
\* requests, and that the transformation is done before the request is submitted
\* to the file system.
SetterIsThreadSafe ==
  \A t \in Threads :
    call[t].at = "done" /\ call[t].op \in Writes /\ call[t].touched => AsEnforced(call[t])

\* An object is refused to a channel that was created before only if the stage
\* cannot make its type, if its token, for some classifiers in use, is taken, or
\* if the channel's own token is the one that stands for "not found".
RefusedForAReason ==
  \A n \in DOMAIN answered :
    ~IsChannelRule(Requests[n]) /\ answered[n] = "error" =>
      \/ Requests[n][4] \notin Supported
      \/ \A m \in 1..n - 1 :
           IsChannelRule(Requests[m]) /\ Requests[m][1] = Requests[n][1] =>
             answered[m] = "error"
      \/ \E i \in DOMAIN m_linkers :
           /\ m_linkers[i][1] = Requests[n][1]
           /\ \/ m_linkers[i][2] = NotFound
              \/ \E o \in m_channels[m_linkers[i][2]].objects,
                    use \in Pairs \cup {DefaultObjectClassifiers} :
                   o.token = Token(use, Requests[n][3])

\* Every call returns once the stage is ready, whether or not a channel or an
\* object is there for it; unless a call loops for ever in a limiter of capacity 0,
\* with the lock that all calls of its channel need.
CallReturns ==
  \A t \in Threads :
    call[t].at # "idle" /\ m_ready ~>
      call[t].at = "done" \/ ObjectsLocked(call[t].channel)
=============================================================================
