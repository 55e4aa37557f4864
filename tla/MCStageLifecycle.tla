-------------------------- MODULE MCStageLifecycle --------------------------
(* Rules files, constructors and control operations for StageLifecycle.    *)
EXTENDS StageLifecycle

\* files/default_housekeeping_rules_file and default_enforcement_rules_file.
DefaultHousekeeping ==
  << <<1, "create_channel", 1000, "general", 1000, "foreground", "high_priority">>,
     <<2, "create_channel", 2000, "general", 2000, "background", "low_priority">>,
     <<3, "create_channel", 3000, "general", 3000, "no_op", "no_op">>,
     <<4, "create_channel", 4000, "general", 4000, "no_op", "no_op">>,
     <<5, "create_object", 1000, 1, "general", "foreground", "no_op", "noop", 0, 0>>,
     <<6, "create_object", 2000, 1, "general", "background", "no_op", "noop", 0, 0>>,
     <<7, "create_object", 3000, 1, "general", "no_op", "no_op", "drl", 0, 0>>,
     <<8, "create_object", 4000, 1, "general", "no_op", "no_op", "drl", 0, 0>> >>

DefaultEnforcement ==
  << <<1, 1000, 1, "drl", "init", 10000, 120000>>,
     <<2, 2000, 1, "drl", "init", 10000, 120000>>,
     <<3, 3000, 1, "drl", "init", 10000, 120000>>,
     <<4, 4000, 1, "drl", "init", 10000, 120000>>,
     <<5, 1000, 1, "drl", "rate", 150000>>,
     <<6, 2000, 1, "drl", "rate", 150000>>,
     <<7, 3000, 1, "drl", "rate", 150000>>,
     <<8, 4000, 1, "drl", "rate", 150000>> >>

\* An object before its channel, one more object in it, and a channel too many
\* for a limit of one.
ObjectFirst ==
  << <<1, "create_object", 7, 1, "posix", "read", "no_op", "drl", 10, 20>>,
     <<2, "create_channel", 7, "posix", 1, "read", "write">>,
     <<3, "create_object", 7, 2, "posix", "open", "no_op", "noop", 0, 0>>,
     <<4, "create_channel", 8, "posix", 2, "read", "open">>,
     <<5, "create_object", 8, 1, "kvs", "put", "no_op", "drl", 10, 20>>,
     <<5, "remove", 8>> >>

\* A channel with too few elements, then one of a context type that is not
\* listed; nothing else.
Incomplete ==
  << <<1, "create_channel", 7, "posix", 1, "read">>,
     <<2, "create_channel", 8, "nosql", 1, "put", "get">> >>

\* A name that the enumeration has and the parser does not.
NameWithoutCase ==
  << <<1, "create_channel", 7, "posix", 1, "mmap", "no_op">> >>

\* An object without its two properties, and a line that is empty.
ShortObject ==
  << <<1, "create_channel", 7, "posix", 1, "read", "no_op">>,
     <<2, "create_object", 7, 1, "posix", "read", "no_op", "drl">> >>
EmptyLine == << <<>> >>

\* Words where numbers are expected: a file that does not get past its second
\* line, and an enforcement rule for no object.
WordForNumber ==
  << <<1, "create_channel", 7, "posix", 1, "read", "no_op">>,
     <<2, "create_channel", NotANumber, "posix", 2, "read", "no_op">> >>
WordForObject == << <<1, 7, NotANumber, "drl", "rate", 5>> >>

Refill == << <<1, 7, 1, "drl", "refill", 5>> >>
Strange == << <<1, 7, 1, "drl", "burst", 5>>, <<2, 9, 1, "drl", "rate", 5>> >>

Stage(build, constructor, channels, type, on_receive, housekeeping, enforcement) ==
  [option_default_communication_type |-> build, constructor |-> constructor,
   channels |-> channels, default_object_creation |-> channels = 2,
   connection_type |-> type, execute_on_receive |-> on_receive,
   housekeeping |-> housekeeping, enforcement |-> enforcement]

WithDefaultFiles(build, constructor, channels, type) ==
  Stage(build, constructor, channels, type, TRUE, DefaultHousekeeping,
        DefaultEnforcement)

DefaultStage == WithDefaultFiles("none", "default", 0, "none")

WithFiles(channels, on_receive, housekeeping, enforcement) ==
  Stage("none", "files", channels, "none", on_receive, housekeeping, enforcement)

\* Without a control plane: every constructor and every file.
FileStages ==
  {DefaultStage,
   WithDefaultFiles("none", "channels", 2, "none"),
   WithDefaultFiles("unix", "explicit", 1, "none")}
  \cup {WithFiles(n, on_receive, ObjectFirst, e) :
          n \in 0..2, on_receive \in BOOLEAN, e \in {Refill, Strange, WordForObject, NoPath}}
  \cup {WithFiles(1, TRUE, h, NoPath) :
          h \in {Incomplete, NameWithoutCase, ShortObject, EmptyLine, WordForNumber, NoPath}}

\* With one: every type of communication, and files that nobody reads.
ConnectedStages ==
  {WithDefaultFiles(build, "default", 0, "none") : build \in {"inet", "rpc"}}
  \cup {WithDefaultFiles(build, "explicit", 1, type) :
          build \in {"none", "unix", "rpc"}, type \in {"inet", "rpc"}}
  \cup {Stage("unix", "files", 0, "none", FALSE, NoPath, NoPath)}

SomeConfigurations == FileStages \cup ConnectedStages

OneStage == {DefaultStage}

ARule(id, op, properties) ==
  [rule_id |-> id, operation |-> op, channel_id |-> 9, object_id |-> 1,
   properties |-> properties]

SomeOperations ==
  {[type |-> t] : t \in {"stage_handshake", "exec_hsk_rules", "create_dif_rule"}}
  \cup {[type |-> "collect_stats", channel_id |-> c] : c \in {-1, 9}}
  \cup {[type |-> "collect_detailed_stats", listed |-> b] : b \in BOOLEAN}
  \cup {[type |-> "mark_stage_ready", mark |-> b] : b \in BOOLEAN}
  \cup {[type |-> "create_hsk_rule", rule |-> r] :
          r \in {ARule(1, "create_channel", <<0, 1, 0, 3>>),
                 ARule(2, "create_object", <<0, 1, 0, "drl", 10, 20>>),
                 ARule(3, "no_op", <<>>), ARule(3, "unlisted", <<>>)}}
  \cup {[type |-> "create_enf_rule",
         rule |-> [rule_id |-> 1, channel_id |-> 9, object_id |-> 1,
                   operation |-> 2, configurations |-> c]] : c \in {<<5>>, <<>>}}
=============================================================================
