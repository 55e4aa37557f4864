----------------------------- MODULE RulesFile ------------------------------
(***************************************************************************)
(* RulesParser: the rules in a file.  A line is the sequence of its        *)
(* elements, words and numbers, as parse_rule stores them.  Reading a line *)
(* ends as a rule, as nothing ("skip"), with an exception ("throws") or    *)
(* past the end of the vector of its elements ("undefined").               *)
(***************************************************************************)
EXTENDS Integers, Sequences, FiniteSets, FiniteSetsExt

CONSTANT NotANumber   \* stands for an element that std::stol refuses

(* The names each context type has, in the order of their values; no_op is *)
(* the value 0 of every one.                                               *)

General == <<"foreground", "background", "high_priority", "low_priority">>

LsmKvsSimple ==
  <<"bg_flush", "bg_compaction_high_priority", "bg_compaction_low_priority",
    "foreground", "background">>

LsmKvsDetailed ==
  <<"bg_flush", "bg_compaction", "bg_compaction_L0_L0", "bg_compaction_L0_L1",
    "bg_compaction_L1_L2", "bg_compaction_L2_L3", "bg_compaction_LN",
    "foreground">>

Posix ==
  <<"read", "write", "pread", "pwrite", "pread64", "pwrite64", "fread",
    "fwrite", "open", "open64", "creat", "creat64", "openat", "close", "fsync",
    "fdatasync", "sync", "syncfs", "truncate", "truncate64", "ftruncate",
    "ftruncate64", "xstat", "xstat64", "lxstat", "lxstat64", "fxstat",
    "fxstat64", "fxstatat", "fxstatat64", "statfs", "statfs64", "fstatfs",
    "fstatfs64", "link", "linkat", "unlink", "unlinkat", "rename", "renameat",
    "symlink", "symlinkat", "readlink", "readlinkat", "fopen", "fopen64",
    "fdopen", "freopen", "freopen64", "fclose", "fflush", "access", "faccessat",
    "lseek", "lseek64", "fseek", "fseek64", "ftell", "fseeko", "fseeko64",
    "ftello", "ftello64", "mkdir", "mkdirat", "readdir", "readdir64", "opendir",
    "fdopendir", "closedir", "rmdir", "dirfd", "getxattr", "lgetxattr",
    "fgetxattr", "setxattr", "lsetxattr", "fsetxattr", "listxattr",
    "llistxattr", "flistxattr", "removexattr", "lremovexattr", "fremovexattr",
    "chmod", "fchmod", "fchmodat", "chown", "lchown", "fchown", "fchownat",
    "mknod", "mknodat", "mmap", "munmap">>

PosixMeta ==
  <<"foreground", "background", "high_priority", "med_priority", "low_priority",
    "data_op", "meta_op", "dir_op", "ext_attr_op", "file_mod_op">>

Kvs ==
  <<"put", "get", "new_iterator", "delete", "write", "get_snapshot",
    "get_property", "get_approximate_size", "compact_range">>

ContextTypes ==
  <<"general", "posix", "posix_meta", "lsm_kvs_simple", "lsm_kvs_detailed", "kvs">>

Definitions ==
  <<General, Posix, PosixMeta, LsmKvsSimple, LsmKvsDetailed, Kvs>>

\* Members of the POSIX enumeration that convert_posix_definitions has no case for.
PosixWithoutCase == {"fdopen", "mknod", "mknodat", "mmap", "munmap"}

IndexOf(names, name) ==
  IF \E i \in DOMAIN names : names[i] = name
    THEN CHOOSE i \in DOMAIN names : names[i] = name ELSE 0

\* -1 for a type that is not listed.
convert_context_type_definition(context_type) ==
  IndexOf(ContextTypes, context_type) - 1

\* The converter of a listed context type throws for a name it does not list.
\* For a context type that is not listed there is no converter to throw.
IsListed(context_type, definition) ==
  \/ IndexOf(ContextTypes, context_type) = 0
  \/ definition = "no_op"
  \/ /\ IndexOf(Definitions[IndexOf(ContextTypes, context_type)], definition) # 0
     /\ ~(context_type = "posix" /\ definition \in PosixWithoutCase)

\* The value of a listed name, -1 under a context type that is not listed.
convert_differentiation_definitions(context_type, definition) ==
  IF IndexOf(ContextTypes, context_type) = 0 THEN -1
  ELSE IndexOf(Definitions[IndexOf(ContextTypes, context_type)], definition)

convert_housekeeping_operation(operation) ==
  IF operation \in {"create_channel", "create_object"} THEN operation ELSE "no_op"

convert_object_type(object_type) == IF object_type = "drl" THEN "drl" ELSE "noop"

\* The members of DRLConfiguration, 0 for any other word and for other objects.
convert_enforcement_operation(object_type, operation) ==
  IF object_type # "drl" THEN 0
  ELSE CASE operation = "init" -> 1
         [] operation = "rate" -> 2
         [] operation = "refill" -> 4
         [] OTHER -> 0

-----------------------------------------------------------------------------
(* Reading rules.                                                          *)

m_create_channel_rules_min_elements == 7
m_create_object_rules_min_elements == 8

\* Numbers are read from these positions of a line, in this order: one that is
\* not there is read past the end, one that is no number throws.
ReadNumbers(line, positions) ==
  LET faults == {i \in DOMAIN positions :
                   \/ positions[i] > Len(line)
                   \/ line[positions[i]] = NotANumber}
  IN  IF faults = {} THEN "rule"
      ELSE IF positions[Min(faults)] > Len(line) THEN "undefined"
      ELSE "throws"

\* How get_create_channel_rules leaves a line.  staged_rule[1] is read before
\* the number of elements is known.
ChannelLine(line) ==
  IF Len(line) < 2 THEN "undefined"
  ELSE IF \/ convert_housekeeping_operation(line[2]) # "create_channel"
          \/ Len(line) < m_create_channel_rules_min_elements
    THEN "skip"
  ELSE IF ~IsListed(line[4], line[6]) \/ ~IsListed(line[4], line[7])
    THEN "throws"
  ELSE ReadNumbers(line, <<5, 1, 3>>)

ChannelRule(line) ==
  [rule_id |-> line[1], operation |-> "create_channel", channel_id |-> line[3],
   object_id |-> -1,
   properties |->
     <<convert_context_type_definition(line[4]), line[5],
       convert_differentiation_definitions(line[4], line[6]),
       convert_differentiation_definitions(line[4], line[7])>>]

\* The last two properties of an object are read whatever the minimum is.
ObjectLine(line) ==
  IF Len(line) < 2 THEN "undefined"
  ELSE IF \/ convert_housekeeping_operation(line[2]) # "create_object"
          \/ Len(line) < m_create_object_rules_min_elements
    THEN "skip"
  ELSE IF ~IsListed(line[5], line[6]) \/ ~IsListed(line[5], line[7])
    THEN "throws"
  ELSE ReadNumbers(line, <<9, 10, 1, 3, 4>>)

ObjectRule(line) ==
  [rule_id |-> line[1], operation |-> "create_object", channel_id |-> line[3],
   object_id |-> line[4],
   properties |->
     <<convert_context_type_definition(line[5]),
       convert_differentiation_definitions(line[5], line[6]),
       convert_differentiation_definitions(line[5], line[7]),
       convert_object_type(line[8]), line[9], line[10]>>]

EnforcementOperation(line) ==
  convert_enforcement_operation(convert_object_type(line[4]), line[5])

EnforcementLine(line) ==
  IF Len(line) < 5 THEN "undefined"
  ELSE CASE EnforcementOperation(line) = 1 -> ReadNumbers(line, <<6, 7, 1, 2, 3>>)
         [] EnforcementOperation(line) = 2 -> ReadNumbers(line, <<6, 1, 2, 3>>)
         [] OTHER -> ReadNumbers(line, <<1, 2, 3>>)

\* Only init and rate take their configurations from the line.
EnforcementRule(line) ==
  [rule_id |-> line[1], channel_id |-> line[2], object_id |-> line[3],
   operation |-> EnforcementOperation(line),
   configurations |-> CASE EnforcementOperation(line) = 1 -> <<line[6], line[7]>>
                        [] EnforcementOperation(line) = 2 -> <<line[6]>>
                        [] OTHER -> <<>>]

\* How many lines the loop visits: to the first that ends it, or to the one that
\* makes rules_passed equal to total_rules.  -1, and 0, are never reached.
LinesRead(outcomes, total_rules) ==
  LET Passed(n) == Cardinality({i \in 1..n : outcomes[i] = "rule"})
      ends == {n \in DOMAIN outcomes :
                 \/ outcomes[n] \in {"throws", "undefined"}
                 \/ outcomes[n] = "rule" /\ Passed(n) = total_rules}
  IN  IF ends = {} THEN Len(outcomes) ELSE Min(ends)

\* How the call ends, and the lines that became rules.
Reading(outcomes, total_rules) ==
  LET n == LinesRead(outcomes, total_rules)
      bad == {i \in 1..n : outcomes[i] \in {"throws", "undefined"}}
  IN  [end |-> IF bad = {} THEN "ok" ELSE outcomes[Min(bad)],
       lines |-> {i \in 1..n : outcomes[i] = "rule"}]

\* The vectors that the calls fill: the rules by their line, in its order.
get_create_channel_rules(lines, total_rules) ==
  LET r == Reading([i \in DOMAIN lines |-> ChannelLine(lines[i])], total_rules)
  IN  [end |-> r.end,
       rules |-> [i \in r.lines |-> ChannelRule(lines[i])]]

get_create_object_rules(lines, total_rules) ==
  LET r == Reading([i \in DOMAIN lines |-> ObjectLine(lines[i])], total_rules)
  IN  [end |-> r.end,
       rules |-> [i \in r.lines |-> ObjectRule(lines[i])]]

get_enforcement_rules(lines, total_rules) ==
  LET r == Reading([i \in DOMAIN lines |-> EnforcementLine(lines[i])], total_rules)
  IN  [end |-> r.end,
       rules |-> [i \in r.lines |-> EnforcementRule(lines[i])]]
=============================================================================
