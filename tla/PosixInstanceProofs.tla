------------------------- MODULE PosixInstanceProofs -------------------------
(***************************************************************************)
(* How requests are differentiated, created for and written, for any       *)
(* number of threads, any rules and any hash of the texts, collisions      *)
(* included.                                                               *)
(*                                                                         *)
(* The invariants relate the tokens that are stored (the key of a channel, *)
(* the token of an object, what a call holds between two critical          *)
(* sections) to the classifiers they were built for.                       *)
(***************************************************************************)
EXTENDS PosixInstance, SequenceTheorems, TLAPS

ChannelClassifiers == Classifiers \cup {DefaultChannelClassifiers}
ObjectClassifiers == Pairs \cup {DefaultObjectClassifiers}

ClassifiersOf(k) == IF k = None THEN ChannelClassifiers ELSE ObjectClassifiers

\* The shape of the records that steps change field by field.
ChannelShape(c) ==
  c = [tuple |-> c.tuple, made_for |-> c.made_for, use |-> c.use, func |-> c.func,
       objects |-> c.objects]
ObjectShape(o) ==
  o = [id |-> o.id, pair |-> o.pair, token |-> o.token, made_for |-> o.made_for,
       capacity |-> o.capacity]
DefineShape(d) == d = [at |-> d.at, channel |-> d.channel, use |-> d.use, old |-> d.old]
ControlShape(c) ==
  c = [at |-> c.at, rule |-> c.rule, token |-> c.token, object |-> c.object,
       func |-> c.func, old |-> c.old]
CallFields ==
  {"at", "op", "count", "context", "flag", "flag_again", "func", "channel",
   "object_func", "object", "success", "content", "touched", "from", "bytes"}
CallShape(c) == DOMAIN c = CallFields
IsSequence(s) == s \in Seq({s[i] : i \in DOMAIN s})

\* A definition is of Core's classifiers or of a channel's that exists; while a
\* function is replaced, the old one is of the builder's classifiers too.
DefineHolds(r) ==
  /\ DefineShape(r)
  /\ r.at \in {"set", "bind", "assign"} /\ r.channel # None =>
       r.channel \in DOMAIN m_channels
  /\ r.at = "set" => r.use \in ClassifiersOf(r.channel)
  /\ r.at = "assign" => r.old \in ClassifiersOf(r.channel)

Defining ==
  /\ m_use \in ChannelClassifiers /\ m_func \in ChannelClassifiers
  /\ define = [d \in Definers |-> define[d]]
  /\ \A d \in Definers : DefineHolds(define[d])

\* Channels and objects lie under the tokens of the classifiers they were made
\* for; no two objects of a channel share one.
ObjectHolds(o) ==
  /\ ObjectShape(o)
  /\ o.made_for \in ObjectClassifiers
  /\ DOMAIN o.pair = 1..2
  /\ o.token = Token(o.made_for, o.pair)

ChannelHolds(k, c) ==
  /\ ChannelShape(c)
  /\ c.use \in ObjectClassifiers
  /\ c.func \in ObjectClassifiers
  /\ c.made_for \in ChannelClassifiers
  /\ DOMAIN c.tuple = 1..3
  /\ k = Token(c.made_for, c.tuple)
  /\ k # None
  /\ \A o \in c.objects :
       ObjectHolds(o) /\ \A p \in c.objects : o.token = p.token => o = p

Keyed ==
  /\ m_channels = [k \in DOMAIN m_channels |-> m_channels[k]]
  /\ \A k \in DOMAIN m_channels : ChannelHolds(k, m_channels[k])

\* What the control thread holds between two steps of the request in hand.
ControlHolds(c) ==
  /\ ControlShape(c)
  /\ c.at # "idle" => Len(answered) < Len(Requests) /\ c.rule = NextRequest
  /\ c.at \in {"emplace", "link", "set", "bind", "assign"} => IsChannelRule(c.rule)
  /\ c.at = "emplace" =>
       c.func \in ChannelClassifiers /\ c.token = Token(c.func, c.rule[2])
  /\ c.at \in {"link", "set", "bind", "assign", "insert", "initialize"} =>
       c.token \in DOMAIN m_channels
  /\ c.at = "link" => c.rule[1] \notin LinkedIds
  /\ c.at \in {"set", "bind", "assign"} => c.rule[1] \in LinkedIds
  /\ c.at = "assign" => c.old \in ObjectClassifiers
  /\ c.at \in {"object", "insert", "initialize"} =>
       ~IsChannelRule(c.rule) /\ c.token = get_channel_diff_token(c.rule[1])
  /\ c.at \in {"insert", "initialize"} =>
       /\ c.token # NotFound
       /\ c.func \in ObjectClassifiers /\ c.object = Token(c.func, c.rule[3])

\* A channel is linked once, and linked if its creation was answered with ok.
Links ==
  /\ IsSequence(m_linkers) /\ IsSequence(answered)
  /\ \A i \in DOMAIN m_linkers :
       /\ m_linkers[i] = <<m_linkers[i][1], m_linkers[i][2]>>
       /\ m_linkers[i][1] # None
       /\ m_linkers[i][2] \in DOMAIN m_channels
       /\ \A j \in DOMAIN m_linkers : m_linkers[i][1] = m_linkers[j][1] => i = j
  /\ \A n \in DOMAIN answered :
       IsChannelRule(Requests[n]) /\ answered[n] # "error" => Requests[n][1] \in LinkedIds

Requesting == Links /\ ControlHolds(control)

\* Why the n-th request, for an object, may be refused: RefusedForAReason.
Reason(n) ==
  \/ Requests[n][4] \notin Supported
  \/ \A m \in 1..n - 1 :
       IsChannelRule(Requests[m]) /\ Requests[m][1] = Requests[n][1] =>
         answered[m] = "error"
  \/ \E i \in DOMAIN m_linkers :
       /\ m_linkers[i][1] = Requests[n][1]
       /\ \/ m_linkers[i][2] = NotFound
          \/ \E o \in m_channels[m_linkers[i][2]].objects, use \in ObjectClassifiers :
               o.token = Token(use, Requests[n][3])

\* What a call holds between two steps.
CallHolds(c) ==
  /\ CallShape(c)
  /\ c.at \in {"workflow", "context", "flag", "file_read", "enforce", "token",
               "select", "object_token", "object"} => DOMAIN c.context = 1..3
  /\ c.success => c.at = "result"
  /\ c.at = "file_read" => c.op \in Reads
  /\ c.at = "select" =>
       c.func \in ChannelClassifiers /\ c.channel = Token(c.func, c.context)
  /\ c.at \in {"object_token", "object"} => c.channel \in DOMAIN m_channels
  /\ c.at = "object" =>
       /\ c.object_func \in ObjectClassifiers
       /\ c.object = Token(c.object_func, <<c.context[2], c.context[3]>>)
  /\ c.at = "result" => (c.success <=> c.channel # None)
  /\ (c.at = "result" /\ c.op \in Writes /\ c.success /\ c.flag) => c.content = c.count
  /\ (c.at = "done" /\ c.op \in Writes) =>
       /\ c.touched <=> c.channel # None
       /\ c.touched /\ c.flag = c.flag_again => AsEnforced(c)

Calling ==
  /\ DOMAIN m_default = 1..3
  /\ call = [t \in Threads |-> call[t]]
  /\ \A t \in Threads : CallHolds(call[t])

IInv ==
  /\ Defining /\ BuilderFollowsClassifiers
  /\ Keyed
  /\ Requesting /\ RefusedForAReason
  /\ Calling

-----------------------------------------------------------------------------
(* Functions of records.                                                   *)

\* m_use of one channel's builder is set.
LEMMA UseSet ==
  ASSUME NEW ch, ch = [k \in DOMAIN ch |-> ch[k]],
         \A k \in DOMAIN ch : ChannelShape(ch[k]), NEW k0, NEW u
  PROVE  LET new == [ch EXCEPT ![k0].use = u]
         IN /\ DOMAIN new = DOMAIN ch
            /\ new = [k \in DOMAIN new |-> new[k]]
            /\ \A k \in DOMAIN ch :
                 new[k] = IF k = k0
                          THEN [tuple |-> ch[k].tuple, made_for |-> ch[k].made_for,
                                use |-> u, func |-> ch[k].func,
                                objects |-> ch[k].objects]
                          ELSE ch[k]
BY DEF ChannelShape

\* Its function is bound.
LEMMA FuncSet ==
  ASSUME NEW ch, ch = [k \in DOMAIN ch |-> ch[k]],
         \A k \in DOMAIN ch : ChannelShape(ch[k]), NEW k0, NEW f
  PROVE  LET new == [ch EXCEPT ![k0].func = f]
         IN /\ DOMAIN new = DOMAIN ch
            /\ new = [k \in DOMAIN new |-> new[k]]
            /\ \A k \in DOMAIN ch :
                 new[k] = IF k = k0
                          THEN [tuple |-> ch[k].tuple, made_for |-> ch[k].made_for,
                                use |-> ch[k].use, func |-> f,
                                objects |-> ch[k].objects]
                          ELSE ch[k]
BY DEF ChannelShape

\* Its objects change.
LEMMA ObjectsSet ==
  ASSUME NEW ch, ch = [k \in DOMAIN ch |-> ch[k]],
         \A k \in DOMAIN ch : ChannelShape(ch[k]), NEW k0, NEW objects
  PROVE  LET new == [ch EXCEPT ![k0].objects = objects]
         IN /\ DOMAIN new = DOMAIN ch
            /\ new = [k \in DOMAIN new |-> new[k]]
            /\ \A k \in DOMAIN ch :
                 new[k] = IF k = k0
                          THEN [tuple |-> ch[k].tuple, made_for |-> ch[k].made_for,
                                use |-> ch[k].use, func |-> ch[k].func,
                                objects |-> objects]
                          ELSE ch[k]
BY DEF ChannelShape

\* m_linkers and answered only grow.
LEMMA Appended ==
  ASSUME NEW s, IsSequence(s), NEW e
  PROVE  LET new == Append(s, e)
         IN /\ IsSequence(new)
            /\ Len(s) \in Nat /\ DOMAIN s = 1..Len(s)
            /\ Len(new) = Len(s) + 1 /\ DOMAIN new = 1..Len(s) + 1
            /\ \A i \in DOMAIN new : new[i] = IF i \in DOMAIN s THEN s[i] ELSE e
<1> DEFINE S == {s[i] : i \in DOMAIN s} \cup {e}
           new == Append(s, e)
<1>1. s \in Seq(S) /\ e \in S
  BY DEF IsSequence
<1> HIDE DEF S
<1>2. /\ new \in Seq(S) /\ Len(new) = Len(s) + 1
      /\ \A i \in 1..Len(s) : new[i] = s[i]
      /\ new[Len(s) + 1] = e
  BY <1>1, AppendProperties
<1>3. Len(s) \in Nat /\ DOMAIN s = 1..Len(s) /\ DOMAIN new = 1..Len(new)
  BY <1>1, <1>2
<1>4. \A i \in DOMAIN new : new[i] = IF i \in DOMAIN s THEN s[i] ELSE e
  <2> SUFFICES ASSUME NEW i \in DOMAIN new PROVE new[i] = IF i \in DOMAIN s THEN s[i] ELSE e
    OBVIOUS
  <2>1. i \in 1..Len(s) \/ i = Len(s) + 1
    BY <1>2, <1>3
  <2>2. Len(s) + 1 \notin 1..Len(s)
    BY <1>3
  <2> HIDE DEF new
  <2> QED
    BY <1>2, <1>3, <2>1, <2>2
<1>5. IsSequence(new)
  <2> HIDE DEF new
  <2> QED
    BY <1>2 DEF IsSequence
<1> QED
  BY <1>2, <1>3, <1>4, <1>5

\* Values that agree on the classifiers in use make the same text.
LEMMA SameText ==
  ASSUME NEW use, NEW values, NEW others, DOMAIN values = DOMAIN use,
         DOMAIN others = DOMAIN use, Agree(use, values, others)
  PROVE  Message(use, values) = Message(use, others)
BY DEF Message, Agree

\* Classifiers are Booleans, three of a channel and two of an object.
LEMMA ClassifierDomains ==
  /\ \A use \in ChannelClassifiers : DOMAIN use = 1..3
  /\ \A use \in ObjectClassifiers : DOMAIN use = 1..2
<1>1. DOMAIN DefaultChannelClassifiers = 1..3 /\ DOMAIN DefaultObjectClassifiers = 1..2
  BY DEF DefaultChannelClassifiers, DefaultObjectClassifiers
<1>2. Classifiers \subseteq [1..3 -> BOOLEAN] /\ Pairs \subseteq [1..2 -> BOOLEAN]
  BY InstanceAssumption DEF InstanceAssumption
<1>3. /\ \A use \in Classifiers : DOMAIN use = 1..3
      /\ \A use \in Pairs : DOMAIN use = 1..2
  BY <1>2
<1> QED
  BY <1>1, <1>3 DEF ChannelClassifiers, ObjectClassifiers

-----------------------------------------------------------------------------
(* Steps that leave a part alone.                                          *)

\* No channel goes.
NoneGoes == DOMAIN m_channels \subseteq DOMAIN m_channels'

\* No token of an object goes.
TokensKept ==
  NoneGoes /\ \A k \in DOMAIN m_channels : \A o \in m_channels[k].objects :
                \E p \in m_channels'[k].objects : p.token = o.token

\* Nothing of the differentiation changes.
LEMMA DefiningStays ==
  ASSUME Defining, UNCHANGED <<builderVars, define>>, NoneGoes
  PROVE  Defining'
<1>1. \A d \in Definers : DefineHolds(define[d])'
  BY DEF Defining, DefineHolds, DefineShape, ClassifiersOf, ChannelClassifiers,
         ObjectClassifiers, NoneGoes
<1> QED
  BY <1>1 DEF Defining, builderVars, ChannelClassifiers

\* A thread goes on with its definition.
LEMMA DefineGoesOn ==
  ASSUME Defining, NEW d \in Definers, NEW new, DefineHolds(new),
         m_use' \in ChannelClassifiers, m_func' \in ChannelClassifiers,
         define' = [define EXCEPT ![d] = new], DOMAIN m_channels' = DOMAIN m_channels
  PROVE  /\ Defining'
         /\ \A e \in Definers : define'[e] = IF e = d THEN new ELSE define[e]
<1>1. /\ define' = [e \in Definers |-> define'[e]]
      /\ \A e \in Definers : define'[e] = IF e = d THEN new ELSE define[e]
  BY DEF Defining
<1>2. \A e \in Definers : DefineHolds(define'[e])
  BY <1>1 DEF Defining
<1>3. \A e \in Definers : DefineHolds(define[e])'
  BY <1>2 DEF DefineHolds, DefineShape, ClassifiersOf, ChannelClassifiers, ObjectClassifiers
<1> QED
  BY <1>1, <1>3 DEF Defining, ChannelClassifiers

\* Nothing the builders depend on changes.
LEMMA BuildersStay ==
  ASSUME BuilderFollowsClassifiers, UNCHANGED <<builderVars, m_channels, control, define>>
  PROVE  BuilderFollowsClassifiers'
BY DEF BuilderFollowsClassifiers, builderVars

\* The channels are what Keyed says of them.
LEMMA KeyedIfHolds ==
  ASSUME m_channels' = [k \in DOMAIN m_channels' |-> m_channels'[k]],
         \A k \in DOMAIN m_channels' : ChannelHolds(k, m_channels'[k])
  PROVE  Keyed'
BY DEF Keyed, ChannelHolds, ObjectHolds, ObjectShape, ChannelShape, ObjectClassifiers,
       ChannelClassifiers, Token

\* Only use and func of channels change.
LEMMA KeyedStays ==
  ASSUME Keyed, DOMAIN m_channels' = DOMAIN m_channels,
         m_channels' = [k \in DOMAIN m_channels' |-> m_channels'[k]],
         \A k \in DOMAIN m_channels :
           /\ ChannelShape(m_channels'[k])
           /\ m_channels'[k].use \in ObjectClassifiers
           /\ m_channels'[k].func \in ObjectClassifiers
           /\ m_channels'[k].made_for = m_channels[k].made_for
           /\ m_channels'[k].tuple = m_channels[k].tuple
           /\ m_channels'[k].objects = m_channels[k].objects
  PROVE  Keyed' /\ TokensKept
<1>1. \A k \in DOMAIN m_channels' : ChannelHolds(k, m_channels'[k])
  BY DEF Keyed, ChannelHolds
<1> QED
  BY <1>1, KeyedIfHolds DEF TokensKept, NoneGoes

\* No channel changes.
LEMMA ChannelsStay ==
  ASSUME Keyed, UNCHANGED m_channels
  PROVE  Keyed' /\ TokensKept
BY KeyedStays DEF Keyed, ChannelHolds

\* No channel goes, and no link or answer comes.
LEMMA LinksStay ==
  ASSUME Links, UNCHANGED <<m_linkers, answered>>, NoneGoes
  PROVE  Links'
BY DEF Links, IsSequence, IsChannelRule, LinkedIds, NoneGoes

\* The control thread does nothing.
LEMMA RequestingStays ==
  ASSUME Requesting, UNCHANGED <<m_linkers, controlVars>>, NoneGoes
  PROVE  Requesting'
<1>1. Links'
  BY LinksStay DEF Requesting, controlVars
<1>2. ControlHolds(control)'
  BY DEF Requesting, ControlHolds, controlVars, ControlShape, IsChannelRule, NextRequest,
       Token, LinkedIds, get_channel_diff_token, ChannelClassifiers, ObjectClassifiers,
       NoneGoes
<1> QED
  BY <1>1, <1>2 DEF Requesting

\* A refusal has a reason.
LEMMA RefusedReason ==
  RefusedForAReason <=>
    \A n \in DOMAIN answered :
      ~IsChannelRule(Requests[n]) /\ answered[n] = "error" => Reason(n)
BY DEF RefusedForAReason, Reason, ObjectClassifiers

\* A reason stays one: links and tokens are not lost, answers are not taken back.
LEMMA ReasonStays ==
  ASSUME Links, TokensKept, NEW n, Reason(n),
         \A i \in DOMAIN m_linkers : i \in DOMAIN m_linkers' /\ m_linkers'[i] = m_linkers[i],
         \A m \in 1..n - 1 : answered'[m] = answered[m]
  PROVE  Reason(n)'
<1>1. CASE Requests[n][4] \notin Supported
  BY <1>1 DEF Reason
<1>2. CASE \A m \in 1..n - 1 :
             IsChannelRule(Requests[m]) /\ Requests[m][1] = Requests[n][1] =>
               answered[m] = "error"
  BY <1>2 DEF Reason, IsChannelRule
<1>3. ASSUME NEW i \in DOMAIN m_linkers, m_linkers[i][1] = Requests[n][1],
             \/ m_linkers[i][2] = NotFound
             \/ \E o \in m_channels[m_linkers[i][2]].objects, use \in ObjectClassifiers :
                  o.token = Token(use, Requests[n][3])
      PROVE  Reason(n)'
  <2>1. i \in DOMAIN m_linkers' /\ m_linkers'[i] = m_linkers[i]
        /\ m_linkers[i][2] \in DOMAIN m_channels
    BY DEF Links
  <2>2. CASE m_linkers[i][2] = NotFound
    BY <1>3, <2>1, <2>2 DEF Reason
  <2>3. ASSUME NEW o \in m_channels[m_linkers[i][2]].objects, NEW use \in ObjectClassifiers,
               o.token = Token(use, Requests[n][3])
        PROVE  Reason(n)'
    <3>1. PICK p \in m_channels'[m_linkers[i][2]].objects : p.token = o.token
      BY <2>1 DEF TokensKept
    <3> QED
      BY <1>3, <2>1, <2>3, <3>1 DEF Reason, Token, ObjectClassifiers
  <2> QED
    BY <1>3, <2>2, <2>3
<1> QED
  BY <1>1, <1>2, <1>3 DEF Reason

\* The answers stay, and links and tokens are not lost.
LEMMA RefusedStays ==
  ASSUME RefusedForAReason, Links, TokensKept, UNCHANGED <<m_linkers, answered>>
  PROVE  RefusedForAReason'
<1>1. ASSUME NEW n \in DOMAIN answered, ~IsChannelRule(Requests[n]), answered[n] = "error"
      PROVE  Reason(n)'
  BY <1>1, RefusedReason, ReasonStays
<1>2. \A n \in DOMAIN answered' :
        ~IsChannelRule(Requests[n]) /\ answered'[n] = "error" => Reason(n)'
  BY <1>1
<1> QED
  BY <1>2 DEF RefusedForAReason, Reason, ObjectClassifiers, IsChannelRule

\* No channel goes, and no call goes on.
LEMMA CallingStays ==
  ASSUME Calling, UNCHANGED <<m_default, call>>, NoneGoes
  PROVE  Calling'
<1>1. \A t \in Threads : CallHolds(call[t])'
  BY DEF Calling, CallHolds, CallShape, CallFields, Token, ObjectClassifiers,
         ChannelClassifiers, AsEnforced, NoneGoes
<1> QED
  BY <1>1 DEF Calling

\* A call of m_func_build_token, which takes no lock, builds a token for
\* classifiers of its builder.
LEMMA BoundToClassifiers ==
  ASSUME Defining, Keyed, Requesting
  PROVE  /\ Bound(None) \subseteq ChannelClassifiers
         /\ \A k \in DOMAIN m_channels : Bound(k) \subseteq ObjectClassifiers
<1>1. ASSUME NEW k, NEW d \in Definers, define[d].at = "assign", define[d].channel = k
      PROVE  define[d].old \in ClassifiersOf(k)
  BY <1>1 DEF Defining, DefineHolds
<1>2. control.at = "assign" =>
        control.old \in ObjectClassifiers /\ control.token # None
  BY DEF Requesting, ControlHolds, Keyed, ChannelHolds
<1>3. ASSUME NEW k, k = None \/ k \in DOMAIN m_channels, NEW a \in Assigning(k)
      PROVE  a.old \in ClassifiersOf(k)
  BY <1>1, <1>2, <1>3 DEF Assigning, ClassifiersOf
<1>4. None \notin DOMAIN m_channels
  BY DEF Keyed, ChannelHolds
<1>5. m_func \in ChannelClassifiers
      /\ \A k \in DOMAIN m_channels : m_channels[k].func \in ObjectClassifiers
  BY DEF Defining, Keyed, ChannelHolds
<1>6. \A f \in Bound(None) : f \in ChannelClassifiers
  BY <1>3, <1>5 DEF Bound, ClassifiersOf
<1>7. ASSUME NEW k \in DOMAIN m_channels, NEW f \in Bound(k) PROVE f \in ObjectClassifiers
  BY <1>3, <1>4, <1>5, <1>7 DEF Bound, ClassifiersOf
<1> QED
  BY <1>6, <1>7

-----------------------------------------------------------------------------
(* The constructors.                                                       *)

\* No channels, no links, the default classifiers set and bound.
LEMMA InitIInv == Init => IInv
<1> SUFFICES ASSUME Init PROVE IInv
  OBVIOUS
<1>1. Defining
  BY DEF Init, Defining, ChannelClassifiers, DefineHolds, DefineShape
<1>2. DOMAIN m_channels = {} /\ DOMAIN m_linkers = {} /\ DOMAIN answered = {}
  BY DEF Init
<1>3. BuilderFollowsClassifiers
  BY <1>2 DEF Init, BuilderFollowsClassifiers
<1>4. Keyed
  BY <1>2 DEF Init, Keyed
<1>5. Requesting
  <2>1. IsSequence(m_linkers) /\ IsSequence(answered)
    BY DEF Init, IsSequence
  <2> QED
    BY <1>2, <2>1 DEF Init, Requesting, Links, ControlHolds, ControlShape, Idle
<1>6. RefusedForAReason
  BY <1>2 DEF RefusedForAReason
<1>7. Calling
  <2>1. CallHolds(NoCall)
    BY DEF CallHolds, CallShape, CallFields, NoCall
  <2>2. DOMAIN m_default = 1..3
    BY InstanceAssumption DEF Init, InstanceAssumption
  <2>3. \A t \in Threads : call[t] = NoCall
    BY DEF Init
  <2>4. call = [t \in Threads |-> call[t]]
    BY DEF Init
  <2> QED
    BY <2>1, <2>2, <2>3, <2>4 DEF Calling
<1> QED
  BY <1>1, <1>3, <1>4, <1>5, <1>6, <1>7 DEF IInv

-----------------------------------------------------------------------------
(* Defining the differentiation.                                           *)

\* The rest of the invariant, when a thread defines the differentiation.
LEMMA DefinerLeaves ==
  ASSUME IInv, NEW d \in Definers, Definer(d), Defining', BuilderFollowsClassifiers',
         Keyed', TokensKept
  PROVE  IInv'
<1>1. UNCHANGED <<m_linkers, controlVars, m_default, call, answered>>
  BY DEF Definer, Define, set_classifiers, bind_builder, Assigned, stageVars, settingVars,
         controlVars
<1>2. NoneGoes
  BY DEF TokensKept
<1> QED
  BY <1>1, <1>2, RequestingStays, RefusedStays, CallingStays DEF IInv, Requesting

\* A thread is about to set classifiers.
LEMMA DefineBegins ==
  ASSUME IInv, NEW d \in Definers, Definer(d), NEW channel_id, NEW use,
         Define(d, channel_id, use), use \in ClassifiersOf(channel_id)
  PROVE  IInv'
<1>a. Defining /\ BuilderFollowsClassifiers /\ Keyed
  BY DEF IInv
<1> DEFINE token == get_channel_diff_token(channel_id)
           channel == IF channel_id = None THEN None ELSE token
           new == [at |-> "set", channel |-> channel, use |-> use, old |-> None]
<1>1. /\ channel_id # None => token \in DOMAIN m_channels
      /\ define[d].at = "idle"
      /\ define' = [define EXCEPT ![d] = new]
      /\ UNCHANGED <<m_use, m_func, m_channels, control>>
  BY DEF Define, builderVars, stageVars, controlVars
<1>2. /\ channel = None <=> channel_id = None
      /\ channel # None => channel \in DOMAIN m_channels
  BY <1>a, <1>1 DEF Keyed, ChannelHolds
<1> HIDE DEF channel, token
<1>3. DefineHolds(new) /\ new.at = "set"
  BY <1>2 DEF DefineHolds, DefineShape, ClassifiersOf
<1> HIDE DEF new
<1>4. Defining' /\ \A e \in Definers : define'[e] = IF e = d THEN new ELSE define[e]
  BY <1>a, <1>1, <1>3, DefineGoesOn DEF Defining
<1>5. BuilderFollowsClassifiers'
  BY <1>a, <1>1, <1>3, <1>4 DEF BuilderFollowsClassifiers
<1> QED
  BY <1>a, <1>1, <1>4, <1>5, ChannelsStay, DefinerLeaves

\* set_classifiers: the builder is not bound to them until bind_builder.
LEMMA SetStep ==
  ASSUME IInv, NEW d \in Definers, Definer(d), set_classifiers(d)
  PROVE  IInv'
<1>a. Defining /\ BuilderFollowsClassifiers /\ Keyed /\ DefineHolds(define[d])
  BY DEF IInv, Defining
<1> DEFINE k0 == define[d].channel
           u == define[d].use
           new == [define[d] EXCEPT !.at = "bind"]
<1>1. /\ define[d].at = "set"
      /\ define' = [define EXCEPT ![d] = new]
      /\ IF k0 = None
           THEN m_use' = u /\ UNCHANGED <<m_func, m_channels>>
           ELSE /\ m_channels' = [m_channels EXCEPT ![k0].use = u]
                /\ UNCHANGED <<m_use, m_func>>
      /\ UNCHANGED control
  BY <1>a DEF Defining, set_classifiers, builderVars, stageVars, controlVars
<1>2. u \in ClassifiersOf(k0) /\ (k0 # None => k0 \in DOMAIN m_channels)
  BY <1>a, <1>1 DEF DefineHolds
<1>3. /\ new.at = "bind" /\ new.channel = k0
      /\ DefineHolds(new)
  BY <1>a, <1>1 DEF DefineHolds, DefineShape
<1> HIDE DEF new
<1>4. CASE k0 = None
  <2>1. Defining' /\ \A e \in Definers : define'[e] = IF e = d THEN new ELSE define[e]
    BY <1>a, <1>1, <1>2, <1>3, <1>4, DefineGoesOn DEF Defining, ClassifiersOf
  <2>2. BuilderFollowsClassifiers'
    BY <1>a, <1>1, <1>3, <1>4, <2>1 DEF Keyed, ChannelHolds, BuilderFollowsClassifiers
  <2> QED
    BY <1>a, <1>1, <1>4, <2>1, <2>2, ChannelsStay, DefinerLeaves
<1>5. CASE k0 # None
  <2>1. /\ m_channels = [k \in DOMAIN m_channels |-> m_channels[k]]
        /\ \A k \in DOMAIN m_channels : ChannelShape(m_channels[k])
    BY <1>a DEF Keyed, ChannelHolds
  <2>2. m_channels' = [m_channels EXCEPT ![k0].use = u] /\ u \in ObjectClassifiers
    BY <1>1, <1>2, <1>5 DEF ClassifiersOf
  <2>3. UNCHANGED <<m_use, m_func, control>>
    BY <1>1, <1>5
  <2> HIDE DEF k0, u
  <2>4. /\ DOMAIN m_channels' = DOMAIN m_channels
        /\ m_channels' = [k \in DOMAIN m_channels' |-> m_channels'[k]]
        /\ \A k \in DOMAIN m_channels :
             m_channels'[k] =
               IF k = k0
               THEN [tuple |-> m_channels[k].tuple, made_for |-> m_channels[k].made_for,
                     use |-> u, func |-> m_channels[k].func,
                     objects |-> m_channels[k].objects]
               ELSE m_channels[k]
    BY <2>1, <2>2, UseSet, ZenonT(60)
  <2>5. Defining' /\ \A e \in Definers : define'[e] = IF e = d THEN new ELSE define[e]
    BY <1>a, <1>1, <1>3, <2>3, <2>4, DefineGoesOn DEF Defining
  <2>6. Keyed' /\ TokensKept
    BY <1>a, <2>2, <2>4, KeyedStays DEF Keyed, ChannelHolds, ChannelShape
  <2>7. BuilderFollowsClassifiers'
    BY <1>a, <1>1, <1>3, <1>5, <2>3, <2>4, <2>5 DEF BuilderFollowsClassifiers, k0
  <2> QED
    BY <2>5, <2>6, <2>7, DefinerLeaves
<1> QED
  BY <1>4, <1>5

\* Two fields of a thread's record.
LEMMA TwoFields ==
  ASSUME NEW r, DefineShape(r), NEW at, NEW old
  PROVE  [r EXCEPT !.at = at, !.old = old] =
           [at |-> at, channel |-> r.channel, use |-> r.use, old |-> old]
<1> DEFINE s == [r EXCEPT !.at = at]
<1>1. s = [at |-> at, channel |-> r.channel, use |-> r.use, old |-> r.old]
  BY DEF DefineShape
<1> HIDE DEF s
<1>2. [s EXCEPT !.old = old] = [at |-> at, channel |-> r.channel, use |-> r.use, old |-> old]
  BY <1>1
<1> QED
  BY <1>2 DEF s

\* bind_builder: whoever set the classifiers, the builder is bound to them.
LEMMA BindStep ==
  ASSUME IInv, NEW d \in Definers, Definer(d), bind_builder(d)
  PROVE  IInv'
<1>a. Defining /\ BuilderFollowsClassifiers /\ Keyed /\ DefineHolds(define[d])
  BY DEF IInv, Defining
<1> DEFINE k0 == define[d].channel
           u == m_channels[k0].use
           old == IF k0 = None THEN m_func ELSE m_channels[k0].func
           new == [define[d] EXCEPT !.at = "assign", !.old = old]
<1>1. /\ define[d].at = "bind"
      /\ IF k0 = None
           THEN m_func' = m_use /\ UNCHANGED <<m_use, m_channels>>
           ELSE /\ m_channels' = [m_channels EXCEPT ![k0].func = u]
                /\ UNCHANGED <<m_use, m_func>>
      /\ UNCHANGED control
  BY DEF bind_builder, builderVars, stageVars, controlVars
<1>0. define' = [define EXCEPT ![d] = new]
  BY <1>a DEF Defining, bind_builder
<1>2. old \in ClassifiersOf(k0) /\ (k0 # None => k0 \in DOMAIN m_channels)
  BY <1>a, <1>1 DEF DefineHolds, ClassifiersOf, Keyed, ChannelHolds, Defining
<1> HIDE DEF old
<1>c. new = [at |-> "assign", channel |-> k0, use |-> define[d].use, old |-> old]
  <2> HIDE DEF old
  <2> QED
    BY <1>a, TwoFields, Zenon DEF DefineHolds
<1>3. new.at = "assign" /\ new.channel = k0 /\ DefineHolds(new)
  <2> HIDE DEF new, k0
  <2> QED
    BY <1>2, <1>c DEF DefineHolds, DefineShape
<1> HIDE DEF new
<1>4. CASE k0 = None
  <2>1. Defining' /\ \A e \in Definers : define'[e] = IF e = d THEN new ELSE define[e]
    BY <1>a, <1>0, <1>1, <1>3, <1>4, DefineGoesOn DEF Defining
  <2>2. BuilderFollowsClassifiers'
    BY <1>a, <1>1, <1>3, <1>4, <2>1 DEF Keyed, ChannelHolds, BuilderFollowsClassifiers
  <2> QED
    BY <1>a, <1>1, <1>4, <2>1, <2>2, ChannelsStay, DefinerLeaves
<1>5. CASE k0 # None
  <2>1. /\ m_channels = [k \in DOMAIN m_channels |-> m_channels[k]]
        /\ \A k \in DOMAIN m_channels : ChannelShape(m_channels[k])
    BY <1>a DEF Keyed, ChannelHolds
  <2>2. m_channels' = [m_channels EXCEPT ![k0].func = u] /\ u \in ObjectClassifiers
    BY <1>a, <1>1, <1>2, <1>5 DEF Keyed, ChannelHolds
  <2>3. UNCHANGED <<m_use, m_func, control>>
    BY <1>1, <1>5
  <2> HIDE DEF k0, u
  <2>4. /\ DOMAIN m_channels' = DOMAIN m_channels
        /\ m_channels' = [k \in DOMAIN m_channels' |-> m_channels'[k]]
        /\ \A k \in DOMAIN m_channels :
             m_channels'[k] =
               IF k = k0
               THEN [tuple |-> m_channels[k].tuple, made_for |-> m_channels[k].made_for,
                     use |-> m_channels[k].use, func |-> u,
                     objects |-> m_channels[k].objects]
               ELSE m_channels[k]
    BY <2>1, <2>2, FuncSet, ZenonT(60)
  <2>5. Defining' /\ \A e \in Definers : define'[e] = IF e = d THEN new ELSE define[e]
    BY <1>a, <1>0, <1>3, <2>3, <2>4, DefineGoesOn DEF Defining
  <2>6. Keyed' /\ TokensKept
    BY <1>a, <2>2, <2>4, KeyedStays DEF Keyed, ChannelHolds, ChannelShape
  <2>7. BuilderFollowsClassifiers'
    BY <1>a, <1>1, <1>3, <1>5, <2>3, <2>4, <2>5 DEF BuilderFollowsClassifiers, k0, u
  <2> QED
    BY <2>5, <2>6, <2>7, DefinerLeaves
<1> QED
  BY <1>4, <1>5

\* The assignment of the function ends.
LEMMA AssignedStep ==
  ASSUME IInv, NEW d \in Definers, Definer(d), Assigned(d)
  PROVE  IInv'
<1>a. Defining /\ BuilderFollowsClassifiers /\ Keyed
  BY DEF IInv
<1> DEFINE new == [at |-> "done", channel |-> None, use |-> None, old |-> None]
<1>1. /\ define[d].at = "assign" /\ define' = [define EXCEPT ![d] = new]
      /\ UNCHANGED <<m_use, m_func, m_channels, control>>
  BY DEF Assigned, builderVars, stageVars, controlVars
<1>2. DefineHolds(new) /\ new.at = "done"
  BY DEF DefineHolds, DefineShape
<1> HIDE DEF new
<1>3. Defining' /\ \A e \in Definers : define'[e] = IF e = d THEN new ELSE define[e]
  BY <1>a, <1>1, <1>2, DefineGoesOn DEF Defining
<1>4. BuilderFollowsClassifiers'
  BY <1>a, <1>1, <1>2, <1>3 DEF BuilderFollowsClassifiers
<1> QED
  BY <1>a, <1>1, <1>3, <1>4, ChannelsStay, DefinerLeaves

\* A thread's definition of the differentiation, in two critical sections.
LEMMA DefinerStep ==
  ASSUME IInv, NEW d \in Definers, Definer(d)
  PROVE  IInv'
<1>1. ASSUME NEW use \in Classifiers, Define(d, None, use) PROVE IInv'
  BY <1>1, DefineBegins DEF ChannelClassifiers, ClassifiersOf
<1>2. ASSUME NEW id \in {m_linkers[i][1] : i \in DOMAIN m_linkers}, NEW use \in Pairs,
             Define(d, id, use)
      PROVE  IInv'
  <2>1. id # None
    BY DEF IInv, Requesting, Links
  <2>2. use \in ClassifiersOf(id)
    BY <2>1 DEF ObjectClassifiers, ClassifiersOf
  <2> QED
    BY <1>2, <2>2, DefineBegins
<1> QED
  BY <1>1, <1>2, SetStep, BindStep, AssignedStep DEF Definer

-----------------------------------------------------------------------------
(* The control thread.                                                     *)

\* Fields of the control thread's record.
LEMMA ControlFields ==
  ASSUME NEW c, ControlShape(c), NEW at, NEW old, NEW func, NEW object
  PROVE  /\ [c EXCEPT !.at = at] =
              [at |-> at, rule |-> c.rule, token |-> c.token, object |-> c.object,
               func |-> c.func, old |-> c.old]
         /\ [c EXCEPT !.at = at, !.old = old] =
              [at |-> at, rule |-> c.rule, token |-> c.token, object |-> c.object,
               func |-> c.func, old |-> old]
         /\ [c EXCEPT !.at = at, !.func = func, !.object = object] =
              [at |-> at, rule |-> c.rule, token |-> c.token, object |-> object,
               func |-> func, old |-> c.old]
<1> DEFINE s == [c EXCEPT !.at = at]
           s2 == [s EXCEPT !.func = func]
<1>1. s = [at |-> at, rule |-> c.rule, token |-> c.token, object |-> c.object,
           func |-> c.func, old |-> c.old]
  BY DEF ControlShape
<1> HIDE DEF s
<1>2. [s EXCEPT !.old = old] =
        [at |-> at, rule |-> c.rule, token |-> c.token, object |-> c.object,
         func |-> c.func, old |-> old]
  BY <1>1
<1>3. s2 = [at |-> at, rule |-> c.rule, token |-> c.token, object |-> c.object,
            func |-> func, old |-> c.old]
  BY <1>1
<1> HIDE DEF s2
<1>4. [s2 EXCEPT !.object = object] =
        [at |-> at, rule |-> c.rule, token |-> c.token, object |-> object,
         func |-> func, old |-> c.old]
  BY <1>3
<1> QED
  BY <1>1, <1>2, <1>4 DEF s, s2

\* What is in hand.
LEMMA InHand ==
  ASSUME IInv, control.at # "idle"
  PROVE  /\ Len(answered) \in Nat /\ DOMAIN answered = 1..Len(answered)
         /\ Len(answered) + 1 \in 1..Len(Requests)
         /\ control.rule = Requests[Len(answered) + 1]
         /\ ControlShape(control)
<1>1. /\ Len(answered) < Len(Requests) /\ control.rule = NextRequest
      /\ IsSequence(answered) /\ ControlShape(control)
  BY DEF IInv, Requesting, Links, ControlHolds
<1>2. Len(answered) \in Nat /\ DOMAIN answered = 1..Len(answered)
  BY <1>1, Appended
<1>3. Len(Requests) \in Nat
  BY InstanceAssumption DEF InstanceAssumption
<1> QED
  BY <1>1, <1>2, <1>3 DEF NextRequest

\* The rest of the invariant, when the control thread goes on without an answer.
LEMMA ControlGoesOn ==
  ASSUME IInv, UNCHANGED <<m_default, builderVars, m_linkers, answered, define, call>>,
         Keyed', TokensKept, BuilderFollowsClassifiers', ControlHolds(control)'
  PROVE  IInv'
<1>1. NoneGoes
  BY DEF TokensKept
<1> QED
  BY <1>1, DefiningStays, RefusedStays, CallingStays, LinksStay DEF IInv, Requesting

\* The answer that ends a request: a refusal has a reason, and a channel whose
\* creation is not refused is linked.
LEMMA Answered ==
  ASSUME IInv, control.at # "idle", NEW status, Answer(status),
         UNCHANGED <<m_default, builderVars, m_linkers, define, call>>,
         Keyed', TokensKept, control'.at = "idle" => BuilderFollowsClassifiers',
         status = "error" /\ ~IsChannelRule(control.rule) => Reason(Len(answered) + 1),
         status # "error" /\ IsChannelRule(control.rule) => control.rule[1] \in LinkedIds
  PROVE  IInv'
<1>a. Defining /\ Links /\ ControlHolds(control) /\ RefusedForAReason /\ Calling
  BY DEF IInv, Requesting
<1>b. NoneGoes
  BY DEF TokensKept
<1>1. /\ answered' = Append(answered, status)
      /\ control' = [control EXCEPT !.at = "idle"]
  BY DEF Answer
<1>2. /\ Len(answered) \in Nat /\ DOMAIN answered = 1..Len(answered)
      /\ control.rule = Requests[Len(answered) + 1] /\ ControlShape(control)
  BY InHand
<1>3. /\ IsSequence(answered') /\ DOMAIN answered' = 1..Len(answered) + 1
      /\ \A n \in DOMAIN answered' :
           answered'[n] = IF n \in DOMAIN answered THEN answered[n] ELSE status
  BY <1>a, <1>1, Appended DEF Links
<1>4. ControlHolds(control)' /\ control'.at = "idle"
  <2>1. ControlShape(control') /\ control'.at = "idle"
    BY <1>1, <1>2, ControlFields DEF ControlShape
  <2> QED
    BY <2>1 DEF ControlHolds, ControlShape
<1>5. ASSUME NEW n \in DOMAIN answered'
      PROVE  \/ n \in DOMAIN answered
             \/ n = Len(answered) + 1 /\ answered'[n] = status
  <2>1. n \in 1..Len(answered) \/ n = Len(answered) + 1
    BY <1>2, <1>3
  <2> QED
    BY <1>2, <1>3, <2>1
<1>6. ASSUME NEW n \in DOMAIN answered', NEW m \in 1..n - 1 PROVE answered'[m] = answered[m]
  BY <1>2, <1>3
<1>7. ASSUME NEW n \in DOMAIN answered', ~IsChannelRule(Requests[n]), answered'[n] = "error"
      PROVE  Reason(n)'
  <2>1. Reason(n)
    <3>1. CASE n \in DOMAIN answered
      BY <1>3, <1>7, <1>a, <3>1, RefusedReason
    <3>2. CASE n \notin DOMAIN answered
      BY <1>2, <1>5, <1>7, <3>2
    <3> QED
      BY <3>1, <3>2
  <2>2. \A i \in DOMAIN m_linkers : i \in DOMAIN m_linkers' /\ m_linkers'[i] = m_linkers[i]
    OBVIOUS
  <2> QED
    BY <1>6, <1>a, <2>1, <2>2, ReasonStays
<1>8. RefusedForAReason'
  BY <1>7 DEF RefusedForAReason, Reason, ObjectClassifiers, IsChannelRule
<1>9. ASSUME NEW n \in DOMAIN answered', IsChannelRule(Requests[n]), answered'[n] # "error"
      PROVE  Requests[n][1] \in LinkedIds
  BY <1>2, <1>3, <1>5, <1>9, <1>a DEF Links
<1>10. Links'
  BY <1>3, <1>9, <1>a, <1>b DEF Links, IsSequence, IsChannelRule, LinkedIds, NoneGoes
<1> QED
  BY <1>4, <1>8, <1>10, <1>a, <1>b, DefiningStays, CallingStays DEF IInv, Requesting

\* The next request.
LEMMA BeginStep ==
  ASSUME IInv, Len(answered) < Len(Requests),
         \/ IsChannelRule(NextRequest) /\ create_channel(NextRequest)
         \/ ~IsChannelRule(NextRequest) /\ create_enforcement_object(NextRequest)
  PROVE  IInv'
<1>a. Defining /\ BuilderFollowsClassifiers /\ Keyed /\ Requesting
  BY DEF IInv
<1>b. /\ control.at = "idle"
      /\ UNCHANGED <<m_default, builderVars, m_channels, m_linkers, answered, define, call>>
  BY DEF create_channel, create_enforcement_object, settingVars, stageVars
<1>1. ControlHolds(control)' /\ control'.at # "bind"
  <2>1. CASE IsChannelRule(NextRequest) /\ create_channel(NextRequest)
    <3>1. PICK func \in Bound(None) :
            control' = [Idle EXCEPT !.at = "emplace", !.rule = NextRequest, !.func = func,
                                    !.token = Token(func, NextRequest[2])]
      BY <2>1 DEF create_channel
    <3>2. func \in ChannelClassifiers
      BY <1>a, BoundToClassifiers
    <3>3. control' = [at |-> "emplace", rule |-> NextRequest, func |-> func, object |-> None,
                      token |-> Token(func, NextRequest[2]), old |-> None]
      BY <3>1 DEF Idle
    <3>4. /\ ControlShape(control') /\ control'.at = "emplace" /\ control'.rule = NextRequest
          /\ control'.func \in ChannelClassifiers
          /\ control'.token = Token(control'.func, control'.rule[2])
      BY <3>2, <3>3 DEF ControlShape
    <3> QED
      BY <1>b, <2>1, <3>4
      DEF ControlHolds, ControlShape, NextRequest, IsChannelRule, Token, ChannelClassifiers
  <2>2. CASE ~IsChannelRule(NextRequest) /\ create_enforcement_object(NextRequest)
    <3>1. control' = [at |-> "object", rule |-> NextRequest, func |-> None, object |-> None,
                      token |-> get_channel_diff_token(NextRequest[1]), old |-> None]
      BY <2>2 DEF create_enforcement_object, Idle
    <3>2. /\ ControlShape(control') /\ control'.at = "object" /\ control'.rule = NextRequest
          /\ control'.token = get_channel_diff_token(control'.rule[1])
      BY <3>1 DEF ControlShape
    <3> QED
      BY <1>b, <2>2, <3>2
      DEF ControlHolds, ControlShape, NextRequest, IsChannelRule, get_channel_diff_token
  <2> QED
    BY <2>1, <2>2
<1>2. BuilderFollowsClassifiers'
  BY <1>1, <1>a, <1>b DEF BuilderFollowsClassifiers, builderVars
<1> QED
  BY <1>1, <1>2, <1>a, <1>b, ChannelsStay, ControlGoesOn

\* Core::create_channel: the channel comes under its token, its function bound.
LEMMA EmplaceStep ==
  ASSUME IInv, emplace
  PROVE  IInv'
<1>a. Defining /\ BuilderFollowsClassifiers /\ Keyed /\ ControlHolds(control)
  BY DEF IInv, Requesting
<1>b. /\ control.at = "emplace"
      /\ UNCHANGED <<m_default, builderVars, m_linkers, define, call>>
  BY DEF emplace, settingVars
<1>c. /\ IsChannelRule(control.rule) /\ control.func \in ChannelClassifiers
      /\ control.token = Token(control.func, control.rule[2])
  BY <1>a, <1>b DEF ControlHolds
<1>1. CASE control.token \in DOMAIN m_channels \/ control.rule[1] \in LinkedIds
  <2>1. Answer("error") /\ UNCHANGED m_channels
    BY <1>1 DEF emplace
  <2>2. control'.at = "idle" => BuilderFollowsClassifiers'
    BY <1>a, <1>b, <2>1 DEF BuilderFollowsClassifiers, builderVars
  <2> QED
    BY <1>a, <1>b, <1>c, <2>1, <2>2, ChannelsStay, Answered
<1>2. CASE ~(control.token \in DOMAIN m_channels \/ control.rule[1] \in LinkedIds)
  <2> DEFINE new == [tuple |-> control.rule[2], made_for |-> control.func,
                     use |-> DefaultObjectClassifiers,
                     func |-> DefaultObjectClassifiers, objects |-> {}]
  <2>1. /\ m_channels' = [k \in DOMAIN m_channels \cup {control.token} |->
                            IF k # control.token THEN m_channels[k] ELSE new]
        /\ control' = [control EXCEPT !.at = "link"]
        /\ UNCHANGED answered
    BY <1>2 DEF emplace
  <2>2. DOMAIN control.rule[2] = 1..3 /\ control.token # None
    <3>1. /\ Len(answered) + 1 \in 1..Len(Requests)
          /\ control.rule = Requests[Len(answered) + 1]
      BY <1>b, InHand
    <3> QED
      BY <1>c, <3>1, InstanceAssumption
      DEF InstanceAssumption, IsChannelRule, Token, ChannelClassifiers
  <2>3. ChannelHolds(control.token, new) /\ new.func = new.use
    BY <1>c, <2>2 DEF ChannelHolds, ChannelShape, ObjectClassifiers
  <2> HIDE DEF new
  <2>4. /\ DOMAIN m_channels' = DOMAIN m_channels \cup {control.token}
        /\ m_channels' = [k \in DOMAIN m_channels' |-> m_channels'[k]]
        /\ \A k \in DOMAIN m_channels' :
             m_channels'[k] = IF k # control.token THEN m_channels[k] ELSE new
    BY <2>1
  <2>5. Keyed'
    <3>1. \A k \in DOMAIN m_channels' : ChannelHolds(k, m_channels'[k])
      BY <1>a, <2>3, <2>4 DEF Keyed
    <3> QED
      BY <2>4, <3>1, KeyedIfHolds
  <2>6. TokensKept
    <3>1. \A k \in DOMAIN m_channels : k # control.token
      BY <1>2
    <3> QED
      BY <2>4, <3>1 DEF TokensKept, NoneGoes
  <2>7. /\ control'.at = "link" /\ control'.rule = control.rule
        /\ control'.token = control.token /\ ControlShape(control')
    BY <1>a, <2>1, ControlFields DEF ControlHolds, ControlShape
  <2>8. BuilderFollowsClassifiers'
    BY <1>a, <1>b, <2>3, <2>4, <2>7 DEF BuilderFollowsClassifiers, builderVars
  <2>9. ControlHolds(control)'
    <3>1. control'.token \in DOMAIN m_channels' /\ control'.rule[1] \notin LinkedIds'
      BY <1>2, <1>b, <2>4, <2>7 DEF LinkedIds
    <3> QED
      BY <1>a, <1>b, <1>c, <2>1, <2>7, <3>1
      DEF ControlHolds, ControlShape, IsChannelRule, NextRequest
  <2> QED
    BY <1>b, <2>1, <2>5, <2>6, <2>8, <2>9, ControlGoesOn
<1> QED
  BY <1>1, <1>2

\* The link from the channel's identifier to its token, the only one.
LEMMA LinkStep ==
  ASSUME IInv, create_new_channel_linker
  PROVE  IInv'
<1>a. /\ Defining /\ BuilderFollowsClassifiers /\ Keyed /\ Links /\ ControlHolds(control)
      /\ RefusedForAReason /\ Calling
  BY DEF IInv, Requesting
<1> DEFINE link == <<control.rule[1], control.token>>
<1>b. /\ control.at = "link"
      /\ m_linkers' = Append(m_linkers, link)
      /\ control' = [control EXCEPT !.at = "set"]
      /\ UNCHANGED <<m_default, builderVars, m_channels, answered, define, call>>
  BY DEF create_new_channel_linker, settingVars
<1>c. Keyed' /\ TokensKept /\ NoneGoes
  BY <1>a, <1>b, ChannelsStay DEF TokensKept
<1>1. /\ IsChannelRule(control.rule) /\ Len(answered) < Len(Requests)
      /\ control.rule = NextRequest /\ control.token \in DOMAIN m_channels
      /\ control.rule[1] \notin LinkedIds /\ ControlShape(control)
  BY <1>a, <1>b DEF ControlHolds
<1>2. control.rule[1] # None
  <2>1. /\ Len(answered) + 1 \in 1..Len(Requests)
        /\ control.rule = Requests[Len(answered) + 1]
    BY <1>b, InHand
  <2> QED
    BY <1>1, <2>1, InstanceAssumption DEF InstanceAssumption, IsChannelRule
<1>3. link = <<link[1], link[2]>> /\ link[1] = control.rule[1] /\ link[2] = control.token
  OBVIOUS
<1> HIDE DEF link
<1>4. /\ IsSequence(m_linkers') /\ Len(m_linkers) \in Nat
      /\ DOMAIN m_linkers = 1..Len(m_linkers) /\ DOMAIN m_linkers' = 1..Len(m_linkers) + 1
      /\ \A i \in DOMAIN m_linkers' :
           m_linkers'[i] = IF i \in DOMAIN m_linkers THEN m_linkers[i] ELSE link
  BY <1>a, <1>b, Appended DEF Links
<1>5. /\ control'.at = "set" /\ control'.rule = control.rule
      /\ control'.token = control.token /\ ControlShape(control')
  BY <1>1, <1>b, ControlFields DEF ControlShape
<1>6. /\ \A i \in DOMAIN m_linkers : i \in DOMAIN m_linkers' /\ m_linkers'[i] = m_linkers[i]
      /\ Len(m_linkers) + 1 \in DOMAIN m_linkers'
      /\ m_linkers'[Len(m_linkers) + 1] = link
  BY <1>4
<1>7. LinkedIds' = LinkedIds \cup {control.rule[1]}
  <2>1. ASSUME NEW i \in DOMAIN m_linkers'
        PROVE  i \in DOMAIN m_linkers \/ m_linkers'[i] = link
    BY <1>4
  <2> QED
    BY <1>3, <1>4, <1>6, <2>1 DEF LinkedIds
<1>8. Links'
  <2>1. ASSUME NEW i \in DOMAIN m_linkers'
        PROVE  /\ m_linkers'[i] = <<m_linkers'[i][1], m_linkers'[i][2]>>
               /\ m_linkers'[i][1] # None
               /\ m_linkers'[i][2] \in DOMAIN m_channels'
               /\ \A j \in DOMAIN m_linkers' : m_linkers'[i][1] = m_linkers'[j][1] => i = j
    <3>1. ASSUME NEW j \in DOMAIN m_linkers' \ DOMAIN m_linkers
          PROVE  j = Len(m_linkers) + 1 /\ m_linkers'[j] = link
      BY <1>4
    <3>2. \A j \in DOMAIN m_linkers : m_linkers[j][1] # link[1]
      BY <1>1, <1>3 DEF LinkedIds
    <3>3. CASE i \in DOMAIN m_linkers
      <4>1. m_linkers'[i] = m_linkers[i]
        BY <1>4, <3>3
      <4>2. /\ m_linkers[i] = <<m_linkers[i][1], m_linkers[i][2]>>
            /\ m_linkers[i][1] # None /\ m_linkers[i][2] \in DOMAIN m_channels
            /\ \A j \in DOMAIN m_linkers : m_linkers[i][1] = m_linkers[j][1] => i = j
        BY <1>a, <3>3 DEF Links
      <4>3. ASSUME NEW j \in DOMAIN m_linkers', m_linkers'[i][1] = m_linkers'[j][1]
            PROVE  i = j
        BY <1>4, <3>1, <3>2, <3>3, <4>1, <4>2, <4>3
      <4> QED
        BY <1>b, <4>1, <4>2, <4>3
    <3>4. CASE i \notin DOMAIN m_linkers
      <4>1. m_linkers'[i] = link /\ i = Len(m_linkers) + 1
        BY <3>1, <3>4
      <4>2. ASSUME NEW j \in DOMAIN m_linkers', m_linkers'[i][1] = m_linkers'[j][1]
            PROVE  i = j
        BY <1>4, <3>1, <3>2, <4>1, <4>2
      <4> QED
        BY <1>1, <1>2, <1>3, <1>b, <4>1, <4>2
    <3> QED
      BY <3>3, <3>4
  <2>2. \A n \in DOMAIN answered' :
          IsChannelRule(Requests[n]) /\ answered'[n] # "error" => Requests[n][1] \in LinkedIds'
    BY <1>7, <1>a, <1>b DEF Links
  <2>3. IsSequence(answered')
    BY <1>a, <1>b DEF Links, IsSequence
  <2> QED
    BY <1>4, <2>1, <2>2, <2>3 DEF Links, IsSequence, IsChannelRule
<1>9. ControlHolds(control)'
  BY <1>1, <1>5, <1>7, <1>b DEF ControlHolds, ControlShape, NextRequest, IsChannelRule
<1>10. RefusedForAReason'
  <2>1. ASSUME NEW n \in DOMAIN answered, ~IsChannelRule(Requests[n]), answered[n] = "error"
        PROVE  Reason(n)'
    BY <1>6, <1>a, <1>b, <1>c, <2>1, RefusedReason, ReasonStays
  <2>2. \A n \in DOMAIN answered' :
          ~IsChannelRule(Requests[n]) /\ answered'[n] = "error" => Reason(n)'
    BY <1>b, <2>1
  <2> QED
    BY <2>2 DEF RefusedForAReason, Reason, ObjectClassifiers, IsChannelRule
<1>11. BuilderFollowsClassifiers'
  BY <1>a, <1>b, <1>5 DEF BuilderFollowsClassifiers, builderVars
<1> QED
  BY <1>a, <1>b, <1>c, <1>8, <1>9, <1>10, <1>11, DefiningStays, CallingStays
  DEF IInv, Requesting

\* The default differentiation of the new channel's objects.
LEMMA DefaultStep ==
  ASSUME IInv, define_default_set \/ define_default_bind \/ define_default_ends
  PROVE  IInv'
<1>a. Defining /\ BuilderFollowsClassifiers /\ Keyed /\ ControlHolds(control)
  BY DEF IInv, Requesting
<1>b. UNCHANGED <<m_default, builderVars, m_linkers, define, call>>
  BY DEF define_default_set, define_default_bind, define_default_ends, settingVars, stageVars
<1>c. /\ m_channels = [k \in DOMAIN m_channels |-> m_channels[k]]
      /\ \A k \in DOMAIN m_channels : ChannelShape(m_channels[k])
  BY <1>a DEF Keyed, ChannelHolds
<1>d. /\ control.at \in {"set", "bind", "assign"}
      /\ IsChannelRule(control.rule) /\ control.rule[1] \in LinkedIds
      /\ control.token \in DOMAIN m_channels /\ ControlShape(control)
  BY <1>a DEF ControlHolds, define_default_set, define_default_bind, define_default_ends
<1> DEFINE k0 == control.token
           u == m_channels[k0].use
           f == m_channels[k0].func
<1>1. ASSUME control.at # "bind", Answer("ok"), UNCHANGED m_channels PROVE IInv'
  <2>1. control'.at = "idle" => BuilderFollowsClassifiers'
    BY <1>1, <1>a, <1>b DEF BuilderFollowsClassifiers, builderVars
  <2> QED
    BY <1>1, <1>a, <1>b, <1>d, <2>1, ChannelsStay, Answered
<1>2. CASE define_default_set
  <2>1. control.at = "set"
    BY <1>2 DEF define_default_set
  <2>2. CASE ~m_define_default
    BY <1>1, <1>2, <2>1, <2>2 DEF define_default_set
  <2>3. CASE m_define_default
    <3>1. /\ m_channels' = [m_channels EXCEPT ![k0].use = DefaultObjectClassifiers]
          /\ control' = [control EXCEPT !.at = "bind"]
          /\ UNCHANGED answered
      BY <1>2, <2>3 DEF define_default_set
    <3>2. /\ control'.at = "bind" /\ control'.rule = control.rule
          /\ control'.token = k0 /\ ControlShape(control')
      BY <1>d, <3>1, ControlFields DEF ControlShape
    <3> HIDE DEF k0
    <3>3. /\ DOMAIN m_channels' = DOMAIN m_channels
          /\ m_channels' = [k \in DOMAIN m_channels' |-> m_channels'[k]]
          /\ \A k \in DOMAIN m_channels :
               m_channels'[k] =
                 IF k = k0
                 THEN [tuple |-> m_channels[k].tuple, made_for |-> m_channels[k].made_for,
                       use |-> DefaultObjectClassifiers, func |-> m_channels[k].func,
                       objects |-> m_channels[k].objects]
                 ELSE m_channels[k]
      <4>1. m_channels' = [m_channels EXCEPT ![k0].use = DefaultObjectClassifiers]
        BY <3>1
      <4> QED
        BY <1>c, <4>1, UseSet, ZenonT(60)
    <3>4. Keyed' /\ TokensKept
      <4>1. DefaultObjectClassifiers \in ObjectClassifiers
        BY DEF ObjectClassifiers
      <4> QED
        BY <1>a, <3>3, <4>1, KeyedStays DEF Keyed, ChannelHolds, ChannelShape
    <3>5. BuilderFollowsClassifiers'
      BY <1>a, <1>b, <2>1, <3>2, <3>3 DEF BuilderFollowsClassifiers, builderVars, k0
    <3>6. ControlHolds(control)'
      BY <1>a, <1>b, <1>d, <3>1, <3>2, <3>3
      DEF ControlHolds, ControlShape, NextRequest, IsChannelRule, LinkedIds, k0
    <3> QED
      BY <1>b, <3>1, <3>4, <3>5, <3>6, ControlGoesOn
  <2> QED
    BY <2>2, <2>3
<1>3. CASE define_default_bind
  <2>1. /\ control.at = "bind"
        /\ m_channels' = [m_channels EXCEPT ![k0].func = u]
        /\ control' = [control EXCEPT !.at = "assign", !.old = f]
        /\ UNCHANGED answered
    BY <1>3 DEF define_default_bind
  <2>0. u \in ObjectClassifiers /\ f \in ObjectClassifiers
    BY <1>a, <1>d DEF Keyed, ChannelHolds
  <2> HIDE DEF u, f
  <2>2. /\ control'.at = "assign" /\ control'.rule = control.rule
        /\ control'.token = k0 /\ ControlShape(control') /\ control'.old = f
    <3>1. control' = [at |-> "assign", rule |-> control.rule, token |-> k0,
                      object |-> control.object, func |-> control.func, old |-> f]
      BY <1>d, <2>1, ControlFields, Zenon
    <3> QED
      BY <3>1 DEF ControlShape
  <2> HIDE DEF k0
  <2>3. /\ DOMAIN m_channels' = DOMAIN m_channels
        /\ m_channels' = [k \in DOMAIN m_channels' |-> m_channels'[k]]
        /\ \A k \in DOMAIN m_channels :
             m_channels'[k] =
               IF k = k0
               THEN [tuple |-> m_channels[k].tuple, made_for |-> m_channels[k].made_for,
                     use |-> m_channels[k].use, func |-> u,
                     objects |-> m_channels[k].objects]
               ELSE m_channels[k]
    <3>1. m_channels' = [m_channels EXCEPT ![k0].func = u]
      BY <2>1
    <3> QED
      BY <1>c, <3>1, FuncSet, ZenonT(60)
  <2>4. Keyed' /\ TokensKept
    BY <1>a, <2>0, <2>3, KeyedStays DEF Keyed, ChannelHolds, ChannelShape
  <2>5. BuilderFollowsClassifiers'
    BY <1>a, <1>b, <2>1, <2>2, <2>3 DEF BuilderFollowsClassifiers, builderVars, k0, u
  <2>6. ControlHolds(control)'
    BY <1>a, <1>b, <1>d, <2>0, <2>1, <2>2, <2>3
    DEF ControlHolds, ControlShape, NextRequest, IsChannelRule, LinkedIds, ObjectClassifiers, k0
  <2> QED
    BY <1>b, <2>1, <2>4, <2>5, <2>6, ControlGoesOn
<1>4. CASE define_default_ends
  BY <1>1, <1>4 DEF define_default_ends, stageVars
<1> QED
  BY <1>2, <1>3, <1>4

\* The link of an identifier, the only one.
LEMMA LinkOf ==
  ASSUME Links, NEW i \in DOMAIN m_linkers, NEW id, m_linkers[i][1] = id
  PROVE  get_channel_diff_token(id) = m_linkers[i][2]
<1> DEFINE linked == {j \in DOMAIN m_linkers : m_linkers[j][1] = id}
<1>1. linked = {i}
  BY DEF Links
<1>2. DOMAIN m_linkers = 1..Len(m_linkers) /\ Len(m_linkers) \in Nat
  BY Appended DEF Links
<1>3. i <= i
  BY <1>2
<1>4. (CHOOSE j \in linked : \A m \in linked : j <= m) = i
  BY <1>1, <1>3
<1>5. get_channel_diff_token(id) =
        IF linked = {} THEN NotFound
        ELSE m_linkers[CHOOSE j \in linked : \A m \in linked : j <= m][2]
  BY DEF get_channel_diff_token
<1> HIDE DEF linked
<1> QED
  BY <1>1, <1>4, <1>5

\* A token that is not the one for "not found" is of a link.
LEMMA LinkFound ==
  ASSUME Links, NEW id, get_channel_diff_token(id) # NotFound
  PROVE  \E i \in DOMAIN m_linkers :
           m_linkers[i][1] = id /\ get_channel_diff_token(id) = m_linkers[i][2]
<1>1. PICK i \in DOMAIN m_linkers : m_linkers[i][1] = id
  BY DEF get_channel_diff_token
<1> QED
  BY <1>1, LinkOf

\* The same of m_channels.
LEMMA ObjectsReplaced ==
  ASSUME Keyed, NEW k0, NEW objects,
         m_channels' = [m_channels EXCEPT ![k0].objects = objects]
  PROVE  /\ DOMAIN m_channels' = DOMAIN m_channels
         /\ m_channels' = [k \in DOMAIN m_channels' |-> m_channels'[k]]
         /\ \A k \in DOMAIN m_channels :
              m_channels'[k] =
                IF k = k0
                THEN [tuple |-> m_channels[k].tuple, made_for |-> m_channels[k].made_for,
                      use |-> m_channels[k].use, func |-> m_channels[k].func,
                      objects |-> objects]
                ELSE m_channels[k]
<1>1. /\ m_channels = [k \in DOMAIN m_channels |-> m_channels[k]]
      /\ \A k \in DOMAIN m_channels : ChannelShape(m_channels[k])
  BY DEF Keyed, ChannelHolds
<1> QED
  BY <1>1, ObjectsSet, ZenonT(60)

\* A channel's objects change: the others, and its builder, do not.
LEMMA ObjectsChange ==
  ASSUME Keyed, NEW k0 \in DOMAIN m_channels, NEW objects,
         m_channels' = [m_channels EXCEPT ![k0].objects = objects],
         \A o \in objects :
           ObjectHolds(o) /\ \A p \in objects : o.token = p.token => o = p,
         \A o \in m_channels[k0].objects : \E p \in objects : p.token = o.token
  PROVE  /\ Keyed' /\ TokensKept
         /\ DOMAIN m_channels' = DOMAIN m_channels
         /\ \A k \in DOMAIN m_channels : /\ m_channels'[k].use = m_channels[k].use
                                         /\ m_channels'[k].func = m_channels[k].func
<1>2. /\ DOMAIN m_channels' = DOMAIN m_channels
      /\ m_channels' = [k \in DOMAIN m_channels' |-> m_channels'[k]]
      /\ \A k \in DOMAIN m_channels :
           m_channels'[k] =
             IF k = k0
             THEN [tuple |-> m_channels[k].tuple, made_for |-> m_channels[k].made_for,
                   use |-> m_channels[k].use, func |-> m_channels[k].func,
                   objects |-> objects]
             ELSE m_channels[k]
  BY ObjectsReplaced, Zenon
<1>3. ASSUME NEW k \in DOMAIN m_channels'
      PROVE  ChannelHolds(k, m_channels'[k])
  <2>1. CASE k # k0
    BY <1>2, <2>1 DEF Keyed
  <2>2. CASE k = k0
    BY <1>2, <2>2 DEF Keyed, ChannelHolds, ChannelShape
  <2> QED
    BY <2>1, <2>2
<1>4. Keyed'
  BY <1>2, <1>3, KeyedIfHolds
<1>5. TokensKept
  BY <1>2 DEF TokensKept, NoneGoes
<1> QED
  BY <1>2, <1>4, <1>5

\* The control thread goes on with an object whose token it has.
LEMMA ControlInserts ==
  ASSUME ControlHolds(control), control.at \in {"object", "insert"},
         UNCHANGED <<m_linkers, answered>>, DOMAIN m_channels' = DOMAIN m_channels,
         ControlShape(control'), control'.at \in {"insert", "initialize"},
         control'.rule = control.rule, control'.token = control.token,
         control.token # NotFound, control.token \in DOMAIN m_channels,
         control'.func \in ObjectClassifiers,
         control'.object = Token(control'.func, control'.rule[3])
  PROVE  ControlHolds(control)'
<1>1. /\ NextRequest' = NextRequest
      /\ get_channel_diff_token(control.rule[1])' = get_channel_diff_token(control'.rule[1])
  BY DEF NextRequest, get_channel_diff_token
<1>2. /\ Len(answered) < Len(Requests) /\ control.rule = NextRequest
      /\ ~IsChannelRule(control.rule)
      /\ control.token = get_channel_diff_token(control.rule[1])
  BY DEF ControlHolds
<1> QED
  BY <1>1, <1>2 DEF ControlHolds, ControlShape, IsChannelRule, Token, ObjectClassifiers

\* ChannelDefault::create_enforcement_object up to its choice of the type: what is
\* refused has no channel, or a type that the stage cannot make.
LEMMA BuildObjectStep ==
  ASSUME IInv, build_object_for
  PROVE  IInv'
<1>a. /\ Defining /\ BuilderFollowsClassifiers /\ Keyed /\ Links /\ ControlHolds(control)
      /\ Requesting
  BY DEF IInv, Requesting
<1>b. /\ control.at = "object"
      /\ UNCHANGED <<m_default, builderVars, m_channels, m_linkers, define, call>>
  BY DEF build_object_for, settingVars, stageVars
<1>c. /\ ~IsChannelRule(control.rule)
      /\ control.token = get_channel_diff_token(control.rule[1]) /\ ControlShape(control)
  BY <1>a, <1>b DEF ControlHolds
<1>d. /\ Len(answered) \in Nat /\ DOMAIN answered = 1..Len(answered)
      /\ control.rule = Requests[Len(answered) + 1]
  BY <1>b, InHand
<1>1. ASSUME Answer("error"), Reason(Len(answered) + 1) PROVE IInv'
  <2>1. control'.at = "idle" => BuilderFollowsClassifiers'
    BY <1>a, <1>b DEF BuilderFollowsClassifiers, builderVars
  <2> QED
    BY <1>1, <1>a, <1>b, <2>1, ChannelsStay, Answered
<1>2. CASE control.token = NotFound \/ control.token \notin DOMAIN m_channels
  <2>1. Answer("error")
    BY <1>2 DEF build_object_for
  <2>2. CASE control.rule[1] \notin LinkedIds
    <3>1. ASSUME NEW m \in 1..(Len(answered) + 1) - 1, IsChannelRule(Requests[m]),
                 Requests[m][1] = control.rule[1]
          PROVE  answered[m] = "error"
      <4>1. m \in DOMAIN answered
        BY <1>d
      <4> QED
        BY <1>a, <2>2, <3>1, <4>1 DEF Links
    <3>2. Reason(Len(answered) + 1)
      BY <1>d, <3>1 DEF Reason
    <3> QED
      BY <1>1, <2>1, <3>2
  <2>3. CASE control.rule[1] \in LinkedIds
    <3>1. PICK i \in DOMAIN m_linkers : m_linkers[i][1] = control.rule[1]
      BY <2>3 DEF LinkedIds
    <3>3. control.token = m_linkers[i][2]
      BY <1>a, <1>c, <3>1, LinkOf
    <3>4. m_linkers[i][2] = NotFound
      BY <1>2, <1>a, <3>3 DEF Links
    <3>5. Reason(Len(answered) + 1)
      BY <1>d, <3>1, <3>4 DEF Reason
    <3> QED
      BY <1>1, <2>1, <3>5
  <2> QED
    BY <2>2, <2>3
<1>3. CASE /\ ~(control.token = NotFound \/ control.token \notin DOMAIN m_channels)
           /\ control.rule[4] \notin Supported
  <2>1. Answer("error")
    BY <1>3 DEF build_object_for
  <2>2. Reason(Len(answered) + 1)
    BY <1>3, <1>d DEF Reason
  <2> QED
    BY <1>1, <2>1, <2>2
<1>4. CASE /\ ~(control.token = NotFound \/ control.token \notin DOMAIN m_channels)
           /\ control.rule[4] \in Supported
  <2>1. PICK func \in Bound(control.token) :
          /\ control' = [control EXCEPT !.at = "insert", !.func = func,
                           !.object = Token(func, control.rule[3])]
          /\ UNCHANGED answered
    BY <1>4 DEF build_object_for
  <2>2. func \in ObjectClassifiers
    BY <1>4, <1>a, BoundToClassifiers
  <2> DEFINE object == Token(func, control.rule[3])
  <2>3. control' = [at |-> "insert", rule |-> control.rule, token |-> control.token,
                    object |-> object, func |-> func, old |-> control.old]
    <3> HIDE DEF object
    <3>1. control' = [control EXCEPT !.at = "insert", !.func = func, !.object = object]
      BY <2>1 DEF object
    <3> QED
      BY <1>c, <3>1, ControlFields, Zenon
  <2>4. /\ control'.at = "insert" /\ control'.rule = control.rule
        /\ control'.token = control.token /\ control'.func = func
        /\ control'.object = Token(func, control'.rule[3]) /\ ControlShape(control')
    BY <2>3 DEF ControlShape
  <2> HIDE DEF object
  <2>5. ControlHolds(control)'
    BY <1>4, <1>a, <1>b, <1>c, <2>1, <2>2, <2>4, ControlInserts
  <2>6. BuilderFollowsClassifiers'
    BY <1>a, <1>b, <2>4 DEF BuilderFollowsClassifiers, builderVars
  <2> QED
    BY <1>a, <1>b, <2>1, <2>5, <2>6, ChannelsStay, ControlGoesOn
<1> QED
  BY <1>2, <1>3, <1>4

\* SubmissionQueue::create_enforcement_object: the object comes under a token
\* that no other has, or is refused.
LEMMA EmplaceObjectStep ==
  ASSUME IInv, emplace_object
  PROVE  IInv'
<1>a. /\ Defining /\ BuilderFollowsClassifiers /\ Keyed /\ Links /\ ControlHolds(control)
  BY DEF IInv, Requesting
<1>b. /\ control.at = "insert"
      /\ UNCHANGED <<m_default, builderVars, m_linkers, define, call>>
  BY DEF emplace_object, settingVars
<1>c. /\ ~IsChannelRule(control.rule) /\ ControlShape(control)
      /\ control.token = get_channel_diff_token(control.rule[1])
      /\ control.token # NotFound /\ control.token \in DOMAIN m_channels
      /\ control.func \in ObjectClassifiers /\ control.object = Token(control.func, control.rule[3])
  BY <1>a, <1>b DEF ControlHolds
<1>d. /\ Len(answered) + 1 \in 1..Len(Requests)
      /\ control.rule = Requests[Len(answered) + 1]
  BY <1>b, InHand
<1> DEFINE k0 == control.token
           channel == m_channels[k0]
<1>1. CASE \E o \in channel.objects : o.token = control.object
  <2>1. Answer("error") /\ UNCHANGED m_channels
    BY <1>1 DEF emplace_object
  <2>2. PICK i \in DOMAIN m_linkers :
          m_linkers[i][1] = control.rule[1] /\ control.token = m_linkers[i][2]
    BY <1>a, <1>c, LinkFound
  <2>3. Reason(Len(answered) + 1)
    BY <1>1, <1>c, <1>d, <2>2 DEF Reason
  <2>4. control'.at = "idle" => BuilderFollowsClassifiers'
    BY <1>a, <1>b, <2>1 DEF BuilderFollowsClassifiers, builderVars
  <2> QED
    BY <1>a, <1>b, <2>1, <2>3, <2>4, ChannelsStay, Answered
<1>2. CASE ~\E o \in channel.objects : o.token = control.object
  <2> DEFINE object == [id |-> control.rule[2], pair |-> control.rule[3],
                        token |-> control.object, made_for |-> control.func,
                        capacity |-> IF control.rule[4] = "drl" THEN DefaultCapacity ELSE None]
             objects == channel.objects \cup {object}
  <2>1. /\ m_channels' = [m_channels EXCEPT ![k0].objects = objects]
        /\ \/ /\ control' = [control EXCEPT !.at = "initialize"]
              /\ UNCHANGED answered
           \/ Answer("ok")
    BY <1>2 DEF emplace_object
  <2>2. ObjectHolds(object) /\ \A o \in channel.objects : o.token # object.token
    <3>1. DOMAIN control.rule[3] = 1..2
      BY <1>c, <1>d, InstanceAssumption DEF InstanceAssumption, IsChannelRule
    <3> HIDE DEF channel
    <3> QED
      BY <1>2, <1>c, <3>1 DEF ObjectHolds, ObjectShape
  <2>3. \A o \in objects : o \in channel.objects \/ o = object
    OBVIOUS
  <2>4. \A o \in channel.objects : o \in objects
    OBVIOUS
  <2> HIDE DEF objects, object
  <2>5. \A p \in channel.objects :
          ObjectHolds(p) /\ \A q \in channel.objects : p.token = q.token => p = q
    BY <1>a, <1>c DEF Keyed, ChannelHolds
  <2>6. \A o \in objects :
          ObjectHolds(o) /\ \A p \in objects : o.token = p.token => o = p
    <3> HIDE DEF channel
    <3> QED
      BY <2>2, <2>3, <2>5
  <2>7. /\ Keyed' /\ TokensKept /\ DOMAIN m_channels' = DOMAIN m_channels
        /\ \A k \in DOMAIN m_channels : /\ m_channels'[k].use = m_channels[k].use
                                        /\ m_channels'[k].func = m_channels[k].func
    <3>1. k0 \in DOMAIN m_channels /\ m_channels' = [m_channels EXCEPT ![k0].objects = objects]
      BY <1>c, <2>1
    <3>2. \A o \in m_channels[k0].objects : \E p \in objects : p.token = o.token
      BY <2>4
    <3> HIDE DEF k0
    <3> QED
      BY <1>a, <2>6, <3>1, <3>2, ObjectsChange
  <2>8. CASE Answer("ok")
    <3>1. control'.at = "idle" => BuilderFollowsClassifiers'
      BY <1>a, <1>b, <2>7 DEF BuilderFollowsClassifiers, builderVars
    <3> QED
      BY <1>b, <1>c, <2>7, <2>8, <3>1, Answered
  <2>9. CASE control' = [control EXCEPT !.at = "initialize"] /\ UNCHANGED answered
    <3>1. /\ control'.at = "initialize" /\ control'.rule = control.rule
          /\ control'.token = control.token /\ control'.func = control.func
          /\ control'.object = control.object /\ ControlShape(control')
      BY <1>c, <2>9, ControlFields DEF ControlShape
    <3>2. ControlHolds(control)'
      BY <1>a, <1>b, <1>c, <2>7, <2>9, <3>1, ControlInserts
    <3>3. BuilderFollowsClassifiers'
      BY <1>a, <1>b, <2>7, <3>1 DEF BuilderFollowsClassifiers, builderVars
    <3> QED
      BY <1>b, <2>7, <2>9, <3>2, <3>3, ControlGoesOn
  <2> QED
    BY <2>1, <2>8, <2>9
<1> QED
  BY <1>1, <1>2

\* The initial configuration of the object.
LEMMA InitializeStep ==
  ASSUME IInv, initialize_object
  PROVE  IInv'
<1>a. BuilderFollowsClassifiers /\ Keyed /\ ControlHolds(control)
  BY DEF IInv, Requesting
<1> DEFINE k0 == control.token
           old == m_channels[k0].objects
           set(o) == IF o.token = control.object THEN [o EXCEPT !.capacity = control.rule[5]]
                     ELSE o
           objects == {set(o) : o \in old}
<1>b. /\ control.at = "initialize"
      /\ m_channels' = [m_channels EXCEPT ![k0].objects = objects]
      /\ Answer("ok")
      /\ UNCHANGED <<m_default, builderVars, m_linkers, define, call>>
  BY DEF initialize_object, settingVars
<1>c. ~IsChannelRule(control.rule) /\ control.token \in DOMAIN m_channels
  BY <1>a, <1>b DEF ControlHolds
<1>1. \A o \in old : ObjectHolds(o) /\ \A p \in old : o.token = p.token => o = p
  BY <1>a, <1>c DEF Keyed, ChannelHolds
<1> HIDE DEF old
<1>2. ASSUME NEW o \in old
      PROVE  ObjectHolds(set(o)) /\ set(o).token = o.token
  <2>1. ObjectShape(o) /\ ObjectHolds(o)
    BY <1>1 DEF ObjectHolds
  <2>2. CASE o.token = control.object
    <3>1. set(o) = [id |-> o.id, pair |-> o.pair, token |-> o.token, made_for |-> o.made_for,
                    capacity |-> control.rule[5]]
      BY <2>1, <2>2 DEF ObjectShape
    <3> HIDE DEF set
    <3> QED
      BY <2>1, <3>1 DEF ObjectHolds, ObjectShape
  <2>3. CASE o.token # control.object
    BY <2>1, <2>3
  <2> QED
    BY <2>2, <2>3
<1> HIDE DEF set
<1>3. \A o \in objects : ObjectHolds(o) /\ \A p \in objects : o.token = p.token => o = p
  BY <1>1, <1>2
<1>4. \A o \in old : \E p \in objects : p.token = o.token
  BY <1>2
<1> HIDE DEF objects
<1>5. /\ Keyed' /\ TokensKept /\ DOMAIN m_channels' = DOMAIN m_channels
      /\ \A k \in DOMAIN m_channels : /\ m_channels'[k].use = m_channels[k].use
                                      /\ m_channels'[k].func = m_channels[k].func
  <2>1. \A o \in m_channels[k0].objects : \E p \in objects : p.token = o.token
    BY <1>4 DEF old
  <2>2. k0 \in DOMAIN m_channels /\ m_channels' = [m_channels EXCEPT ![k0].objects = objects]
    BY <1>b, <1>c
  <2> HIDE DEF k0
  <2> QED
    BY <1>3, <1>a, <2>1, <2>2, ObjectsChange, Zenon
<1>6. control'.at = "idle" => BuilderFollowsClassifiers'
  BY <1>5, <1>a, <1>b DEF BuilderFollowsClassifiers, builderVars
<1> QED
  BY <1>5, <1>6, <1>b, <1>c, Answered

\* Every step of the control thread.
LEMMA ControlStep ==
  ASSUME IInv, Control
  PROVE  IInv'
<1>1. CASE /\ Len(answered) < Len(Requests)
           /\ IF IsChannelRule(NextRequest) THEN create_channel(NextRequest)
              ELSE create_enforcement_object(NextRequest)
  BY <1>1, BeginStep
<1> QED
  BY <1>1, EmplaceStep, LinkStep, DefaultStep, BuildObjectStep, EmplaceObjectStep,
     InitializeStep DEF Control

-----------------------------------------------------------------------------
(* The setters of the instance and of the stage.                           *)

\* Defaults and flags: calls in progress keep what they read.
LEMMA SettersStep ==
  ASSUME IInv, Setters
  PROVE  IInv'
<1>a. Defining /\ BuilderFollowsClassifiers /\ Keyed /\ Requesting /\ RefusedForAReason /\ Calling
  BY DEF IInv
<1>b. /\ UNCHANGED <<builderVars, m_channels, m_linkers, control, answered, define, call>>
      /\ DOMAIN m_default' = DOMAIN m_default
  BY DEF Setters, SetDefault, set_io_transformation, set_default_object_differentiation,
         MarkReady, stageVars, controlVars, settingVars
<1>1. Keyed' /\ TokensKept /\ NoneGoes
  BY <1>a, <1>b, ChannelsStay DEF TokensKept
<1>2. Calling'
  <2>1. \A t \in Threads : CallHolds(call[t])'
    BY <1>a, <1>b DEF Calling, CallHolds, CallShape, CallFields, Token, ObjectClassifiers,
         ChannelClassifiers, AsEnforced
  <2> QED
    BY <1>a, <1>b, <2>1 DEF Calling
<1> QED
  BY <1>a, <1>b, <1>1, <1>2, DefiningStays, BuildersStay, RequestingStays, RefusedStays
  DEF IInv, controlVars, Requesting

-----------------------------------------------------------------------------
(* The calls.                                                              *)

\* A call goes on alone.
LEMMA CallGoesOn ==
  ASSUME Calling, CallOnly, NEW t \in Threads, NEW c, CallHolds(c),
         call' = [call EXCEPT ![t] = c]
  PROVE  Calling'
<1>1. call' = [u \in Threads |-> call'[u]]
  BY DEF Calling
<1>2. \A u \in Threads : call'[u] = IF u = t THEN c ELSE call[u]
  BY DEF Calling
<1>3. \A u \in Threads : CallHolds(call'[u])
  BY <1>2 DEF Calling
<1>4. UNCHANGED <<m_default, m_channels>>
  BY DEF CallOnly, settingVars, stageVars
<1>5. \A u \in Threads : CallHolds(call[u])'
  BY <1>3, <1>4 DEF CallHolds, CallShape, CallFields, Token, ObjectClassifiers,
       ChannelClassifiers, AsEnforced
<1>6. DOMAIN m_default' = 1..3
  BY <1>4 DEF Calling
<1> QED
  BY <1>1, <1>5, <1>6 DEF Calling

\* What a call other than a write keeps when it returns.
LEMMA CallReturned ==
  ASSUME Calling, CallOnly, NEW t \in Threads, NEW touched, NEW bytes,
         Returns(t, touched, bytes), call[t].op \notin Writes
  PROVE  Calling'
<1> DEFINE c == [NoCall EXCEPT !.at = "done", !.op = call[t].op, !.count = call[t].count,
                   !.touched = touched, !.bytes = bytes]
<1>1. call' = [call EXCEPT ![t] = c]
  BY DEF Returns
<1>2. CallShape(c) /\ c.at = "done" /\ c.op = call[t].op /\ c.success = FALSE
  BY DEF NoCall, CallShape, CallFields
<1> HIDE DEF c
<1>3. CallHolds(c)
  BY <1>2 DEF CallHolds
<1> QED
  BY <1>1, <1>3, CallGoesOn

\* And a write.
LEMMA WriteReturned ==
  ASSUME Calling, CallOnly, NEW t \in Threads, NEW touched, NEW from, NEW bytes,
         WriteReturns(t, touched, from, bytes),
         touched <=> call[t].channel # None,
         touched /\ call[t].flag = m_has_io_transformation =>
           /\ bytes = call[t].count
           /\ from = IF call[t].flag THEN "result" ELSE "buffer"
  PROVE  Calling'
<1> DEFINE c == [NoCall EXCEPT !.at = "done", !.op = call[t].op, !.count = call[t].count,
                   !.flag = call[t].flag, !.flag_again = m_has_io_transformation,
                   !.channel = call[t].channel, !.touched = touched, !.from = from,
                   !.bytes = bytes]
<1>1. call' = [call EXCEPT ![t] = c]
  BY DEF WriteReturns
<1>2. /\ CallShape(c) /\ c.at = "done" /\ c.op = call[t].op /\ c.count = call[t].count
      /\ c.flag = call[t].flag /\ c.flag_again = m_has_io_transformation
      /\ c.channel = call[t].channel /\ c.success = FALSE
      /\ c.touched = touched /\ c.from = from /\ c.bytes = bytes
  BY DEF NoCall, CallShape, CallFields
<1> HIDE DEF c
<1>3. CallHolds(c)
  BY <1>2 DEF CallHolds, AsEnforced
<1> QED
  BY <1>1, <1>3, CallGoesOn

\* Every step of a call.
LEMMA ApplicationStep ==
  ASSUME IInv, NEW t \in Threads, Application(t)
  PROVE  IInv'
<1>a. Defining /\ BuilderFollowsClassifiers /\ Keyed /\ Requesting /\ RefusedForAReason /\ Calling
  BY DEF IInv
<1>b. CallOnly
  BY DEF Application, Call, Bypass, Continue, build_context_object, ReadWorkflow, ReadContext,
         ReadFlag, FileRead, Enforce, BuildToken, SelectChannel, build_object_token,
         enforce_mechanism, WriteResult, ReadResult, BaseResult
<1>c. CallHolds(call[t]) /\ CallShape(call[t]) /\ call = [u \in Threads |-> call[u]]
  BY <1>a DEF Calling, CallHolds
<1>1. ASSUME Calling' PROVE IInv'
  <2>1. UNCHANGED <<builderVars, m_channels, m_linkers, control, answered, define>>
    BY <1>b DEF CallOnly, stageVars, controlVars
  <2>2. Keyed' /\ TokensKept /\ NoneGoes
    BY <1>a, <2>1, ChannelsStay DEF TokensKept
  <2> QED
    BY <1>1, <1>a, <2>1, <2>2, DefiningStays, BuildersStay, RequestingStays, RefusedStays
    DEF IInv, controlVars, Requesting
<1>2. ASSUME NEW op \in Operations \ Bypassing, NEW count \in Counts,
             NEW given \in GivenContexts \cup {None}, Call(t, op, count, given)
      PROVE  Calling'
  <2> DEFINE at == IF given # None THEN "flag"
                   ELSE IF op \in Writes \cup Reads THEN "workflow" ELSE "snapshot"
             context == IF given = None THEN <<None, op, None>> ELSE given
             c == [NoCall EXCEPT !.op = op, !.count = count, !.context = context, !.at = at]
  <2>1. call' = [call EXCEPT ![t] = c]
    BY <1>2 DEF Call
  <2>2. DOMAIN context = 1..3
    BY InstanceAssumption DEF InstanceAssumption
  <2>3. at \in {"flag", "workflow", "snapshot"}
    OBVIOUS
  <2> HIDE DEF at, context
  <2>4. CallShape(c) /\ c.at = at /\ c.context = context /\ c.success = FALSE
    BY DEF CallShape, CallFields, NoCall
  <2> HIDE DEF c
  <2>5. CallHolds(c)
    BY <2>2, <2>3, <2>4 DEF CallHolds
  <2> QED
    BY <1>a, <1>b, <2>1, <2>5, CallGoesOn
<1>3. ASSUME NEW op \in Operations \cap Bypassing, Bypass(t, op) PROVE Calling'
  <2> DEFINE c == [NoCall EXCEPT !.op = op, !.at = "done", !.touched = TRUE]
  <2>1. call' = [call EXCEPT ![t] = c]
    BY <1>3 DEF Bypass
  <2>2. op \notin Writes
    BY DEF Writes, Bypassing
  <2>3. CallShape(c) /\ c.at = "done" /\ c.op = op /\ c.success = FALSE
    BY DEF CallShape, CallFields, NoCall
  <2> HIDE DEF c
  <2>4. CallHolds(c)
    BY <2>2, <2>3 DEF CallHolds
  <2> QED
    BY <1>a, <1>b, <2>1, <2>4, CallGoesOn
<1>4. ASSUME build_context_object(t) PROVE Calling'
  <2> DEFINE c == [call[t] EXCEPT !.context = m_default, !.at = "flag"]
  <2>1. call' = [call EXCEPT ![t] = c]
    BY <1>4, <1>c DEF build_context_object
  <2>2. CallShape(c) /\ c.at = "flag" /\ c.context = m_default /\ c.success = call[t].success
    BY <1>c DEF CallShape, CallFields
  <2> HIDE DEF c
  <2>3. CallHolds(c)
    BY <1>4, <1>a, <1>c, <2>2 DEF CallHolds, Calling, build_context_object
  <2> QED
    BY <1>a, <1>b, <2>1, <2>3, CallGoesOn
<1>5. ASSUME ReadWorkflow(t) PROVE Calling'
  <2> DEFINE context == [call[t].context EXCEPT ![1] = m_default[1]]
             c == [call[t] EXCEPT !.context = context, !.at = "context"]
  <2>1. call' = [call EXCEPT ![t] = c]
    BY <1>5, <1>c DEF ReadWorkflow
  <2>2. DOMAIN context = 1..3
    BY <1>5, <1>c DEF CallHolds, ReadWorkflow
  <2> HIDE DEF context
  <2>3. CallShape(c) /\ c.at = "context" /\ c.context = context /\ c.success = call[t].success
    BY <1>c DEF CallShape, CallFields
  <2> HIDE DEF c
  <2>4. CallHolds(c)
    BY <1>5, <1>c, <2>2, <2>3 DEF CallHolds, ReadWorkflow
  <2> QED
    BY <1>a, <1>b, <2>1, <2>4, CallGoesOn
<1>6. ASSUME ReadContext(t) PROVE Calling'
  <2> DEFINE context == [call[t].context EXCEPT ![3] = m_default[3]]
             c == [call[t] EXCEPT !.context = context, !.at = "flag"]
  <2>1. call' = [call EXCEPT ![t] = c]
    BY <1>6, <1>c DEF ReadContext
  <2>2. DOMAIN context = 1..3
    BY <1>6, <1>c DEF CallHolds, ReadContext
  <2> HIDE DEF context
  <2>3. CallShape(c) /\ c.at = "flag" /\ c.context = context /\ c.success = call[t].success
    BY <1>c DEF CallShape, CallFields
  <2> HIDE DEF c
  <2>4. CallHolds(c)
    BY <1>6, <1>c, <2>2, <2>3 DEF CallHolds, ReadContext
  <2> QED
    BY <1>a, <1>b, <2>1, <2>4, CallGoesOn
<1>7. ASSUME ReadFlag(t) PROVE Calling'
  <2>1. PICK flag : call' = [call EXCEPT ![t].flag = flag,
                               ![t].at = IF flag /\ call[t].op \in Reads THEN "file_read"
                                         ELSE "enforce"]
    BY <1>7 DEF ReadFlag
  <2> DEFINE at == IF flag /\ call[t].op \in Reads THEN "file_read" ELSE "enforce"
             c == [call[t] EXCEPT !.flag = flag, !.at = at]
  <2>2. call' = [call EXCEPT ![t] = c]
    BY <1>c, <2>1
  <2>3. at = "enforce" \/ (at = "file_read" /\ call[t].op \in Reads)
    OBVIOUS
  <2> HIDE DEF at
  <2>4. /\ CallShape(c) /\ c.at = at /\ c.context = call[t].context /\ c.op = call[t].op /\ c.success = call[t].success
    BY <1>c DEF CallShape, CallFields
  <2> HIDE DEF c
  <2>5. DOMAIN c.context = 1..3
    BY <1>7, <1>c, <2>4 DEF CallHolds, ReadFlag
  <2>6. CallHolds(c)
    BY <1>7, <1>c, <2>3, <2>4, <2>5 DEF CallHolds, ReadFlag
  <2> QED
    BY <1>a, <1>b, <2>2, <2>6, CallGoesOn
<1>8. ASSUME FileRead(t) PROVE Calling'
  <2>1. call[t].at = "file_read" /\ call[t].op \in Reads /\ call[t].op \notin Writes
    BY <1>8, <1>c DEF FileRead, CallHolds, Reads, Writes
  <2>2. PICK n : IF n > 0
                   THEN call' = [call EXCEPT ![t].touched = TRUE, ![t].bytes = n,
                                   ![t].at = "enforce"]
                   ELSE Returns(t, TRUE, n)
    BY <1>8 DEF FileRead
  <2>3. CASE n > 0
    <3> DEFINE c == [call[t] EXCEPT !.touched = TRUE, !.bytes = n, !.at = "enforce"]
    <3>1. call' = [call EXCEPT ![t] = c]
      BY <1>c, <2>2, <2>3
    <3>2. CallShape(c) /\ c.at = "enforce" /\ c.context = call[t].context /\ c.success = call[t].success
      BY <1>c DEF CallShape, CallFields
    <3> HIDE DEF c
    <3>3. CallHolds(c)
      BY <1>c, <2>1, <3>2 DEF CallHolds
    <3> QED
      BY <1>a, <1>b, <3>1, <3>3, CallGoesOn
  <2>4. CASE ~(n > 0)
    BY <1>a, <1>b, <2>1, <2>2, <2>4, CallReturned
  <2> QED
    BY <2>3, <2>4
<1>9. ASSUME Enforce(t) PROVE Calling'
  <2> DEFINE c == [call[t] EXCEPT !.at = "token"]
  <2>1. call[t].at = "enforce" /\ call' = [call EXCEPT ![t] = c]
    BY <1>9, <1>c DEF Enforce, Goes
  <2>2. CallShape(c) /\ c.at = "token" /\ c.context = call[t].context /\ c.success = call[t].success
    BY <1>c DEF CallShape, CallFields
  <2> HIDE DEF c
  <2>3. CallHolds(c)
    BY <1>c, <2>1, <2>2 DEF CallHolds
  <2> QED
    BY <1>a, <1>b, <2>1, <2>3, CallGoesOn
<1>10. ASSUME BuildToken(t) PROVE Calling'
  <2>1. PICK func \in Bound(None) :
          call' = [call EXCEPT ![t].func = func, ![t].at = "select",
                               ![t].channel = Token(func, call[t].context)]
    BY <1>10 DEF BuildToken
  <2> DEFINE channel == Token(func, call[t].context)
             c == [call[t] EXCEPT !.func = func, !.at = "select", !.channel = channel]
  <2>2. call[t].at = "token" /\ call' = [call EXCEPT ![t] = c]
    BY <1>10, <1>c, <2>1 DEF BuildToken
  <2>3. func \in ChannelClassifiers
    BY <1>a, BoundToClassifiers
  <2>4. channel = Token(func, call[t].context)
    OBVIOUS
  <2> HIDE DEF channel
  <2>5. /\ CallShape(c) /\ c.at = "select" /\ c.channel = channel /\ c.func = func
        /\ c.context = call[t].context /\ c.success = call[t].success
    BY <1>c DEF CallShape, CallFields
  <2> HIDE DEF c
  <2>6. CallHolds(c)
    BY <1>c, <2>2, <2>3, <2>4, <2>5 DEF CallHolds
  <2> QED
    BY <1>a, <1>b, <2>2, <2>6, CallGoesOn
<1>16. ASSUME SelectChannel(t) PROVE Calling'
  <2> DEFINE found == call[t].channel \in DOMAIN m_channels
             channel == IF found THEN call[t].channel ELSE None
             at == IF found THEN "object_token" ELSE "result"
             c == [call[t] EXCEPT !.channel = channel, !.at = at]
  <2>1. call[t].at = "select" /\ call' = [call EXCEPT ![t] = c]
    BY <1>16, <1>c DEF SelectChannel
  <2>2. \/ at = "result" /\ channel = None
        \/ at = "object_token" /\ channel \in DOMAIN m_channels
    OBVIOUS
  <2> HIDE DEF at, channel
  <2>3. /\ CallShape(c) /\ c.at = at /\ c.channel = channel /\ c.context = call[t].context
        /\ c.op = call[t].op /\ c.flag = call[t].flag /\ c.success = call[t].success
        /\ c.content = call[t].content /\ c.count = call[t].count
    BY <1>c DEF CallShape, CallFields
  <2> HIDE DEF c
  <2>4. call[t].success => FALSE
    BY <1>c, <2>1 DEF CallHolds
  <2>5. CallHolds(c)
    BY <1>c, <2>1, <2>2, <2>3, <2>4 DEF CallHolds
  <2> QED
    BY <1>a, <1>b, <2>1, <2>5, CallGoesOn
<1>11. ASSUME build_object_token(t) PROVE Calling'
  <2>1. PICK func \in Bound(call[t].channel) :
          call' = [call EXCEPT ![t].object_func = func,
                     ![t].object = Token(func, <<call[t].context[2], call[t].context[3]>>),
                     ![t].at = "object"]
    BY <1>11 DEF build_object_token
  <2> DEFINE object == Token(func, <<call[t].context[2], call[t].context[3]>>)
             c == [call[t] EXCEPT !.object_func = func, !.object = object, !.at = "object"]
  <2>2. call[t].at = "object_token" /\ call' = [call EXCEPT ![t] = c]
    BY <1>11, <1>c, <2>1 DEF build_object_token
  <2>3. call[t].channel \in DOMAIN m_channels /\ DOMAIN call[t].context = 1..3
    BY <1>c, <2>2 DEF CallHolds
  <2>4. func \in ObjectClassifiers
    BY <1>a, <2>3, BoundToClassifiers
  <2>5. object = Token(func, <<call[t].context[2], call[t].context[3]>>)
    OBVIOUS
  <2> HIDE DEF object
  <2>6. /\ CallShape(c) /\ c.at = "object" /\ c.object_func = func /\ c.object = object
        /\ c.channel = call[t].channel /\ c.context = call[t].context
        /\ c.success = call[t].success
    BY <1>c DEF CallShape, CallFields
  <2> HIDE DEF c
  <2>7. CallHolds(c)
    BY <1>c, <2>2, <2>3, <2>4, <2>5, <2>6 DEF CallHolds
  <2> QED
    BY <1>a, <1>b, <2>2, <2>7, CallGoesOn
<1>12. ASSUME enforce_mechanism(t) PROVE Calling'
  <2>1. call[t].at = "object" /\ call[t].channel \in DOMAIN m_channels
    BY <1>12, <1>c DEF enforce_mechanism, CallHolds
  <2>2. call[t].channel # None /\ ~call[t].success
    BY <1>a, <1>c, <2>1 DEF Keyed, ChannelHolds, CallHolds
  <2> DEFINE read == IF call[t].op \in Reads THEN call[t].bytes ELSE call[t].count
             content == IF call[t].flag THEN read ELSE 0
  <2>3. PICK object :
          \/ call' = [call EXCEPT ![t].object = object, ![t].at = "looping"]
          \/ call' = [call EXCEPT ![t].success = TRUE, ![t].object = object,
                        ![t].content = content, ![t].at = "result"]
    BY <1>12 DEF enforce_mechanism
  <2>4. (call[t].op \in Writes /\ call[t].flag) => content = call[t].count
    BY DEF Reads, Writes
  <2> HIDE DEF content
  <2>5. CASE call' = [call EXCEPT ![t].object = object, ![t].at = "looping"]
    <3> DEFINE c == [call[t] EXCEPT !.object = object, !.at = "looping"]
    <3>1. call' = [call EXCEPT ![t] = c]
      BY <1>c, <2>5
    <3>2. CallShape(c) /\ c.at = "looping" /\ c.success = call[t].success
      BY <1>c DEF CallShape, CallFields
    <3> HIDE DEF c
    <3>3. CallHolds(c)
      BY <2>2, <3>2 DEF CallHolds
    <3> QED
      BY <1>a, <1>b, <3>1, <3>3, CallGoesOn
  <2>6. CASE call' = [call EXCEPT ![t].success = TRUE, ![t].object = object,
                        ![t].content = content, ![t].at = "result"]
    <3> DEFINE c == [call[t] EXCEPT !.success = TRUE, !.object = object, !.content = content,
                                    !.at = "result"]
    <3>1. call' = [call EXCEPT ![t] = c]
      BY <1>c, <2>6
    <3>2. /\ CallShape(c) /\ c.at = "result" /\ c.content = content /\ c.op = call[t].op
          /\ c.flag = call[t].flag /\ c.count = call[t].count /\ c.success = TRUE
          /\ c.channel = call[t].channel
      BY <1>c DEF CallShape, CallFields
    <3> HIDE DEF c
    <3>3. CallHolds(c)
      BY <2>2, <2>4, <3>2 DEF CallHolds
    <3> QED
      BY <1>a, <1>b, <3>1, <3>3, CallGoesOn
  <2> QED
    BY <2>3, <2>5, <2>6
<1>13. ASSUME WriteResult(t) PROVE Calling'
  <2>1. /\ call[t].at = "result" /\ call[t].op \in Writes
        /\ call[t].success <=> call[t].channel # None
        /\ call[t].success /\ call[t].flag => call[t].content = call[t].count
    BY <1>13, <1>c DEF WriteResult, CallHolds
  <2>2. CASE ~call[t].success
    BY <1>13, <1>a, <1>b, <2>1, <2>2, WriteReturned DEF WriteResult
  <2>3. CASE call[t].success /\ m_has_io_transformation
    <3>1. WriteReturns(t, TRUE, "result", call[t].content)
      BY <1>13, <2>3 DEF WriteResult
    <3> QED
      BY <1>a, <1>b, <2>1, <2>3, <3>1, WriteReturned
  <2>4. CASE call[t].success /\ ~m_has_io_transformation
    <3>1. WriteReturns(t, TRUE, "buffer", call[t].count)
      BY <1>13, <2>4 DEF WriteResult
    <3> QED
      BY <1>a, <1>b, <2>1, <2>4, <3>1, WriteReturned
  <2> QED
    BY <2>2, <2>3, <2>4
<1>14. ASSUME ReadResult(t) PROVE Calling'
  <2>1. call[t].op \notin Writes
    BY <1>14 DEF ReadResult, Reads, Writes
  <2>2. PICK n : Returns(t, TRUE, n)
    BY <1>14 DEF ReadResult
  <2> QED
    BY <1>a, <1>b, <2>1, <2>2, CallReturned
<1>15. ASSUME BaseResult(t) PROVE Calling'
  <2>1. call[t].op \notin Writes
    BY <1>15 DEF BaseResult, Raw, Writes
  <2>2. PICK n : Returns(t, FALSE, n)
    BY <1>15 DEF BaseResult
  <2> QED
    BY <1>a, <1>b, <2>1, <2>2, CallReturned
<1> QED
  BY <1>1, <1>2, <1>3, <1>4, <1>5, <1>6, <1>7, <1>8, <1>9, <1>10, <1>11, <1>12, <1>13,
     <1>14, <1>15, <1>16 DEF Application, Continue

-----------------------------------------------------------------------------
(* The theorems.                                                           *)

\* A call leaves the critical section it is in by its own step alone.
LEMMA OnlyItsOwnStep ==
  ASSUME Next, NEW t \in Threads, call = [u \in Threads |-> call[u]], CallShape(call[t])
  PROVE  /\ call[t].at = "select" /\ call'[t].at # "select" => SelectChannel(t)
         /\ call[t].at = "object" /\ call'[t].at # "object" => enforce_mechanism(t)
<1>1. CASE Control \/ Setters \/ \E d \in Definers : Definer(d)
  <2>1. UNCHANGED call
    BY <1>1 DEF Control, create_channel, emplace, create_new_channel_linker,
       define_default_set, define_default_bind, define_default_ends,
       create_enforcement_object, build_object_for, emplace_object, initialize_object,
       Setters, SetDefault, set_io_transformation, set_default_object_differentiation,
       MarkReady, Definer, Define, set_classifiers, bind_builder, Assigned
  <2> QED
    BY <2>1
<1>2. ASSUME NEW u \in Threads, Application(u), u # t
      PROVE  call'[t] = call[t]
  <2>1. \/ UNCHANGED call \/ \E c : call' = [call EXCEPT ![u] = c]
        \/ call'[t] = call[t]
    BY <1>2 DEF Application, Call, Bypass, Continue, build_context_object, ReadWorkflow,
       ReadContext, ReadFlag, FileRead, Returns, WriteReturns, Enforce, Goes, BuildToken, SelectChannel,
       build_object_token, enforce_mechanism, WriteResult, ReadResult, BaseResult
  <2> QED
    BY <1>2, <2>1
<1>3. ASSUME Application(t)
      PROVE  /\ call[t].at = "select" => SelectChannel(t)
             /\ call[t].at = "object" => enforce_mechanism(t)
  BY <1>3 DEF Application, Call, Bypass, Continue, build_context_object, ReadWorkflow,
     ReadContext, ReadFlag, FileRead, Enforce, build_object_token, BuildToken,
     SelectChannel, enforce_mechanism, WriteResult, ReadResult, BaseResult
<1> QED
  BY <1>1, <1>2, <1>3 DEF Next

\* Every step of any thread keeps the invariant.
LEMMA EveryStep ==
  ASSUME IInv, [Next]_vars
  PROVE  IInv'
<1>1. CASE UNCHANGED vars
  <2>1. UNCHANGED <<m_default, builderVars, m_channels, m_linkers, controlVars, answered,
                    control, define, call>>
    BY <1>1 DEF vars, settingVars, stageVars, controlVars
  <2>2. Keyed' /\ TokensKept /\ NoneGoes
    BY <2>1, ChannelsStay DEF IInv, TokensKept
  <2> QED
    BY <2>1, <2>2, DefiningStays, BuildersStay, RequestingStays, RefusedStays, CallingStays
    DEF IInv, Requesting
<1> QED
  BY <1>1, ApplicationStep, DefinerStep, ControlStep, SettersStep DEF Next

\* The strengthened invariant holds in every reachable state.
LEMMA Invariance == Spec => []IInv
<1>1. Init => IInv
  BY InitIInv
<1>2. IInv /\ [Next]_vars => IInv'
  BY EveryStep
<1> QED
  BY <1>1, <1>2, PTL DEF Spec

\* Once no thread is between set_classifiers and bind_builder, a builder is bound
\* to the classifiers that are set, however many threads define at once.
THEOREM BuildersAreBound == Spec => []BuilderFollowsClassifiers
<1>1. IInv => BuilderFollowsClassifiers
  BY DEF IInv
<1> QED
  BY <1>1, Invariance, PTL

\* A write touches the file if and only if a channel was found for it, which
\* enforced it; and with the content of the Result, or of the caller's buffer, as
\* it was enforced, unless the transformation was switched during the call.
THEOREM WritesAreEnforced == Spec => []WrittenAsEnforced
<1>1. IInv => WrittenAsEnforced
  BY DEF IInv, Calling, CallHolds, WrittenAsEnforced
<1> QED
  BY <1>1, Invariance, PTL

\* create_enforcement_object refuses an object of an existing channel only if the
\* stage cannot make its type, its token is taken or the channel has the token
\* 2^32-1.
THEOREM RefusalsHaveReasons == Spec => []RefusedForAReason
<1>1. IInv => RefusedForAReason
  BY DEF IInv
<1> QED
  BY <1>1, Invariance, PTL

\* A request takes the channel, and in it the object, that agrees with it on the
\* classifiers both tokens were built for: for any hash.
THEOREM RequestsAreRouted == Spec => RoutedByClassifiers
<1>1. ASSUME IInv, Next, NEW t \in Threads
      PROVE  RoutesByClassifiers(t)
  <2>a. Keyed /\ Defining /\ CallHolds(call[t]) /\ call = [u \in Threads |-> call[u]]
    BY <1>1 DEF IInv, Calling
  <2>b. CallShape(call[t])
    BY <2>a DEF CallHolds
  <2>1. ASSUME call[t].at = "select", call'[t].at # "select",
               NEW k \in DOMAIN m_channels, m_channels[k].made_for = call[t].func,
               Agree(call[t].func, m_channels[k].tuple, call[t].context)
        PROVE  call'[t].channel = k
    <3>1. SelectChannel(t)
      BY <1>1, <2>1, <2>a, <2>b, OnlyItsOwnStep
    <3>2. k = Token(call[t].func, m_channels[k].tuple)
      BY <2>1, <2>a DEF Keyed, ChannelHolds
    <3>3. /\ DOMAIN call[t].func = 1..3 /\ DOMAIN m_channels[k].tuple = 1..3
          /\ DOMAIN call[t].context = 1..3
          /\ call[t].channel = Token(call[t].func, call[t].context)
      BY <2>1, <2>a, ClassifierDomains DEF Keyed, ChannelHolds, CallHolds
    <3>4. call[t].channel = k
      BY <2>1, <3>2, <3>3, SameText DEF Token
    <3> DEFINE c == [call[t] EXCEPT !.channel = k, !.at = "object_token"]
    <3>5. call' = [call EXCEPT ![t] = c]
      BY <2>1, <2>a, <3>1, <3>4 DEF SelectChannel
    <3>6. c.channel = k
      BY <2>b DEF CallShape, CallFields
    <3> HIDE DEF c
    <3> QED
      BY <2>a, <3>5, <3>6
  <2>2. ASSUME call[t].at = "object", call'[t].at # "object",
               NEW o \in m_channels[call[t].channel].objects,
               o.made_for = call[t].object_func,
               Agree(o.made_for, o.pair, <<call[t].context[2], call[t].context[3]>>)
        PROVE  call'[t].object = o.id
    <3> DEFINE pair == <<call[t].context[2], call[t].context[3]>>
               k == call[t].channel
               found == {p \in m_channels[k].objects : p.token = call[t].object}
    <3>1. enforce_mechanism(t)
      BY <1>1, <2>2, <2>a, <2>b, OnlyItsOwnStep
    <3>2. /\ k \in DOMAIN m_channels /\ call[t].object = Token(call[t].object_func, pair)
          /\ call[t].object_func \in ObjectClassifiers
      BY <2>2, <2>a DEF CallHolds
    <3>3. /\ DOMAIN o.pair = 1..2 /\ o.token = Token(o.made_for, o.pair)
          /\ \A p \in m_channels[k].objects : o.token = p.token => o = p
      BY <2>2, <2>a, <3>2 DEF Keyed, ChannelHolds, ObjectHolds
    <3>4. DOMAIN pair = 1..2 /\ DOMAIN o.made_for = 1..2
      BY <2>2, <3>2, ClassifierDomains
    <3>5. Agree(o.made_for, o.pair, pair)
      BY <2>2
    <3> HIDE DEF pair
    <3>6. o.token = call[t].object
      BY <2>2, <3>2, <3>3, <3>4, <3>5, SameText DEF Token
    <3>7. found = {o}
      BY <2>2, <3>3, <3>6
    <3>8. found # {} /\ (CHOOSE p \in found : TRUE) = o
      <4> HIDE DEF found
      <4> QED
        BY <3>7
    <3> DEFINE read == IF call[t].op \in Reads THEN call[t].bytes ELSE call[t].count
               content == IF call[t].flag THEN read ELSE 0
               c1 == [call[t] EXCEPT !.object = o.id, !.at = "looping"]
               c2 == [call[t] EXCEPT !.success = TRUE, !.object = o.id, !.content = content,
                                     !.at = "result"]
    <3>9. call' = [call EXCEPT ![t] = c1] \/ call' = [call EXCEPT ![t] = c2]
      <4>1. LET obj == CHOOSE p \in found : TRUE
            IN  IF found # {} /\ obj.capacity = 0
                THEN call' = [call EXCEPT ![t].object = obj.id, ![t].at = "looping"]
                ELSE call' = [call EXCEPT ![t].success = TRUE,
                                ![t].object = IF found = {} THEN None ELSE obj.id,
                                ![t].content = content, ![t].at = "result"]
        BY <3>1 DEF enforce_mechanism
      <4> HIDE DEF found, content
      <4> QED
        BY <2>a, <3>8, <4>1
    <3> HIDE DEF content
    <3>10. c1.object = o.id /\ c2.object = o.id
      BY <2>b DEF CallShape, CallFields
    <3> HIDE DEF c1, c2
    <3> QED
      BY <2>a, <3>9, <3>10
  <2> QED
    BY <2>1, <2>2 DEF RoutesByClassifiers
<1>2. IInv /\ [Next]_vars => [\A t \in Threads : RoutesByClassifiers(t)]_vars
  BY <1>1
<1> QED
  BY <1>2, Invariance, PTL DEF Spec, RoutedByClassifiers

=============================================================================
