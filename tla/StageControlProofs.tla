-------------------------- MODULE StageControlProofs --------------------------
(***************************************************************************)
(* What the control thread installs and where requests go, for any rules,  *)
(* channels, objects and threads.                                          *)
(*                                                                         *)
(* The control thread cuts the execution of a rule into steps that data    *)
(* threads see.  Handling says what it has done of the rule in hand at     *)
(* each of them; Routing what a data thread knows between its steps.       *)
(***************************************************************************)
EXTENDS StageRefinement, FiniteSetTheorems, SequenceTheorems,
        WellFoundedInduction, TLAPS

Types ==
  /\ m_housekeeping_rules \in [Rules -> {"absent", "pending", "enforced"}]
  /\ order \in Seq(Rules)
  /\ m_channels \in [ChannelTokens -> ChannelIds \cup {None}]
  /\ m_channel_id_to_token_linkers \in Seq(ChannelIds \X ChannelTokens)
  /\ m_enf_objects \in [ChannelTokens -> Seq(Object)]
  /\ m_object_id_to_token_linkers \in [ChannelTokens -> Seq(ObjectIds \X ObjectTokens)]
  /\ control \in {"idle", "traverse", "execute", "emplace", "link_channel",
                  "link_object", "initialize", "mark"}
  /\ position \in Nat

\* An identifier has one link, a token one object.
UniqueIds(linkers) ==
  \A i, j \in DOMAIN linkers : linkers[i][1] = linkers[j][1] => i = j
UniqueTokens(objects) ==
  \A i, j \in DOMAIN objects : i # j => objects[i].token # objects[j].token

\* An object as a rule wants it.
MadeFor(o, r) ==
  o.id = Rule[r].object_id /\ o.token = Rule[r].token /\ o.type = Rule[r].type

InForce(r) ==
  /\ ChannelOf(r) # None
  /\ \E i \in DOMAIN m_enf_objects[ChannelOf(r)] :
       LET o == m_enf_objects[ChannelOf(r)][i]
       IN  /\ MadeFor(o, r)
           /\ Rule[r].configured /\ o.type = "drl" => o.settings # "default"

\* How far the rule in hand has come.
Handling ==
  /\ UniqueIds(m_channel_id_to_token_linkers)
  /\ control = "traverse" => position # 0
  /\ control \notin {"idle", "traverse"} =>
       rule \in Rules /\ m_housekeeping_rules[rule] = "pending"
  /\ control \in {"emplace", "link_channel"} =>
       /\ Rule[rule].operation = "create_channel"
       /\ ~DoesChannelIdExist(Rule[rule].channel_id)
  /\ control = "emplace" => ~DoesChannelTokenExist(Rule[rule].token)
  /\ control = "link_channel" => m_channels[Rule[rule].token] = Rule[rule].channel_id
  /\ control \in {"link_object", "initialize"} =>
       /\ Rule[rule].operation = "create_object"
       /\ ChannelOf(rule) # None
       /\ \E i \in DOMAIN m_enf_objects[ChannelOf(rule)] :
            LET o == m_enf_objects[ChannelOf(rule)][i]
            IN  /\ MadeFor(o, rule) /\ o.settings = "default"
                /\ control = "link_object" => i = Len(m_enf_objects[ChannelOf(rule)])
                /\ control = "initialize" => o.type = "drl" /\ Rule[rule].configured
  /\ control = "mark" =>
       IF Rule[rule].operation = "create_channel"
         THEN m_channels[Rule[rule].token] = Rule[rule].channel_id
         ELSE InForce(rule)

\* InstalledOnce, with the finiteness that lets the sets be counted.
Open == {k \in ChannelTokens : m_channels[k] # None}
Counting ==
  /\ IsFiniteSet(Open)
  /\ IsFiniteSet(Installed)
  /\ Cardinality(Open) = Len(DefaultChannels)
       + Cardinality(Enforced("create_channel")) + InHand("create_channel")
  /\ Cardinality(Installed) = Len(DefaultChannels) * Len(DefaultObjects)
       + Cardinality(Enforced("create_object")) + InHand("create_object")

\* The object a data thread expects, and the one it was given.
Routing ==
  \A t \in Threads :
    /\ thread[t] # "idle" =>
         request[t] \in ChannelTokens \X ObjectTokens /\ returned[t] = "none"
    /\ thread[t] = "enforce" => channel_ptr[t] = request[t][1]
    /\ (thread[t] # "idle" /\ expected[t] # 0) =>
         /\ expected[t] \in DOMAIN m_enf_objects[request[t][1]]
         /\ m_enf_objects[request[t][1]][expected[t]].token = request[t][2]
    /\ (returned[t] = "enforced" /\ channel_ptr[t] # None) =>
         \/ handler[t] = expected[t]
         \/ /\ expected[t] = 0
            /\ channel_ptr[t] \in ChannelTokens
            /\ handler[t] \in DOMAIN m_enf_objects[channel_ptr[t]]
            /\ m_enf_objects[channel_ptr[t]][handler[t]].token = request[t][2]

DataTypes ==
  /\ thread \in [Threads -> {"idle", "find", "enforce"}]
  /\ request = [t \in Threads |-> request[t]]
  /\ channel_ptr = [t \in Threads |-> channel_ptr[t]]
  /\ handler = [t \in Threads |-> handler[t]]
  /\ returned = [t \in Threads |-> returned[t]]
  /\ expected = [t \in Threads |-> expected[t]]

StageInv ==
  Types /\ Handling /\ LinkersMatchObjects /\ EnforcedMeansInstalled
DataInv == DataTypes /\ Routing
IInv == StageInv /\ Counting /\ DataInv

-----------------------------------------------------------------------------
(* The lookups.                                                            *)

\* get_channel_diff_token finds the token of a linked identifier.
LEMMA DiffTokenFound ==
  ASSUME NEW S, NEW L \in Seq(S), UniqueIds(L), NEW i \in DOMAIN L
  PROVE  GetDiffToken(L, L[i][1]) = L[i][2]
<1>1. i \in 1..Len(L) /\ DOMAIN L = 1..Len(L) /\ Len(L) \in Nat
  OBVIOUS
<1>2. \A j \in 1..i - 1 : L[j][1] # L[i][1]
  BY <1>1 DEF UniqueIds
<1>3. (CHOOSE n \in DOMAIN L : L[n][1] = L[i][1] /\ \A j \in 1..n - 1 : ~(L[j][1] = L[i][1])) = i
  BY <1>1, <1>2 DEF UniqueIds
<1>4. FirstIndex(L, LAMBDA l : l[1] = L[i][1]) = i
  BY <1>3 DEF FirstIndex
<1>5. i # 0
  BY <1>1
<1> QED
  BY <1>4, <1>5 DEF GetDiffToken

\* It finds nothing for any other.
LEMMA DiffTokenMissing ==
  ASSUME NEW L, NEW id, \A i \in DOMAIN L : L[i][1] # id
  PROVE  GetDiffToken(L, id) = None
BY DEF GetDiffToken, FirstIndex

\* select_enforcement_object finds the object of a token.
LEMMA ObjectFound ==
  ASSUME NEW S, NEW objects \in Seq(S), UniqueTokens(objects), NEW i \in DOMAIN objects
  PROVE  SelectEnforcementObject(objects, objects[i].token) = i
<1>1. i \in 1..Len(objects) /\ DOMAIN objects = 1..Len(objects) /\ Len(objects) \in Nat
  OBVIOUS
<1>2. \A j \in 1..i - 1 : objects[j].token # objects[i].token
  BY <1>1 DEF UniqueTokens
<1>3. (CHOOSE n \in DOMAIN objects :
          objects[n].token = objects[i].token
          /\ \A j \in 1..n - 1 : ~(objects[j].token = objects[i].token)) = i
  BY <1>1, <1>2 DEF UniqueTokens
<1> QED
  BY <1>3 DEF SelectEnforcementObject, FirstIndex

\* It finds none where no object has the token.
LEMMA ObjectMissing ==
  ASSUME NEW objects, NEW token, \A i \in DOMAIN objects : objects[i].token # token
  PROVE  SelectEnforcementObject(objects, token) = 0
BY DEF SelectEnforcementObject, FirstIndex

\* Either way.
LEMMA Selected ==
  ASSUME NEW S, NEW objects \in Seq(S), UniqueTokens(objects), NEW token
  PROVE  LET i == SelectEnforcementObject(objects, token)
         IN  \/ i \in DOMAIN objects /\ objects[i].token = token
             \/ i = 0 /\ \A j \in DOMAIN objects : objects[j].token # token
<1>1. CASE \E j \in DOMAIN objects : objects[j].token = token
  <2>1. PICK j \in DOMAIN objects : objects[j].token = token
    BY <1>1
  <2>2. SelectEnforcementObject(objects, token) = j
    BY <2>1, ObjectFound
  <2> QED
    BY <2>1, <2>2
<1>2. CASE ~\E j \in DOMAIN objects : objects[j].token = token
  BY <1>2, ObjectMissing
<1> QED
  BY <1>1, <1>2

\* configure_enforcement_object changes the settings of a limiter, no more.
LEMMA ConfiguredFacts ==
  ASSUME NEW objects \in Seq(Object), UniqueTokens(objects), NEW token,
         NEW settings \in {"initial", "rule"}
  PROVE  LET new == Configured(objects, token, settings)
         IN  /\ new \in Seq(Object) /\ Len(new) = Len(objects) /\ DOMAIN new = DOMAIN objects
             /\ UniqueTokens(new)
             /\ \A i \in DOMAIN objects :
                  /\ new[i].id = objects[i].id /\ new[i].token = objects[i].token
                  /\ new[i].type = objects[i].type
                  /\ new[i].settings = IF objects[i].token = token /\ objects[i].type = "drl"
                                       THEN settings ELSE objects[i].settings
<1> DEFINE n == SelectEnforcementObject(objects, token)
           new == Configured(objects, token, settings)
<1>1. \/ n \in DOMAIN objects /\ objects[n].token = token
      \/ n = 0 /\ \A j \in DOMAIN objects : objects[j].token # token
  BY Selected
<1>2. 0 \notin DOMAIN objects /\ DOMAIN objects = 1..Len(objects) /\ Len(objects) \in Nat
  OBVIOUS
<1>3. new = IF n # 0 /\ objects[n].type = "drl"
            THEN [objects EXCEPT ![n].settings = settings] ELSE objects
  BY DEF Configured
<1> HIDE DEF n, new
<1>4. CASE n # 0 /\ objects[n].type = "drl"
  <2>1. n \in DOMAIN objects /\ objects[n].token = token /\ objects[n] \in Object
    BY <1>1, <1>2, <1>4
  <2> DEFINE o == [objects[n] EXCEPT !.settings = settings]
  <2>2. /\ o \in Object /\ o.id = objects[n].id /\ o.token = objects[n].token
        /\ o.type = objects[n].type /\ o.settings = settings
    BY <2>1 DEF Object
  <2>3. new = [objects EXCEPT ![n] = o]
    BY <1>3, <1>4, <2>1
  <2> HIDE DEF o
  <2>4. /\ new \in Seq(Object) /\ Len(new) = Len(objects) /\ DOMAIN new = DOMAIN objects
        /\ \A i \in DOMAIN objects : new[i] = IF i = n THEN o ELSE objects[i]
    BY <1>2, <2>1, <2>2, <2>3
  <2>5. ASSUME NEW i \in DOMAIN objects
        PROVE  /\ new[i].id = objects[i].id /\ new[i].token = objects[i].token
               /\ new[i].type = objects[i].type
               /\ new[i].settings = IF objects[i].token = token /\ objects[i].type = "drl"
                                    THEN settings ELSE objects[i].settings
    <3>1. CASE i = n
      BY <1>4, <2>1, <2>2, <2>4, <3>1
    <3>2. CASE i # n
      BY <2>1, <2>4, <3>2 DEF UniqueTokens
    <3> QED
      BY <3>1, <3>2
  <2>6. UniqueTokens(new)
    BY <2>4, <2>5 DEF UniqueTokens
  <2> QED
    BY <2>4, <2>5, <2>6 DEF new
<1>5. CASE ~(n # 0 /\ objects[n].type = "drl")
  <2>1. new = objects
    BY <1>3, <1>5
  <2>2. \A i \in DOMAIN objects : ~(objects[i].token = token /\ objects[i].type = "drl")
    BY <1>1, <1>5 DEF UniqueTokens
  <2> QED
    BY <2>1, <2>2 DEF new
<1> QED
  BY <1>4, <1>5

\* A link for an identifier that has none: the others stay.
LEMMA LinkAdded ==
  ASSUME NEW S, NEW L \in Seq(S), NEW e \in S, UniqueIds(L),
         \A i \in DOMAIN L : L[i][1] # e[1]
  PROVE  LET new == Append(L, e)
         IN  /\ new \in Seq(S) /\ UniqueIds(new)
             /\ GetDiffToken(new, e[1]) = e[2]
             /\ \A id : id # e[1] => GetDiffToken(new, id) = GetDiffToken(L, id)
<1> DEFINE new == Append(L, e)
<1>1. /\ new \in Seq(S) /\ Len(new) = Len(L) + 1 /\ Len(L) \in Nat
      /\ DOMAIN L = 1..Len(L) /\ DOMAIN new = 1..Len(L) + 1
      /\ \A i \in 1..Len(L) : new[i] = L[i]
      /\ new[Len(L) + 1] = e
  BY AppendProperties
<1> HIDE DEF new
<1>2. UniqueIds(new)
  BY <1>1 DEF UniqueIds
<1>3. GetDiffToken(new, e[1]) = e[2]
  <2>1. Len(L) + 1 \in DOMAIN new
    BY <1>1
  <2> QED
    BY <1>1, <1>2, <2>1, DiffTokenFound
<1>4. ASSUME NEW id, id # e[1]
      PROVE  GetDiffToken(new, id) = GetDiffToken(L, id)
  <2>1. CASE \E i \in DOMAIN L : L[i][1] = id
    <3>1. PICK i \in DOMAIN L : L[i][1] = id
      BY <2>1
    <3>2. i \in DOMAIN new /\ new[i] = L[i]
      BY <1>1
    <3> QED
      BY <1>1, <1>2, <3>1, <3>2, DiffTokenFound
  <2>2. CASE ~\E i \in DOMAIN L : L[i][1] = id
    <3>1. \A i \in DOMAIN new : new[i][1] # id
      BY <1>1, <1>4, <2>2
    <3> QED
      BY <2>2, <3>1, DiffTokenMissing
  <2> QED
    BY <2>1, <2>2
<1> QED
  BY <1>1, <1>2, <1>3, <1>4 DEF new

\* An identifier without a token is not linked.
LEMMA NotLinked ==
  ASSUME NEW L \in Seq(ChannelIds \X ChannelTokens), UniqueIds(L), NEW id
  PROVE  /\ GetDiffToken(L, id) \in ChannelTokens \cup {None}
         /\ GetDiffToken(L, id) = None => \A i \in DOMAIN L : L[i][1] # id
<1>1. CASE \E i \in DOMAIN L : L[i][1] = id
  <2>1. PICK i \in DOMAIN L : L[i][1] = id
    BY <1>1
  <2>2. GetDiffToken(L, id) = L[i][2]
    BY <2>1, DiffTokenFound
  <2>3. L[i][2] \in ChannelTokens
    OBVIOUS
  <2> QED
    BY <2>2, <2>3, StageAssumption DEF StageAssumption
<1>2. CASE ~\E i \in DOMAIN L : L[i][1] = id
  BY <1>2, DiffTokenMissing
<1> QED
  BY <1>1, <1>2

\* The fields of a rule.
LEMMA RuleFields ==
  ASSUME NEW r \in Rules
  PROVE  /\ Rule[r].channel_id \in ChannelIds
         /\ Rule[r].operation \in {"create_channel", "create_object"}
         /\ Rule[r].operation = "create_channel" => Rule[r].token \in ChannelTokens
         /\ Rule[r].operation = "create_object" =>
              /\ Rule[r].token \in ObjectTokens /\ Rule[r].object_id \in ObjectIds
              /\ Rule[r].type \in {"noop", "drl", "other"}
<1>1. Rule[r] \in RuleContents
  BY StageAssumption DEF StageAssumption
<1> QED
  BY <1>1 DEF RuleContents

-----------------------------------------------------------------------------
(* What Core's constructor makes.                                          *)

\* As many channels as it was told to, each with the same objects.
LEMMA DefaultsCounted ==
  /\ IsFiniteSet(DefaultTokens) /\ Cardinality(DefaultTokens) = Len(DefaultChannels)
  /\ IsFiniteSet(DefaultTokens \X DOMAIN DefaultObjects)
  /\ Cardinality(DefaultTokens \X DOMAIN DefaultObjects)
       = Len(DefaultChannels) * Len(DefaultObjects)
<1> DEFINE N == 1..Len(DefaultChannels)
           f == [i \in N |-> DefaultChannels[i][2]]
<1>1. /\ DOMAIN DefaultChannels = N /\ Len(DefaultChannels) \in Nat
      /\ DOMAIN DefaultObjects = 1..Len(DefaultObjects) /\ Len(DefaultObjects) \in Nat
      /\ \A i, j \in N : i # j => DefaultChannels[i][2] # DefaultChannels[j][2]
  BY StageAssumption DEF StageAssumption
<1>2. DefaultTokens = {f[i] : i \in N}
  BY <1>1 DEF DefaultTokens
<1>3. f \in [N -> DefaultTokens] /\ \A t \in DefaultTokens : \E i \in N : f[i] = t
  BY <1>2
<1>4. DOMAIN f = N /\ \A i, j \in N : f[i] = f[j] => i = j
  BY <1>1
<1>5. f \in Bijection(N, DefaultTokens)
  <2> HIDE DEF f, N
  <2> QED
    BY <1>3, <1>4 DEF Bijection, Injection, Surjection, IsInjective
<1>6. ExistsBijection(N, DefaultTokens)
  BY <1>5 DEF ExistsBijection
<1>0. ASSUME NEW n \in Nat
      PROVE  IsFiniteSet(1..n) /\ Cardinality(1..n) = n
  <2>1. IsFiniteSet(1..n) /\ Cardinality(1..n) = IF 1 > n THEN 0 ELSE n - 1 + 1
    BY FS_Interval
  <2> QED
    BY <2>1
<1>7. IsFiniteSet(N) /\ Cardinality(N) = Len(DefaultChannels)
  BY <1>0, <1>1
<1>8. IsFiniteSet(DefaultTokens) /\ Cardinality(DefaultTokens) = Len(DefaultChannels)
  BY <1>6, <1>7, FS_Bijection
<1>9. /\ IsFiniteSet(DOMAIN DefaultObjects)
      /\ Cardinality(DOMAIN DefaultObjects) = Len(DefaultObjects)
  BY <1>0, <1>1
<1>10. /\ IsFiniteSet(DefaultTokens \X DOMAIN DefaultObjects)
       /\ Cardinality(DefaultTokens \X DOMAIN DefaultObjects)
          = Cardinality(DefaultTokens) * Cardinality(DOMAIN DefaultObjects)
  BY <1>8, <1>9, FS_Product
<1> QED
  BY <1>8, <1>9, <1>10

\* Core's constructor establishes the invariant.
LEMMA InitIInv == Init => IInv
<1> SUFFICES ASSUME Init PROVE IInv
  OBVIOUS
<1>1. DefaultTokens \subseteq ChannelTokens
  BY StageAssumption DEF StageAssumption, DefaultTokens
<1>2. ASSUME NEW k \in ChannelTokens
      PROVE  /\ k \in DefaultTokens => m_channels[k] \in ChannelIds
             /\ k \notin DefaultTokens => m_channels[k] = None
  <2>1. CASE k \in DefaultTokens
    <3>1. PICK n \in DOMAIN DefaultChannels : k = DefaultChannels[n][2]
      BY <2>1 DEF DefaultTokens
    <3>2. DefaultChannels[n] \in ChannelIds \X ChannelTokens
      BY StageAssumption DEF StageAssumption
    <3>3. DefaultChannels[n][1] \in ChannelIds /\ DefaultChannels[n] = <<DefaultChannels[n][1], k>>
      BY <3>1, <3>2
    <3>4. \E i \in ChannelIds : \E m \in DOMAIN DefaultChannels : DefaultChannels[m] = <<i, k>>
      BY <3>3
    <3>5. (CHOOSE i \in ChannelIds : \E m \in DOMAIN DefaultChannels : DefaultChannels[m] = <<i, k>>)
             \in ChannelIds
      BY <3>4
    <3> QED
      BY <2>1, <3>5 DEF Init
  <2>2. CASE k \notin DefaultTokens
    BY <2>2 DEF Init
  <2> QED
    BY <2>1, <2>2
<1>3. ASSUME NEW k \in ChannelTokens
      PROVE  /\ m_enf_objects[k] \in Seq(Object) /\ Len(m_enf_objects[k]) <= 1
             /\ m_enf_objects[k] = IF k \in DefaultTokens THEN DefaultObjects ELSE <<>>
             /\ Len(m_object_id_to_token_linkers[k]) = Len(m_enf_objects[k])
             /\ m_object_id_to_token_linkers[k] \in Seq(ObjectIds \X ObjectTokens)
             /\ DOMAIN m_object_id_to_token_linkers[k] = DOMAIN m_enf_objects[k]
             /\ \A i \in DOMAIN m_enf_objects[k] : m_object_id_to_token_linkers[k][i]
                  = <<m_enf_objects[k][i].id, m_enf_objects[k][i].token>>
  <2> DEFINE O == m_enf_objects[k]
             L == m_object_id_to_token_linkers[k]
  <2>1. O = IF k \in DefaultTokens THEN DefaultObjects ELSE <<>>
    BY DEF Init
  <2>2. O \in Seq(Object) /\ Len(O) <= 1
    BY <2>1, StageAssumption DEF StageAssumption
  <2>3. L = [i \in DOMAIN O |-> <<O[i].id, O[i].token>>]
    BY DEF Init
  <2> HIDE DEF O, L
  <2>4. DOMAIN O = 1..Len(O) /\ Len(O) \in Nat /\ \A i \in 1..Len(O) : O[i] \in Object
    BY <2>2
  <2>5. \A i \in 1..Len(O) : <<O[i].id, O[i].token>> \in ObjectIds \X ObjectTokens
    BY <2>4 DEF Object
  <2>6. L \in Seq(ObjectIds \X ObjectTokens) /\ Len(L) = Len(O) /\ DOMAIN L = DOMAIN O
    BY <2>3, <2>4, <2>5
  <2> QED
    BY <2>1, <2>2, <2>3, <2>6 DEF O, L
<1>4. Types
  <2>1. /\ m_channels = [k \in ChannelTokens |-> m_channels[k]]
        /\ m_enf_objects = [k \in ChannelTokens |-> m_enf_objects[k]]
        /\ m_object_id_to_token_linkers = [k \in ChannelTokens |-> m_object_id_to_token_linkers[k]]
    BY DEF Init
  <2>2. /\ m_channels \in [ChannelTokens -> ChannelIds \cup {None}]
        /\ m_enf_objects \in [ChannelTokens -> Seq(Object)]
        /\ m_object_id_to_token_linkers \in [ChannelTokens -> Seq(ObjectIds \X ObjectTokens)]
    BY <1>2, <1>3, <2>1
  <2>3. /\ m_housekeeping_rules \in [Rules -> {"absent", "pending", "enforced"}]
        /\ order \in Seq(Rules) /\ position \in Nat /\ control = "idle"
        /\ m_channel_id_to_token_linkers \in Seq(ChannelIds \X ChannelTokens)
    BY StageAssumption DEF Init, StageAssumption
  <2> QED
    BY <2>2, <2>3 DEF Types
<1>5. control = "idle" /\ \A o : Enforced(o) = {}
  BY DEF Init, Enforced
<1>6. Handling
  <2>1. UniqueIds(m_channel_id_to_token_linkers)
    BY StageAssumption DEF Init, StageAssumption, UniqueIds
  <2> QED
    BY <1>5, <2>1 DEF Handling
<1>7. LinkersMatchObjects
  <2> SUFFICES ASSUME NEW k \in ChannelTokens
               PROVE  /\ Len(m_enf_objects[k]) = Len(m_object_id_to_token_linkers[k])
                      /\ \A i \in DOMAIN m_object_id_to_token_linkers[k] :
                           m_object_id_to_token_linkers[k][i]
                             = <<m_enf_objects[k][i].id, m_enf_objects[k][i].token>>
                      /\ \A i, j \in DOMAIN m_enf_objects[k] : i = j
    <3>1. \A k \in ChannelTokens : Len(m_enf_objects[k]) \in Nat /\ Len(m_object_id_to_token_linkers[k]) \in Nat
      BY <1>4 DEF Types
    <3> QED
      BY <1>5, <3>1 DEF LinkersMatchObjects
  <2>1. DOMAIN m_enf_objects[k] \subseteq {1}
    BY <1>3
  <2> QED
    BY <1>3, <2>1
<1>8. EnforcedMeansInstalled
  BY <1>5 DEF EnforcedMeansInstalled
<1>9. Counting
  <2>1. Open = DefaultTokens
    BY <1>1, <1>2, StageAssumption DEF StageAssumption, Open
  <2>2. \A k \in ChannelTokens : DOMAIN m_enf_objects[k] =
           IF k \in DefaultTokens THEN DOMAIN DefaultObjects ELSE {}
    BY <1>3
  <2>3. Installed = DefaultTokens \X DOMAIN DefaultObjects
    BY <1>1, <2>2 DEF Installed
  <2>4. \A o : InHand(o) = 0 /\ Cardinality(Enforced(o)) = 0
    BY <1>5, FS_EmptySet DEF InHand
  <2>5. Len(DefaultChannels) \in Nat /\ Len(DefaultObjects) \in Nat
    BY StageAssumption DEF StageAssumption
  <2>6. Len(DefaultChannels) * Len(DefaultObjects) \in Nat
    BY <2>5
  <2>7. /\ Cardinality(Enforced("create_channel")) = 0 /\ InHand("create_channel") = 0
        /\ Cardinality(Enforced("create_object")) = 0 /\ InHand("create_object") = 0
    BY <2>4
  <2> QED
    BY <2>1, <2>3, <2>5, <2>6, <2>7, DefaultsCounted DEF Counting
<1>10. DataInv
  BY DEF Init, DataInv, DataTypes, Routing
<1> QED
  BY <1>4, <1>6, <1>7, <1>8, <1>9, <1>10 DEF IInv, StageInv

-----------------------------------------------------------------------------
(* Steps only add.                                                         *)

\* Links, channels and objects stay, a configuration is only replaced.
Grows ==
  /\ \A id \in ChannelIds :
       LET token == GetDiffToken(m_channel_id_to_token_linkers, id)
       IN  token # None => GetDiffToken(m_channel_id_to_token_linkers', id) = token
  /\ \A k \in ChannelTokens : m_channels[k] # None => m_channels'[k] = m_channels[k]
  /\ \A k \in ChannelTokens : \A i \in DOMAIN m_enf_objects[k] :
       /\ i \in DOMAIN m_enf_objects'[k]
       /\ m_enf_objects'[k][i].id = m_enf_objects[k][i].id
       /\ m_enf_objects'[k][i].token = m_enf_objects[k][i].token
       /\ m_enf_objects'[k][i].type = m_enf_objects[k][i].type
       /\ \/ m_enf_objects'[k][i].settings = m_enf_objects[k][i].settings
          \/ /\ m_enf_objects[k][i].settings = "default"
             /\ m_enf_objects'[k][i].settings = "initial"
          \/ m_enf_objects'[k][i].settings = "rule"

\* Where nothing changes, nothing is lost.
LEMMA UnchangedGrows ==
  UNCHANGED <<channelVars, objectVars>> => Grows
BY DEF channelVars, objectVars, Grows

\* The channel of a rule is a channel's token.
LEMMA ChannelOfType ==
  ASSUME Types, Handling, NEW r \in Rules
  PROVE  ChannelOf(r) \in ChannelTokens \cup {None}
BY NotLinked DEF Types, Handling, ChannelOf

\* A rule in force stays in force.
LEMMA StillInForce ==
  ASSUME Types, Handling, Grows, NEW r \in Rules, InForce(r)
  PROVE  InForce(r)' /\ ChannelOf(r)' = ChannelOf(r)
<1> DEFINE k == ChannelOf(r)
<1>1. k \in ChannelTokens /\ k # None
  BY ChannelOfType DEF InForce
<1>2. Rule[r].channel_id \in ChannelIds
  BY RuleFields
<1>3. ChannelOf(r)' = k
  BY <1>1, <1>2 DEF Grows, ChannelOf
<1>4. PICK i \in DOMAIN m_enf_objects[k] :
        /\ MadeFor(m_enf_objects[k][i], r)
        /\ Rule[r].configured /\ m_enf_objects[k][i].type = "drl" =>
             m_enf_objects[k][i].settings # "default"
  BY DEF InForce
<1> HIDE DEF k
<1>5. /\ i \in DOMAIN m_enf_objects'[k]
      /\ MadeFor(m_enf_objects'[k][i], r)
      /\ Rule[r].configured /\ m_enf_objects'[k][i].type = "drl" =>
             m_enf_objects'[k][i].settings # "default"
  BY <1>1, <1>4 DEF Grows, MadeFor
<1>6. InForce(r)'
  BY <1>1, <1>3, <1>5 DEF InForce, MadeFor
<1> QED
  BY <1>3, <1>6 DEF k

\* Rules marked as enforced are in force, if the one that is being marked is.
LEMMA StillEnforced ==
  ASSUME StageInv, Grows,
         \A r \in Rules : m_housekeeping_rules'[r] = "enforced" =>
           m_housekeeping_rules[r] = "enforced" \/ (control = "mark" /\ r = rule)
  PROVE  EnforcedMeansInstalled'
<1>1. ASSUME NEW r \in Rules, Rule[r].operation = "create_channel",
             m_housekeeping_rules'[r] = "enforced"
      PROVE  m_channels'[Rule[r].token] = Rule[r].channel_id
  <2>1. Rule[r].token \in ChannelTokens /\ Rule[r].channel_id # None
    BY <1>1, RuleFields, StageAssumption DEF StageAssumption
  <2>2. m_channels[Rule[r].token] = Rule[r].channel_id
    BY <1>1 DEF StageInv, Handling, EnforcedMeansInstalled, Enforced
  <2> QED
    BY <2>1, <2>2 DEF Grows
<1>2. ASSUME NEW r \in Rules, Rule[r].operation = "create_object",
             m_housekeeping_rules'[r] = "enforced"
      PROVE  InForce(r)'
  <2>1. InForce(r)
    BY <1>2 DEF StageInv, Handling, EnforcedMeansInstalled, Enforced, InForce, MadeFor
  <2> QED
    BY <2>1, StillInForce DEF StageInv
<1> QED
  BY <1>1, <1>2 DEF EnforcedMeansInstalled, Enforced, InForce, MadeFor

\* What a data thread knows of objects stays true when others are added.
LEMMA StillRouted ==
  ASSUME Types, Grows, DataInv, UNCHANGED dataVars
  PROVE  DataInv'
<1>1. DataTypes'
  BY DEF DataInv, DataTypes, dataVars
<1>2. ASSUME NEW t \in Threads
      PROVE  /\ thread'[t] # "idle" =>
                  request'[t] \in ChannelTokens \X ObjectTokens /\ returned'[t] = "none"
             /\ thread'[t] = "enforce" => channel_ptr'[t] = request'[t][1]
             /\ (thread'[t] # "idle" /\ expected'[t] # 0) =>
                  /\ expected'[t] \in DOMAIN m_enf_objects'[request'[t][1]]
                  /\ m_enf_objects'[request'[t][1]][expected'[t]].token = request'[t][2]
             /\ (returned'[t] = "enforced" /\ channel_ptr'[t] # None) =>
                  \/ handler'[t] = expected'[t]
                  \/ /\ expected'[t] = 0
                     /\ channel_ptr'[t] \in ChannelTokens
                     /\ handler'[t] \in DOMAIN m_enf_objects'[channel_ptr'[t]]
                     /\ m_enf_objects'[channel_ptr'[t]][handler'[t]].token = request'[t][2]
  BY DEF DataInv, Routing, Grows, dataVars
<1>3. Routing'
  BY <1>2 DEF Routing
<1> QED
  BY <1>1, <1>3 DEF DataInv

-----------------------------------------------------------------------------
(* The control thread's steps.                                             *)

\* Steps that install nothing and mark nothing: the table's, the traversal's,
\* the refusals, the agent's flags.
LEMMA QuietStep ==
  ASSUME StageInv, Counting, UNCHANGED <<channelVars, objectVars>>,
         m_housekeeping_rules' \in [Rules -> {"absent", "pending", "enforced"}],
         order' \in Seq(Rules), position' \in Nat,
         \A r \in Rules : m_housekeeping_rules'[r] = "enforced"
                            <=> m_housekeeping_rules[r] = "enforced",
         control \in {"idle", "traverse", "execute"},
         control' \in {"idle", "traverse", "execute", "emplace"},
         control' = "traverse" => position' # 0,
         control' \in {"execute", "emplace"} =>
           rule' \in Rules /\ m_housekeeping_rules'[rule'] = "pending",
         control' = "emplace" =>
           Rule[rule'].operation = "create_channel" /\ ~ChannelExists(rule')
  PROVE  StageInv' /\ Counting' /\ Grows
<1>1. Grows
  BY UnchangedGrows
<1>2. Types'
  BY DEF StageInv, Types, channelVars, objectVars
<1>3. Handling'
  BY DEF StageInv, Handling, ChannelExists, DoesChannelIdExist, DoesChannelTokenExist,
         channelVars, objectVars
<1>4. LinkersMatchObjects'
  BY DEF StageInv, LinkersMatchObjects, channelVars, objectVars
<1>5. EnforcedMeansInstalled'
  BY <1>1, StillEnforced
<1>6. Open' = Open /\ Installed' = Installed
  BY DEF Open, Installed, channelVars, objectVars
<1>7. \A o : Enforced(o)' = Enforced(o) /\ InHand(o)' = InHand(o)
  BY DEF Enforced, InHand
<1>8. Counting'
  BY <1>6, <1>7 DEF Counting
<1> QED
  BY <1>1, <1>2, <1>3, <1>4, <1>5, <1>8 DEF StageInv

\* Any order of the rules in the table is a sequence of rules.
LEMMA OrdersAreSequences ==
  ASSUME NEW S \in SUBSET Rules
  PROVE  Orders(S) \subseteq Seq(Rules)
<1>1. IsFiniteSet(S)
  BY StageAssumption, FS_Subset DEF StageAssumption
<1>2. Cardinality(S) \in Nat
  BY <1>1, FS_CardinalityType
<1> QED
  BY <1>2 DEF Orders

\* Where execute_housekeeping_rule returns to.
LEMMA Returned ==
  ASSUME NEW result, ReturnStatus(result), position \in Nat
  PROVE  /\ control' \in {"idle", "traverse"} /\ position' \in Nat
         /\ control' = "traverse" => position' # 0
BY DEF ReturnStatus

\* Agent and HousekeepingTable: a rule comes in.
LEMMA EmployStep ==
  ASSUME StageInv, Counting, NEW r \in Rules,
         EmployHousekeepingRule(r) \/ RejectHousekeepingRule(r)
  PROVE  StageInv' /\ Counting' /\ Grows
<1>1. CASE EmployHousekeepingRule(r)
  <2> DEFINE S == {q \in Rules : m_housekeeping_rules'[q] # "absent"}
  <2>1. /\ m_housekeeping_rules' \in [Rules -> {"absent", "pending", "enforced"}]
        /\ m_housekeeping_rules'[r] = "pending"
        /\ \A q \in Rules : m_housekeeping_rules'[q] = "enforced"
                              <=> m_housekeeping_rules[q] = "enforced"
    BY <1>1 DEF EmployHousekeepingRule, StageInv, Types
  <2>2. order' \in Orders(S)
    BY <1>1 DEF EmployHousekeepingRule
  <2>3. order' \in Seq(Rules)
    <3>1. S \in SUBSET Rules
      OBVIOUS
    <3> HIDE DEF S
    <3> QED
      BY <2>2, <3>1, OrdersAreSequences
  <2>4. /\ UNCHANGED <<channelVars, objectVars>> /\ position' \in Nat
        /\ control = "idle" /\ control' \in {"idle", "execute"}
        /\ control' = "execute" => rule' = r
    BY <1>1 DEF EmployHousekeepingRule, StageInv, Types
  <2> QED
    BY <2>1, <2>3, <2>4, QuietStep
<1>2. CASE RejectHousekeepingRule(r)
  BY <1>2, QuietStep DEF RejectHousekeepingRule, tableVars, StageInv, Types
<1> QED
  BY <1>1, <1>2

\* Core: the traversal of the table.
LEMMA TraverseStep ==
  ASSUME StageInv, Counting, ExecuteHousekeepingRules \/ TraverseNext \/ TraverseEnd
  PROVE  StageInv' /\ Counting' /\ Grows
<1>1. CASE ExecuteHousekeepingRules
  BY <1>1, QuietStep DEF ExecuteHousekeepingRules, tableVars, StageInv, Types
<1>2. CASE TraverseNext
  <2>1. position \in Nat /\ order \in Seq(Rules)
    BY DEF StageInv, Types
  <2>2. position # 0
    BY <1>2 DEF TraverseNext, StageInv, Handling
  <2>3. order[position] \in Rules
    BY <1>2, <2>1, <2>2 DEF TraverseNext
  <2>4. /\ control' = "traverse" => position' = position + 1
        /\ control' = "execute" => /\ rule' = order[position] /\ position' = position
                                   /\ m_housekeeping_rules[order[position]] = "pending"
        /\ control = "traverse" /\ control' \in {"traverse", "execute"}
        /\ UNCHANGED <<channelVars, objectVars, m_housekeeping_rules, order>>
    BY <1>2 DEF TraverseNext, tableVars
  <2> QED
    BY <2>1, <2>3, <2>4, QuietStep DEF StageInv, Types
<1>3. CASE TraverseEnd
  BY <1>3, QuietStep DEF TraverseEnd, tableVars, StageInv, Types
<1> QED
  BY <1>1, <1>2, <1>3

\* Refusals, and the check before a channel is created.
LEMMA RefuseStep ==
  ASSUME StageInv, Counting, CreateChannelFails \/ CreateChannel \/ CreateObjectFails
  PROVE  StageInv' /\ Counting' /\ Grows
<1>1. position \in Nat
  BY DEF StageInv, Types
<1>2. CASE CreateChannel
  <2>1. rule \in Rules /\ m_housekeeping_rules[rule] = "pending"
    BY <1>2 DEF CreateChannel, Executing, StageInv, Handling
  <2>2. /\ control = "execute" /\ control' = "emplace" /\ rule' = rule
        /\ Rule[rule].operation = "create_channel" /\ ~ChannelExists(rule)
        /\ UNCHANGED <<channelVars, objectVars, m_housekeeping_rules, order, position>>
    BY <1>2 DEF CreateChannel, Executing, tableVars
  <2> QED
    BY <2>1, <2>2, QuietStep DEF StageInv, Types
<1>3. CASE CreateChannelFails \/ CreateObjectFails
  <2>1. PICK result : ReturnStatus(result)
    BY <1>3 DEF CreateChannelFails, CreateObjectFails
  <2>2. /\ control' \in {"idle", "traverse"} /\ position' \in Nat
        /\ control' = "traverse" => position' # 0
    BY <1>1, <2>1, Returned
  <2>3. /\ control = "execute"
        /\ UNCHANGED <<channelVars, objectVars, m_housekeeping_rules, order>>
    BY <1>3 DEF CreateChannelFails, CreateObjectFails, Executing, tableVars
  <2> QED
    BY <2>2, <2>3, QuietStep DEF StageInv, Types
<1> QED
  BY <1>2, <1>3

\* The agent's two flags.
LEMMA AgentStep ==
  ASSUME StageInv, Counting, MarkReady \/ \E value \in BOOLEAN : SetExecuteOnReceive(value)
  PROVE  StageInv' /\ Counting' /\ Grows
<1>1. control = "idle" /\ UNCHANGED <<tableVars, channelVars, objectVars, controlVars>>
  BY DEF MarkReady, SetExecuteOnReceive
<1> QED
  BY <1>1, QuietStep DEF tableVars, controlVars, StageInv, Types

\* The numbers that are added up.
LEMMA Numbers ==
  /\ Len(DefaultChannels) \in Nat /\ Len(DefaultObjects) \in Nat
  /\ Len(DefaultChannels) * Len(DefaultObjects) \in Nat
  /\ \A o : IsFiniteSet(Enforced(o)) /\ Cardinality(Enforced(o)) \in Nat
  /\ \A o : InHand(o) \in {0, 1}
<1>1. Len(DefaultChannels) \in Nat /\ Len(DefaultObjects) \in Nat
  BY StageAssumption DEF StageAssumption
<1>2. ASSUME NEW o
      PROVE  IsFiniteSet(Enforced(o)) /\ Cardinality(Enforced(o)) \in Nat
  <2>1. Enforced(o) \in SUBSET Rules
    BY DEF Enforced
  <2>2. IsFiniteSet(Enforced(o))
    BY <2>1, FS_Subset, StageAssumption DEF StageAssumption
  <2> QED
    BY <2>2, FS_CardinalityType
<1> QED
  BY <1>1, <1>2 DEF InHand

\* m_channels.emplace: one channel more, the rule's.
LEMMA EmplaceStep ==
  ASSUME StageInv, Counting, EmplaceChannel
  PROVE  StageInv' /\ Counting' /\ Grows
<1> DEFINE k == Rule[rule].token
           c == Rule[rule].channel_id
<1>1. /\ rule \in Rules /\ m_housekeeping_rules[rule] = "pending"
      /\ Rule[rule].operation = "create_channel"
      /\ m_channels[k] = None /\ ~DoesChannelIdExist(c)
  BY DEF EmplaceChannel, StageInv, Handling, DoesChannelTokenExist
<1>2. k \in ChannelTokens /\ c \in ChannelIds /\ c # None
  BY <1>1, RuleFields, StageAssumption DEF StageAssumption
<1>3. /\ UNCHANGED <<m_channel_id_to_token_linkers, m_enf_objects, m_object_id_to_token_linkers>>
      /\ UNCHANGED <<m_housekeeping_rules, order, position, rule>>
      /\ control = "emplace" /\ control' = "link_channel"
  BY DEF EmplaceChannel, tableVars, objectVars
<1>4. m_channels' = [m_channels EXCEPT ![k] = c]
  BY DEF EmplaceChannel
<1> HIDE DEF k, c
<1>5. /\ m_channels' \in [ChannelTokens -> ChannelIds \cup {None}] /\ m_channels'[k] = c
      /\ \A l \in ChannelTokens : l # k => m_channels'[l] = m_channels[l]
  BY <1>2, <1>4 DEF StageInv, Types
<1>6. Grows
  BY <1>1, <1>3, <1>5 DEF Grows
<1>7. Types'
  BY <1>3, <1>5 DEF StageInv, Types
<1>8. Handling'
  <2>1. ~DoesChannelIdExist(Rule[rule].channel_id)' /\ UniqueIds(m_channel_id_to_token_linkers)'
    BY <1>1, <1>3 DEF DoesChannelIdExist, c, StageInv, Handling
  <2> QED
    BY <1>1, <1>3, <1>5, <2>1 DEF Handling, k, c
<1>9. LinkersMatchObjects'
  BY <1>3 DEF StageInv, LinkersMatchObjects
<1>10. EnforcedMeansInstalled'
  BY <1>3, <1>6, StillEnforced
<1>11. Open' = Open \cup {k} /\ k \notin Open
  BY <1>1, <1>2, <1>5 DEF Open
<1>12. Cardinality(Open') = Cardinality(Open) + 1 /\ IsFiniteSet(Open')
  BY <1>11, FS_AddElement DEF Counting
<1>13. Installed' = Installed /\ \A o : Enforced(o)' = Enforced(o)
  BY <1>3 DEF Installed, Enforced
<1>14. /\ InHand("create_channel") = 0 /\ InHand("create_channel")' = 1
       /\ InHand("create_object") = 0 /\ InHand("create_object")' = 0
  BY <1>1, <1>3 DEF InHand
<1>15. Counting'
  BY <1>12, <1>13, <1>14, Numbers DEF Counting
<1> QED
  BY <1>6, <1>7, <1>8, <1>9, <1>10, <1>15 DEF StageInv

\* create_new_channel_linker: the rule's identifier, which had no link.
LEMMA LinkChannelStep ==
  ASSUME StageInv, Counting, CreateNewChannelLinker
  PROVE  StageInv' /\ Counting' /\ Grows
<1> DEFINE k == Rule[rule].token
           c == Rule[rule].channel_id
           L == m_channel_id_to_token_linkers
           M == m_channel_id_to_token_linkers'
<1>1. /\ rule \in Rules /\ m_housekeeping_rules[rule] = "pending"
      /\ Rule[rule].operation = "create_channel"
      /\ m_channels[k] = c /\ GetDiffToken(L, c) = None
      /\ L \in Seq(ChannelIds \X ChannelTokens) /\ UniqueIds(L)
  BY DEF CreateNewChannelLinker, StageInv, Handling, Types, DoesChannelIdExist
<1>2. k \in ChannelTokens /\ c \in ChannelIds
  BY <1>1, RuleFields
<1>3. /\ UNCHANGED <<m_channels, m_enf_objects, m_object_id_to_token_linkers>>
      /\ UNCHANGED <<m_housekeeping_rules, order, position, rule>>
      /\ control = "link_channel" /\ control' = "mark"
  BY DEF CreateNewChannelLinker, tableVars, objectVars
<1>4. M = Append(L, <<c, k>>)
  BY DEF CreateNewChannelLinker
<1>5. UNCHANGED Rule[rule].channel_id /\ UNCHANGED Rule[rule].token
  BY <1>3
<1> HIDE DEF k, c
<1>6. \A i \in DOMAIN L : L[i][1] # c
  BY <1>1, NotLinked
<1>7. /\ M \in Seq(ChannelIds \X ChannelTokens) /\ UniqueIds(M)
      /\ \A id : id # c => GetDiffToken(M, id) = GetDiffToken(L, id)
  <2>1. <<c, k>> \in ChannelIds \X ChannelTokens /\ <<c, k>>[1] = c
    BY <1>2
  <2> HIDE DEF L, M
  <2> QED
    BY <1>1, <1>4, <1>6, <2>1, LinkAdded
<1>8. Grows
  BY <1>1, <1>3, <1>7 DEF Grows
<1>9. Types'
  BY <1>3, <1>7 DEF StageInv, Types
<1>10. Handling'
  BY <1>1, <1>3, <1>7 DEF Handling, k, c
<1>11. LinkersMatchObjects'
  BY <1>3 DEF StageInv, LinkersMatchObjects
<1>12. EnforcedMeansInstalled'
  BY <1>3, <1>8, StillEnforced
<1>13. /\ Open' = Open /\ Installed' = Installed
       /\ \A o : Enforced(o)' = Enforced(o) /\ InHand(o)' = InHand(o)
  BY <1>3 DEF Open, Installed, Enforced, InHand
<1>14. Counting'
  BY <1>13 DEF Counting
<1> QED
  BY <1>8, <1>9, <1>10, <1>11, <1>12, <1>14 DEF StageInv

\* LinkersMatchObjects, for one channel.
LEMMA ObjectsOf ==
  ASSUME StageInv, NEW k \in ChannelTokens
  PROVE  /\ m_enf_objects[k] \in Seq(Object) /\ UniqueTokens(m_enf_objects[k])
         /\ m_object_id_to_token_linkers[k] \in Seq(ObjectIds \X ObjectTokens)
         /\ Len(m_enf_objects[k]) = Len(m_object_id_to_token_linkers[k])
              + (IF control = "link_object" /\ ChannelOf(rule) = k THEN 1 ELSE 0)
         /\ \A i \in DOMAIN m_object_id_to_token_linkers[k] :
              m_object_id_to_token_linkers[k][i]
                = <<m_enf_objects[k][i].id, m_enf_objects[k][i].token>>
BY DEF StageInv, Types, LinkersMatchObjects, UniqueTokens

\* SubmissionQueue::create_enforcement_object: one object more, at the end.
LEMMA CreateObjectStep ==
  ASSUME StageInv, Counting, CreateEnforcementObject
  PROVE  StageInv' /\ Counting' /\ Grows
<1> DEFINE k == ChannelOf(rule)
           O == m_enf_objects[k]
           P == m_enf_objects'[k]
           o == [id |-> Rule[rule].object_id, token |-> Rule[rule].token,
                 type |-> Rule[rule].type, settings |-> "default"]
<1>1. /\ rule \in Rules /\ m_housekeeping_rules[rule] = "pending"
      /\ Rule[rule].operation = "create_object"
      /\ k # None /\ Rule[rule].type # "other"
      /\ SelectEnforcementObject(O, Rule[rule].token) = 0
  BY DEF CreateEnforcementObject, Executing, ObjectExists, StageInv, Handling
<1>2. k \in ChannelTokens
  BY <1>1, ChannelOfType DEF StageInv
<1>3. /\ UNCHANGED <<channelVars, m_object_id_to_token_linkers>>
      /\ UNCHANGED <<m_housekeeping_rules, order, position, rule>>
      /\ control = "execute" /\ control' = "link_object"
  BY DEF CreateEnforcementObject, Executing, tableVars
<1>4. o \in Object /\ MadeFor(o, rule) /\ o.token = Rule[rule].token /\ o.settings = "default"
  BY <1>1, RuleFields DEF Object, MadeFor
<1>5. m_enf_objects' = [m_enf_objects EXCEPT ![k] = Append(O, o)]
  BY DEF CreateEnforcementObject
<1>6. ChannelOf(rule)' = k
  BY <1>3 DEF ChannelOf, channelVars
<1>7. m_enf_objects \in [ChannelTokens -> Seq(Object)] /\ O \in Seq(Object) /\ UniqueTokens(O)
  BY <1>2, ObjectsOf DEF StageInv, Types
<1> HIDE DEF k, o
<1>8. /\ P = Append(O, o)
      /\ \A l \in ChannelTokens : l # k => m_enf_objects'[l] = m_enf_objects[l]
  BY <1>2, <1>5, <1>7
<1>9. /\ P \in Seq(Object) /\ Len(O) \in Nat /\ Len(P) = Len(O) + 1
      /\ DOMAIN O = 1..Len(O) /\ DOMAIN P = 1..Len(O) + 1
      /\ \A i \in 1..Len(O) : P[i] = O[i]
      /\ P[Len(O) + 1] = o
  <2> HIDE DEF O, P
  <2> QED
    BY <1>4, <1>7, <1>8, AppendProperties
<1>10. m_enf_objects' \in [ChannelTokens -> Seq(Object)]
  BY <1>2, <1>4, <1>5, <1>7
<1>11. \A i \in DOMAIN O : O[i].token # o.token
  <2>1. 0 \notin DOMAIN O
    BY <1>9
  <2> QED
    BY <1>1, <1>4, <1>7, <2>1, Selected
<1>12. UniqueTokens(P)
  <2> HIDE DEF O, P
  <2> QED
    BY <1>7, <1>9, <1>11 DEF UniqueTokens
<1>13. Grows
  <2>1. \A l \in ChannelTokens : \A i \in DOMAIN m_enf_objects[l] :
           i \in DOMAIN m_enf_objects'[l] /\ m_enf_objects'[l][i] = m_enf_objects[l][i]
    BY <1>8, <1>9
  <2> QED
    BY <1>3, <2>1 DEF Grows, channelVars
<1>14. Types'
  BY <1>3, <1>10 DEF StageInv, Types, channelVars
<1>15. Handling'
  <2>1. /\ ChannelOf(rule)' # None /\ Len(m_enf_objects'[ChannelOf(rule)']) \in DOMAIN m_enf_objects'[ChannelOf(rule)']
        /\ MadeFor(m_enf_objects'[ChannelOf(rule)'][Len(m_enf_objects'[ChannelOf(rule)'])], rule)
        /\ m_enf_objects'[ChannelOf(rule)'][Len(m_enf_objects'[ChannelOf(rule)'])].settings = "default"
    BY <1>1, <1>4, <1>6, <1>9
  <2>2. UniqueIds(m_channel_id_to_token_linkers)'
    BY <1>3 DEF channelVars, StageInv, Handling
  <2>3. MadeFor(m_enf_objects[ChannelOf(rule)][Len(m_enf_objects[ChannelOf(rule)])], rule)'
    BY <1>3, <2>1 DEF MadeFor
  <2> QED
    BY <1>1, <1>3, <2>1, <2>2, <2>3 DEF Handling
<1>16. LinkersMatchObjects'
  <2> SUFFICES ASSUME NEW l \in ChannelTokens
               PROVE  /\ Len(m_enf_objects'[l]) = Len(m_object_id_to_token_linkers'[l])
                           + (IF ChannelOf(rule)' = l THEN 1 ELSE 0)
                      /\ \A i \in DOMAIN m_object_id_to_token_linkers'[l] :
                           m_object_id_to_token_linkers'[l][i]
                             = <<m_enf_objects'[l][i].id, m_enf_objects'[l][i].token>>
                      /\ UniqueTokens(m_enf_objects'[l])
    BY <1>3 DEF LinkersMatchObjects, UniqueTokens
  <2>1. /\ UniqueTokens(m_enf_objects[l])
        /\ m_object_id_to_token_linkers'[l] = m_object_id_to_token_linkers[l]
        /\ m_object_id_to_token_linkers[l] \in Seq(ObjectIds \X ObjectTokens)
        /\ Len(m_enf_objects[l]) = Len(m_object_id_to_token_linkers[l]) + 0
        /\ \A i \in DOMAIN m_object_id_to_token_linkers[l] :
             m_object_id_to_token_linkers[l][i]
               = <<m_enf_objects[l][i].id, m_enf_objects[l][i].token>>
    BY <1>3, ObjectsOf
  <2>2. CASE l = k
    <3>1. Len(O) = Len(m_object_id_to_token_linkers[k])
      BY <2>1, <2>2
    <3>2. DOMAIN m_object_id_to_token_linkers[k] = 1..Len(O)
      BY <2>1, <2>2, <3>1
    <3> QED
      BY <1>6, <1>9, <1>12, <2>1, <2>2, <3>1, <3>2
  <2>3. CASE l # k
    BY <1>6, <1>8, <2>1, <2>3
  <2> QED
    BY <2>2, <2>3
<1>17. EnforcedMeansInstalled'
  BY <1>3, <1>13, StillEnforced
<1>18. Installed' = Installed \cup {<<k, Len(O) + 1>>} /\ <<k, Len(O) + 1>> \notin Installed
  <2>1. \A l \in ChannelTokens : l # k => DOMAIN m_enf_objects'[l] = DOMAIN m_enf_objects[l]
    BY <1>8
  <2>2. DOMAIN P = DOMAIN O \cup {Len(O) + 1} /\ Len(O) + 1 \notin DOMAIN O
    BY <1>9
  <2> QED
    BY <1>2, <2>1, <2>2 DEF Installed
<1>19. Cardinality(Installed') = Cardinality(Installed) + 1 /\ IsFiniteSet(Installed')
  BY <1>18, FS_AddElement DEF Counting
<1>20. Open' = Open /\ \A q : Enforced(q)' = Enforced(q)
  BY <1>3 DEF Open, Enforced, channelVars
<1>21. /\ InHand("create_channel") = 0 /\ InHand("create_channel")' = 0
       /\ InHand("create_object") = 0 /\ InHand("create_object")' = 1
  BY <1>1, <1>3 DEF InHand
<1>22. Counting'
  BY <1>19, <1>20, <1>21, Numbers DEF Counting
<1> QED
  BY <1>13, <1>14, <1>15, <1>16, <1>17, <1>22 DEF StageInv

\* create_new_object_linker: the link of the object that was added last.
LEMMA LinkObjectStep ==
  ASSUME StageInv, Counting, CreateNewObjectLinker
  PROVE  StageInv' /\ Counting' /\ Grows
<1> DEFINE k == ChannelOf(rule)
           O == m_enf_objects[k]
           L == m_object_id_to_token_linkers[k]
           M == m_object_id_to_token_linkers'[k]
           e == <<Rule[rule].object_id, Rule[rule].token>>
<1>1. /\ rule \in Rules /\ m_housekeeping_rules[rule] = "pending"
      /\ Rule[rule].operation = "create_object" /\ k # None
      /\ Len(O) \in DOMAIN O /\ MadeFor(O[Len(O)], rule) /\ O[Len(O)].settings = "default"
  BY DEF CreateNewObjectLinker, StageInv, Handling
<1>2. k \in ChannelTokens
  BY <1>1, ChannelOfType DEF StageInv
<1>3. /\ UNCHANGED <<channelVars, m_enf_objects>>
      /\ UNCHANGED <<m_housekeeping_rules, order, position, rule>>
      /\ control = "link_object" /\ control' \in {"initialize", "mark"}
      /\ control' = "initialize" <=> Rule[rule].configured /\ Rule[rule].type = "drl"
  BY DEF CreateNewObjectLinker, tableVars
<1>4. m_object_id_to_token_linkers' = [m_object_id_to_token_linkers EXCEPT ![k] = Append(L, e)]
  BY DEF CreateNewObjectLinker
<1>5. e \in ObjectIds \X ObjectTokens /\ e = <<O[Len(O)].id, O[Len(O)].token>>
  BY <1>1, RuleFields DEF MadeFor
<1>6. ChannelOf(rule)' = k
  BY <1>3 DEF ChannelOf, channelVars
<1>7. /\ O \in Seq(Object) /\ UniqueTokens(O) /\ L \in Seq(ObjectIds \X ObjectTokens)
      /\ Len(O) = Len(L) + 1
      /\ \A i \in DOMAIN L : L[i] = <<O[i].id, O[i].token>>
      /\ m_object_id_to_token_linkers \in [ChannelTokens -> Seq(ObjectIds \X ObjectTokens)]
  BY <1>2, <1>3, ObjectsOf DEF StageInv, Types
<1> HIDE DEF k, e
<1>8. /\ M = Append(L, e)
      /\ \A l \in ChannelTokens :
           l # k => m_object_id_to_token_linkers'[l] = m_object_id_to_token_linkers[l]
      /\ m_object_id_to_token_linkers' \in [ChannelTokens -> Seq(ObjectIds \X ObjectTokens)]
  BY <1>2, <1>4, <1>5, <1>7
<1>9. Len(M) = Len(O) /\ \A i \in DOMAIN M : M[i] = <<O[i].id, O[i].token>>
  <2>1. /\ Len(M) = Len(L) + 1 /\ Len(L) \in Nat
        /\ DOMAIN L = 1..Len(L) /\ DOMAIN M = 1..Len(L) + 1
        /\ \A i \in 1..Len(L) : M[i] = L[i]
        /\ M[Len(L) + 1] = e
    <3> HIDE DEF L, M
    <3> QED
      BY <1>5, <1>7, <1>8, AppendProperties
  <2>2. ASSUME NEW i \in DOMAIN M
        PROVE  M[i] = <<O[i].id, O[i].token>>
    <3>1. CASE i \in 1..Len(L)
      BY <1>7, <2>1, <3>1
    <3>2. CASE i = Len(L) + 1
      BY <1>5, <1>7, <2>1, <3>2
    <3> QED
      BY <2>1, <3>1, <3>2
  <2> QED
    BY <1>7, <2>1, <2>2
<1>10. Grows
  BY <1>3 DEF Grows, channelVars
<1>11. Types'
  BY <1>3, <1>8 DEF StageInv, Types, channelVars
<1>12. Handling'
  <2>1. UniqueIds(m_channel_id_to_token_linkers)'
    BY <1>3 DEF channelVars, StageInv, Handling
  <2>2. /\ ChannelOf(rule)' = ChannelOf(rule) /\ m_enf_objects' = m_enf_objects /\ rule' = rule
        /\ m_housekeeping_rules' = m_housekeeping_rules
    BY <1>3, <1>6 DEF k
  <2>3. /\ ChannelOf(rule) # None
        /\ \E i \in DOMAIN m_enf_objects[ChannelOf(rule)] :
             /\ MadeFor(m_enf_objects[ChannelOf(rule)][i], rule)
             /\ m_enf_objects[ChannelOf(rule)][i].settings = "default"
    BY <1>1 DEF k
  <2>4. CASE control' = "initialize"
    BY <1>1, <1>3, <2>1, <2>2, <2>3, <2>4 DEF Handling, MadeFor
  <2>5. CASE control' = "mark"
    <3>1. InForce(rule)'
      BY <1>3, <2>2, <2>3, <2>5 DEF InForce, MadeFor
    <3> QED
      BY <1>1, <2>1, <2>2, <2>5, <3>1 DEF Handling
  <2> QED
    BY <1>3, <2>4, <2>5
<1>13. LinkersMatchObjects'
  <2> SUFFICES ASSUME NEW l \in ChannelTokens
               PROVE  /\ Len(m_enf_objects[l]) = Len(m_object_id_to_token_linkers'[l])
                      /\ \A i \in DOMAIN m_object_id_to_token_linkers'[l] :
                           m_object_id_to_token_linkers'[l][i]
                             = <<m_enf_objects[l][i].id, m_enf_objects[l][i].token>>
                      /\ UniqueTokens(m_enf_objects[l])
    <3>1. \A l \in ChannelTokens : Len(m_object_id_to_token_linkers'[l]) \in Nat
      BY <1>8
    <3>2. \A l \in ChannelTokens :
             Len(m_object_id_to_token_linkers'[l]) + 0 = Len(m_object_id_to_token_linkers'[l])
      BY <3>1
    <3>3. control' # "link_object" /\ m_enf_objects' = m_enf_objects
      BY <1>3
    <3> QED
      BY <3>2, <3>3 DEF LinkersMatchObjects, UniqueTokens
  <2>1. /\ UniqueTokens(m_enf_objects[l])
        /\ m_object_id_to_token_linkers[l] \in Seq(ObjectIds \X ObjectTokens)
        /\ Len(m_enf_objects[l]) = Len(m_object_id_to_token_linkers[l]) + (IF k = l THEN 1 ELSE 0)
        /\ \A i \in DOMAIN m_object_id_to_token_linkers[l] :
             m_object_id_to_token_linkers[l][i]
               = <<m_enf_objects[l][i].id, m_enf_objects[l][i].token>>
    BY <1>3, ObjectsOf DEF k
  <2>2. CASE l = k
    BY <1>9, <2>1, <2>2
  <2>3. CASE l # k
    <3>1. Len(m_object_id_to_token_linkers[l]) \in Nat
      BY <2>1
    <3>2. Len(m_enf_objects[l]) = Len(m_object_id_to_token_linkers[l]) + 0
      <4>1. (IF k = l THEN 1 ELSE 0) = 0
        BY <2>3
      <4> QED
        BY <2>1, <4>1
    <3>3. Len(m_enf_objects[l]) = Len(m_object_id_to_token_linkers[l])
      BY <3>1, <3>2
    <3> QED
      BY <1>8, <2>1, <2>3, <3>3
  <2> QED
    BY <2>2, <2>3
<1>14. EnforcedMeansInstalled'
  BY <1>3, <1>10, StillEnforced
<1>15. /\ Open' = Open /\ Installed' = Installed
       /\ \A q : Enforced(q)' = Enforced(q) /\ InHand(q)' = InHand(q)
  BY <1>3 DEF Open, Installed, Enforced, InHand, channelVars
<1>16. Counting'
  BY <1>15 DEF Counting
<1> QED
  BY <1>10, <1>11, <1>12, <1>13, <1>14, <1>16 DEF StageInv

\* An object of channel k is configured, and what that leaves of the others.
Configures(k, token, settings) ==
  m_enf_objects' = [m_enf_objects EXCEPT ![k] = Configured(m_enf_objects[k], token, settings)]
OnlySettings(k, token, settings) ==
  \A l \in ChannelTokens :
    /\ UniqueTokens(m_enf_objects'[l])
    /\ Len(m_enf_objects'[l]) = Len(m_enf_objects[l])
    /\ DOMAIN m_enf_objects'[l] = DOMAIN m_enf_objects[l]
    /\ \A i \in DOMAIN m_enf_objects[l] :
         /\ m_enf_objects'[l][i].id = m_enf_objects[l][i].id
         /\ m_enf_objects'[l][i].token = m_enf_objects[l][i].token
         /\ m_enf_objects'[l][i].type = m_enf_objects[l][i].type
         /\ m_enf_objects'[l][i].settings =
              IF /\ l = k /\ m_enf_objects[l][i].token = token
                 /\ m_enf_objects[l][i].type = "drl"
              THEN settings ELSE m_enf_objects[l][i].settings

\* A configuration changes the settings of limiters with the token, no more.
LEMMA ConfigureObjects ==
  ASSUME StageInv, NEW k \in ChannelTokens, NEW token, NEW settings \in {"initial", "rule"},
         Configures(k, token, settings)
  PROVE  /\ m_enf_objects' \in [ChannelTokens -> Seq(Object)] /\ Installed' = Installed
         /\ OnlySettings(k, token, settings)
<1> DEFINE O == m_enf_objects[k]
           new == Configured(O, token, settings)
<1>1. m_enf_objects \in [ChannelTokens -> Seq(Object)] /\ \A l \in ChannelTokens : UniqueTokens(m_enf_objects[l])
  BY ObjectsOf DEF StageInv, Types
<1>2. /\ new \in Seq(Object) /\ Len(new) = Len(O) /\ DOMAIN new = DOMAIN O
      /\ UniqueTokens(new)
      /\ \A i \in DOMAIN O :
           /\ new[i].id = O[i].id /\ new[i].token = O[i].token /\ new[i].type = O[i].type
           /\ new[i].settings = IF O[i].token = token /\ O[i].type = "drl"
                                THEN settings ELSE O[i].settings
  BY <1>1, ConfiguredFacts
<1>3. m_enf_objects' = [m_enf_objects EXCEPT ![k] = new]
  BY DEF Configures
<1> HIDE DEF new
<1>4. /\ m_enf_objects' \in [ChannelTokens -> Seq(Object)] /\ m_enf_objects'[k] = new
      /\ \A l \in ChannelTokens : l # k => m_enf_objects'[l] = m_enf_objects[l]
  BY <1>1, <1>2, <1>3
<1>5. \A l \in ChannelTokens : DOMAIN m_enf_objects'[l] = DOMAIN m_enf_objects[l]
  BY <1>2, <1>4
<1>6. Installed' = Installed
  BY <1>5 DEF Installed
<1>7. ASSUME NEW l \in ChannelTokens
      PROVE  /\ UniqueTokens(m_enf_objects'[l])
             /\ Len(m_enf_objects'[l]) = Len(m_enf_objects[l])
             /\ \A i \in DOMAIN m_enf_objects[l] :
                   /\ m_enf_objects'[l][i].id = m_enf_objects[l][i].id
                   /\ m_enf_objects'[l][i].token = m_enf_objects[l][i].token
                   /\ m_enf_objects'[l][i].type = m_enf_objects[l][i].type
                   /\ m_enf_objects'[l][i].settings =
                        IF /\ l = k /\ m_enf_objects[l][i].token = token
                           /\ m_enf_objects[l][i].type = "drl"
                        THEN settings ELSE m_enf_objects[l][i].settings
  <2>1. CASE l = k
    BY <1>2, <1>4, <2>1
  <2>2. CASE l # k
    BY <1>1, <1>4, <2>2
  <2> QED
    BY <2>1, <2>2
<1> QED
  BY <1>4, <1>5, <1>6, <1>7 DEF OnlySettings

\* The linkers still name the objects after a configuration.
LEMMA ConfiguredStillLinked ==
  ASSUME StageInv, UNCHANGED m_object_id_to_token_linkers,
         control # "link_object", control' # "link_object",
         NEW k, NEW token, NEW settings, OnlySettings(k, token, settings)
  PROVE  LinkersMatchObjects'
<1>1. ASSUME NEW l \in ChannelTokens
      PROVE  /\ Len(m_enf_objects'[l]) = Len(m_object_id_to_token_linkers[l]) + 0
             /\ \A i \in DOMAIN m_object_id_to_token_linkers[l] :
                  m_object_id_to_token_linkers[l][i]
                    = <<m_enf_objects'[l][i].id, m_enf_objects'[l][i].token>>
  <2>1. /\ Len(m_enf_objects[l]) = Len(m_object_id_to_token_linkers[l]) + 0
        /\ m_enf_objects[l] \in Seq(Object)
        /\ m_object_id_to_token_linkers[l] \in Seq(ObjectIds \X ObjectTokens)
        /\ \A i \in DOMAIN m_object_id_to_token_linkers[l] :
             m_object_id_to_token_linkers[l][i]
               = <<m_enf_objects[l][i].id, m_enf_objects[l][i].token>>
    BY ObjectsOf
  <2>2. DOMAIN m_enf_objects[l] = DOMAIN m_object_id_to_token_linkers[l]
    BY <2>1
  <2> QED
    BY <2>1, <2>2 DEF OnlySettings
<1> QED
  BY <1>1 DEF OnlySettings, LinkersMatchObjects, UniqueTokens

\* A configuration loses nothing, if the initial one replaces no other.
LEMMA ConfiguredGrows ==
  ASSUME NEW k \in ChannelTokens, NEW token, NEW settings \in {"initial", "rule"},
         OnlySettings(k, token, settings), UNCHANGED channelVars,
         settings = "initial" => \A i \in DOMAIN m_enf_objects[k] :
           m_enf_objects[k][i].token = token => m_enf_objects[k][i].settings = "default"
  PROVE  Grows
BY DEF OnlySettings, Grows, channelVars

\* create_enforcement_object's last step: the new object's initial configuration.
LEMMA InitializeStep ==
  ASSUME StageInv, Counting, InitializeObject
  PROVE  StageInv' /\ Counting' /\ Grows
<1> DEFINE k == ChannelOf(rule)
           token == Rule[rule].token
<1>1. /\ rule \in Rules /\ m_housekeeping_rules[rule] = "pending"
      /\ Rule[rule].operation = "create_object" /\ k # None
  BY DEF InitializeObject, StageInv, Handling
<1>2. PICK n \in DOMAIN m_enf_objects[k] :
        /\ MadeFor(m_enf_objects[k][n], rule)
        /\ m_enf_objects[k][n].settings = "default" /\ m_enf_objects[k][n].type = "drl"
  BY DEF InitializeObject, StageInv, Handling
<1>3. k \in ChannelTokens
  BY <1>1, ChannelOfType DEF StageInv
<1>4. /\ UNCHANGED <<channelVars, m_object_id_to_token_linkers>>
      /\ UNCHANGED <<m_housekeeping_rules, order, position, rule>>
      /\ control = "initialize" /\ control' = "mark"
  BY DEF InitializeObject, tableVars
<1>5. Configures(k, token, "initial")
  BY DEF InitializeObject, Configures
<1>6. ChannelOf(rule)' = k
  BY <1>4 DEF ChannelOf, channelVars
<1>7. \A i \in DOMAIN m_enf_objects[k] :
         m_enf_objects[k][i].token = token => m_enf_objects[k][i].settings = "default"
  <2>1. UniqueTokens(m_enf_objects[k])
    BY <1>3, ObjectsOf
  <2> QED
    BY <1>2, <2>1 DEF UniqueTokens, MadeFor
<1> HIDE DEF k, token
<1>8. /\ m_enf_objects' \in [ChannelTokens -> Seq(Object)] /\ Installed' = Installed
      /\ OnlySettings(k, token, "initial")
  BY <1>3, <1>5, ConfigureObjects
<1>9. Grows
  BY <1>3, <1>4, <1>7, <1>8, ConfiguredGrows
<1>10. Types'
  BY <1>4, <1>8 DEF StageInv, Types, channelVars
<1>11. Handling'
  <2>1. UniqueIds(m_channel_id_to_token_linkers)'
    BY <1>4 DEF channelVars, StageInv, Handling
  <2>2. /\ n \in DOMAIN m_enf_objects'[k] /\ MadeFor(m_enf_objects'[k][n], rule)
        /\ m_enf_objects'[k][n].settings = "initial"
    BY <1>2, <1>3, <1>8 DEF MadeFor, OnlySettings, token
  <2>3. InForce(rule)'
    BY <1>1, <1>4, <1>6, <2>2 DEF InForce, MadeFor
  <2> QED
    BY <1>1, <1>4, <2>1, <2>3 DEF Handling
<1>12. LinkersMatchObjects'
  BY <1>4, <1>8, ConfiguredStillLinked
<1>13. EnforcedMeansInstalled'
  BY <1>4, <1>9, StillEnforced
<1>14. /\ Open' = Open
       /\ \A q : Enforced(q)' = Enforced(q) /\ InHand(q)' = InHand(q)
  BY <1>4 DEF Open, Enforced, InHand, channelVars
<1>15. Counting'
  BY <1>8, <1>14 DEF Counting
<1> QED
  BY <1>9, <1>10, <1>11, <1>12, <1>13, <1>15 DEF StageInv

\* An enforcement rule: the settings of a limiter, or nothing.
LEMMA EnforcementRuleStep ==
  ASSUME StageInv, Counting, NEW c \in ChannelIds, NEW o \in ObjectIds, NEW known \in BOOLEAN,
         EmployEnforcementRule(c, o, known)
  PROVE  StageInv' /\ Counting' /\ Grows
<1> DEFINE k == GetDiffToken(m_channel_id_to_token_linkers, c)
           token == GetDiffToken(m_object_id_to_token_linkers[k], o)
<1>1. /\ UNCHANGED <<channelVars, m_object_id_to_token_linkers>>
      /\ UNCHANGED <<m_housekeeping_rules, order, position, rule>>
      /\ control = "idle" /\ control' = "idle"
  BY DEF EmployEnforcementRule, tableVars
<1>2. CASE UNCHANGED m_enf_objects
  BY <1>1, <1>2, QuietStep DEF StageInv, Types, objectVars
<1>3. CASE k # None /\ Configures(k, token, "rule")
  <2>1. k \in ChannelTokens
    BY <1>3, NotLinked DEF StageInv, Types, Handling
  <2> HIDE DEF k, token
  <2>2. /\ m_enf_objects' \in [ChannelTokens -> Seq(Object)] /\ Installed' = Installed
        /\ OnlySettings(k, token, "rule")
    BY <1>3, <2>1, ConfigureObjects
  <2>3. Grows
    BY <1>1, <2>1, <2>2, ConfiguredGrows
  <2>4. Types' /\ Handling'
    BY <1>1, <2>2 DEF StageInv, Types, Handling, channelVars
  <2>5. LinkersMatchObjects'
    BY <1>1, <2>2, ConfiguredStillLinked
  <2>6. EnforcedMeansInstalled'
    BY <1>1, <2>3, StillEnforced
  <2>7. /\ Open' = Open
        /\ \A q : Enforced(q)' = Enforced(q) /\ InHand(q)' = InHand(q)
    BY <1>1 DEF Open, Enforced, InHand, channelVars
  <2>8. Counting'
    BY <2>2, <2>7 DEF Counting
  <2> QED
    BY <2>3, <2>4, <2>5, <2>6, <2>8 DEF StageInv
<1> QED
  BY <1>2, <1>3 DEF EmployEnforcementRule, Configures

\* mark_housekeeping_rule_as_enforced: the rule in hand is now one of them.
LEMMA MarkStep ==
  ASSUME StageInv, Counting, MarkHousekeepingRuleAsEnforced
  PROVE  StageInv' /\ Counting' /\ Grows
<1>1. rule \in Rules /\ m_housekeeping_rules[rule] = "pending"
  BY DEF MarkHousekeepingRuleAsEnforced, StageInv, Handling
<1>2. /\ UNCHANGED <<channelVars, objectVars>> /\ order' = order /\ control = "mark"
      /\ ReturnStatus("ok")
  BY DEF MarkHousekeepingRuleAsEnforced
<1>3. /\ control' \in {"idle", "traverse"} /\ position' \in Nat
      /\ control' = "traverse" => position' # 0
  BY <1>2, Returned DEF StageInv, Types
<1>4. /\ m_housekeeping_rules' \in [Rules -> {"absent", "pending", "enforced"}]
      /\ m_housekeeping_rules'[rule] = "enforced"
      /\ \A r \in Rules : r # rule => m_housekeeping_rules'[r] = m_housekeeping_rules[r]
  BY <1>1 DEF MarkHousekeepingRuleAsEnforced, StageInv, Types
<1>5. Grows
  BY <1>2, UnchangedGrows
<1>6. Types' /\ Handling'
  BY <1>2, <1>3, <1>4 DEF StageInv, Types, Handling, channelVars, objectVars
<1>7. LinkersMatchObjects'
  <2>1. UNCHANGED <<m_enf_objects, m_object_id_to_token_linkers>>
    BY <1>2 DEF objectVars
  <2>2. control # "link_object" /\ control' # "link_object" /\ LinkersMatchObjects
    BY <1>2, <1>3 DEF StageInv
  <2> QED
    BY <2>1, <2>2 DEF LinkersMatchObjects
<1>8. EnforcedMeansInstalled'
  BY <1>2, <1>4, <1>5, StillEnforced
<1>9. Open' = Open /\ Installed' = Installed
  BY <1>2 DEF Open, Installed, channelVars, objectVars
<1>10. ASSUME NEW q
       PROVE  /\ IsFiniteSet(Enforced(q))
              /\ Cardinality(Enforced(q)') + InHand(q)' = Cardinality(Enforced(q)) + InHand(q)
              /\ Cardinality(Enforced(q)') \in Nat /\ InHand(q)' = 0
  <2>1. InHand(q)' = 0 /\ InHand(q) = IF Rule[rule].operation = q THEN 1 ELSE 0
    BY <1>2, <1>3 DEF InHand
  <2>2. IsFiniteSet(Enforced(q)) /\ Cardinality(Enforced(q)) \in Nat
    BY Numbers
  <2>3. CASE Rule[rule].operation = q
    <3>1. Enforced(q)' = Enforced(q) \cup {rule} /\ rule \notin Enforced(q)
      BY <1>1, <1>4, <2>3 DEF Enforced
    <3>2. Cardinality(Enforced(q)') = Cardinality(Enforced(q)) + 1
      BY <2>2, <3>1, FS_AddElement
    <3> QED
      BY <2>1, <2>2, <2>3, <3>2
  <2>4. CASE Rule[rule].operation # q
    <3>1. Enforced(q)' = Enforced(q)
      BY <1>1, <1>4, <2>4 DEF Enforced
    <3> QED
      BY <2>1, <2>2, <2>4, <3>1
  <2> QED
    BY <2>3, <2>4
<1>11. Counting'
  <2> DEFINE E(q) == Cardinality(Enforced(q))
  <2>1. /\ E("create_channel") \in Nat /\ E("create_object") \in Nat
        /\ InHand("create_channel") \in {0, 1} /\ InHand("create_object") \in {0, 1}
        /\ Len(DefaultChannels) \in Nat /\ Len(DefaultChannels) * Len(DefaultObjects) \in Nat
    BY Numbers
  <2> QED
    BY <1>9, <1>10, <2>1 DEF Counting
<1> QED
  BY <1>5, <1>6, <1>7, <1>8, <1>11 DEF StageInv

\* Every step of the control thread.
LEMMA ControlKeeps ==
  ASSUME IInv, ControlStep
  PROVE  IInv' /\ Grows
<1>1. StageInv /\ Counting /\ DataInv /\ Types
  BY DEF IInv, StageInv
<1>2. StageInv' /\ Counting' /\ Grows
  <2>1. CASE \E r \in Rules : EmployHousekeepingRule(r) \/ RejectHousekeepingRule(r)
    BY <1>1, <2>1, EmployStep
  <2>2. CASE ExecuteHousekeepingRules \/ TraverseNext \/ TraverseEnd
    BY <1>1, <2>2, TraverseStep
  <2>3. CASE CreateChannelFails \/ CreateChannel \/ CreateObjectFails
    BY <1>1, <2>3, RefuseStep
  <2>4. CASE EmplaceChannel
    BY <1>1, <2>4, EmplaceStep
  <2>5. CASE CreateNewChannelLinker
    BY <1>1, <2>5, LinkChannelStep
  <2>6. CASE CreateEnforcementObject
    BY <1>1, <2>6, CreateObjectStep
  <2>7. CASE CreateNewObjectLinker
    BY <1>1, <2>7, LinkObjectStep
  <2>8. CASE InitializeObject
    BY <1>1, <2>8, InitializeStep
  <2>9. CASE MarkHousekeepingRuleAsEnforced
    BY <1>1, <2>9, MarkStep
  <2>10. CASE \E c \in ChannelIds, o \in ObjectIds, known \in BOOLEAN :
                EmployEnforcementRule(c, o, known)
    BY <1>1, <2>10, EnforcementRuleStep
  <2>11. CASE MarkReady \/ \E value \in BOOLEAN : SetExecuteOnReceive(value)
    BY <1>1, <2>11, AgentStep
  <2> QED
    BY <2>1, <2>2, <2>3, <2>4, <2>5, <2>6, <2>7, <2>8, <2>9, <2>10, <2>11 DEF ControlStep
<1>3. UNCHANGED dataVars
  BY DEF ControlStep, EmployHousekeepingRule, RejectHousekeepingRule, ExecuteHousekeepingRules,
         TraverseNext, TraverseEnd, CreateChannelFails, CreateChannel, EmplaceChannel,
         CreateNewChannelLinker, CreateObjectFails, CreateEnforcementObject,
         CreateNewObjectLinker, InitializeObject, MarkHousekeepingRuleAsEnforced,
         EmployEnforcementRule, MarkReady, SetExecuteOnReceive
<1>4. DataInv'
  BY <1>1, <1>2, <1>3, StillRouted
<1> QED
  BY <1>2, <1>4 DEF IInv

-----------------------------------------------------------------------------
(* The data threads' steps.                                                *)

\* A step that leaves the stage alone.
LEMMA StageUntouched ==
  ASSUME StageInv, Counting, UNCHANGED <<tableVars, channelVars, objectVars, controlVars>>
  PROVE  StageInv' /\ Counting'
<1>1. /\ UNCHANGED <<m_housekeeping_rules, order, m_channels, m_channel_id_to_token_linkers>>
      /\ UNCHANGED <<m_enf_objects, m_object_id_to_token_linkers, control, rule, position>>
  BY DEF tableVars, channelVars, objectVars, controlVars
<1>2. Types'
  BY <1>1 DEF StageInv, Types
<1>3. \A r : ChannelOf(r)' = ChannelOf(r)
  BY <1>1 DEF ChannelOf
<1>4. Handling'
  BY <1>1 DEF StageInv, Handling, InForce, MadeFor, ChannelOf, DoesChannelIdExist,
              DoesChannelTokenExist
<1>5. LinkersMatchObjects'
  BY <1>1 DEF StageInv, LinkersMatchObjects, ChannelOf
<1>6. EnforcedMeansInstalled'
  BY <1>1 DEF StageInv, EnforcedMeansInstalled, Enforced, ChannelOf
<1>7. Counting'
  BY <1>1 DEF Counting, Open, Installed, Enforced, InHand
<1> QED
  BY <1>2, <1>4, <1>5, <1>6, <1>7 DEF StageInv

\* What Routing says of one thread.
Routed(t) ==
  /\ thread[t] # "idle" =>
       request[t] \in ChannelTokens \X ObjectTokens /\ returned[t] = "none"
  /\ thread[t] = "enforce" => channel_ptr[t] = request[t][1]
  /\ (thread[t] # "idle" /\ expected[t] # 0) =>
       /\ expected[t] \in DOMAIN m_enf_objects[request[t][1]]
       /\ m_enf_objects[request[t][1]][expected[t]].token = request[t][2]
  /\ (returned[t] = "enforced" /\ channel_ptr[t] # None) =>
       \/ handler[t] = expected[t]
       \/ /\ expected[t] = 0
          /\ channel_ptr[t] \in ChannelTokens
          /\ handler[t] \in DOMAIN m_enf_objects[channel_ptr[t]]
          /\ m_enf_objects[channel_ptr[t]][handler[t]].token = request[t][2]

\* A thread's step leaves the other threads alone.
LEMMA OneThread ==
  ASSUME DataInv, DataTypes', UNCHANGED m_enf_objects, NEW t \in Threads, Routed(t)',
         \A u \in Threads : u # t =>
           /\ thread'[u] = thread[u] /\ request'[u] = request[u]
           /\ channel_ptr'[u] = channel_ptr[u] /\ handler'[u] = handler[u]
           /\ returned'[u] = returned[u] /\ expected'[u] = expected[u]
  PROVE  DataInv'
<1>1. ASSUME NEW u \in Threads
      PROVE  Routed(u)'
  <2>1. Routed(u)
    BY DEF DataInv, Routing, Routed
  <2>2. CASE u = t
    BY <2>2
  <2>3. CASE u # t
    BY <2>1, <2>3 DEF Routed
  <2> QED
    BY <2>2, <2>3
<1>2. Routing'
  BY <1>1 DEF Routing, Routed
<1> QED
  BY <1>2 DEF DataInv

\* PaioStage::enforce_request.
LEMMA DataKeeps ==
  ASSUME IInv, NEW t \in Threads, DataStep(t)
  PROVE  IInv' /\ UNCHANGED <<channelVars, objectVars>>
<1>1. UNCHANGED <<tableVars, channelVars, objectVars, controlVars>>
  BY DEF DataStep, EnforceRequest, SelectChannel, EnforceMechanism
<1>2. StageInv' /\ Counting'
  BY <1>1, StageUntouched DEF IInv
<1>3. UNCHANGED <<m_enf_objects, m_channels>>
  BY <1>1 DEF objectVars, channelVars
<1>4. /\ DataTypes /\ Routed(t) /\ DataInv
      /\ \A k \in ChannelTokens : m_enf_objects[k] \in Seq(Object) /\ UniqueTokens(m_enf_objects[k])
  BY ObjectsOf DEF IInv, DataInv, Routing, Routed
<1>5. DataInv'
  <2>1. ASSUME NEW q \in ChannelTokens \X ObjectTokens, EnforceRequest(t, q)
        PROVE  DataInv'
    <3>1. /\ thread' = [thread EXCEPT ![t] = IF m_ready THEN "find" ELSE "idle"]
          /\ returned' = [returned EXCEPT ![t] = IF m_ready THEN "none" ELSE "error"]
          /\ request' = [request EXCEPT ![t] = q]
          /\ expected' = [expected EXCEPT ![t] = InPlace(q)]
          /\ channel_ptr' = [channel_ptr EXCEPT ![t] = None]
          /\ handler' = [handler EXCEPT ![t] = 0]
      BY <2>1 DEF EnforceRequest
    <3>2. /\ thread'[t] = IF m_ready THEN "find" ELSE "idle"
          /\ returned'[t] = IF m_ready THEN "none" ELSE "error"
          /\ request'[t] = q /\ expected'[t] = InPlace(q) /\ channel_ptr'[t] = None
      BY <1>4, <3>1 DEF DataTypes
    <3>3. InPlace(q) # 0 => /\ InPlace(q) \in DOMAIN m_enf_objects[q[1]]
                            /\ m_enf_objects[q[1]][InPlace(q)].token = q[2]
      <4>1. q[1] \in ChannelTokens
        BY <2>1
      <4>2. \/ InPlace(q) = 0
            \/ InPlace(q) = SelectEnforcementObject(m_enf_objects[q[1]], q[2])
        BY DEF InPlace
      <4> QED
        BY <1>4, <4>1, <4>2, Selected
    <3>4. Routed(t)'
      BY <1>3, <2>1, <3>2, <3>3 DEF Routed
    <3>5. DataTypes'
      BY <1>4, <3>1 DEF DataTypes
    <3>6. \A u \in Threads : u # t =>
             /\ thread'[u] = thread[u] /\ request'[u] = request[u]
             /\ channel_ptr'[u] = channel_ptr[u] /\ handler'[u] = handler[u]
             /\ returned'[u] = returned[u] /\ expected'[u] = expected[u]
      BY <1>4, <3>1 DEF DataTypes
    <3> QED
      BY <1>3, <1>4, <3>4, <3>5, <3>6, OneThread
  <2>2. ASSUME SelectChannel(t)
        PROVE  DataInv'
    <3>1. PICK k \in FindOutcomes(request[t][1]) : channel_ptr' = [channel_ptr EXCEPT ![t] = k]
      BY <2>2 DEF SelectChannel
    <3>2. k = None \/ k = request[t][1]
      BY <3>1 DEF FindOutcomes
    <3>3. thread[t] = "find" /\ UNCHANGED <<request, handler, expected>> /\ channel_ptr'[t] = k
      BY <1>4, <2>2, <3>1 DEF SelectChannel, DataTypes
    <3>4. CASE k = None
      <4>1. /\ thread' = [thread EXCEPT ![t] = "idle"]
            /\ returned' = [returned EXCEPT ![t] = "enforced"]
        BY <2>2, <3>3, <3>4 DEF SelectChannel
      <4>2. thread'[t] = "idle" /\ returned'[t] = "enforced" /\ DataTypes'
        BY <1>4, <3>1, <3>3, <4>1 DEF DataTypes
      <4>3. Routed(t)'
        BY <3>3, <3>4, <4>2 DEF Routed
      <4>4. \A u \in Threads : u # t =>
               /\ thread'[u] = thread[u] /\ request'[u] = request[u]
               /\ channel_ptr'[u] = channel_ptr[u] /\ handler'[u] = handler[u]
               /\ returned'[u] = returned[u] /\ expected'[u] = expected[u]
        BY <1>4, <3>1, <3>3, <4>1 DEF DataTypes
      <4> QED
        BY <1>3, <1>4, <4>2, <4>3, <4>4, OneThread
    <3>5. CASE k # None
      <4>1. thread' = [thread EXCEPT ![t] = "enforce"] /\ UNCHANGED returned
        BY <2>2, <3>3, <3>5 DEF SelectChannel
      <4>2. thread'[t] = "enforce" /\ DataTypes'
        BY <1>4, <3>1, <3>3, <4>1 DEF DataTypes
      <4>3. Routed(t)'
        BY <1>3, <1>4, <3>2, <3>3, <3>5, <4>1, <4>2 DEF Routed
      <4>4. \A u \in Threads : u # t =>
               /\ thread'[u] = thread[u] /\ request'[u] = request[u]
               /\ channel_ptr'[u] = channel_ptr[u] /\ handler'[u] = handler[u]
               /\ returned'[u] = returned[u] /\ expected'[u] = expected[u]
        BY <1>4, <3>1, <3>3, <4>1 DEF DataTypes
      <4> QED
        BY <1>3, <1>4, <4>2, <4>3, <4>4, OneThread
    <3> QED
      BY <3>4, <3>5
  <2>3. ASSUME EnforceMechanism(t)
        PROVE  DataInv'
    <3> DEFINE k == request[t][1]
               h == SelectEnforcementObject(m_enf_objects[channel_ptr[t]], request[t][2])
    <3>1. /\ handler' = [handler EXCEPT ![t] = h]
          /\ thread' = [thread EXCEPT ![t] = "idle"]
          /\ returned' = [returned EXCEPT ![t] = "enforced"]
          /\ UNCHANGED <<request, channel_ptr, expected>> /\ thread[t] = "enforce"
      BY <2>3 DEF EnforceMechanism
    <3>2. channel_ptr[t] = k /\ k \in ChannelTokens
      BY <1>4, <3>1 DEF Routed
    <3>3. h = expected[t] \/ (expected[t] = 0 /\ h \in DOMAIN m_enf_objects[k]
                                /\ m_enf_objects[k][h].token = request[t][2])
      <4>1. CASE expected[t] = 0
        BY <1>4, <3>2, <4>1, Selected
      <4>2. CASE expected[t] # 0
        <5>1. /\ expected[t] \in DOMAIN m_enf_objects[k]
              /\ m_enf_objects[k][expected[t]].token = request[t][2]
          BY <1>4, <3>1, <4>2 DEF Routed
        <5> QED
          BY <1>4, <3>2, <5>1, ObjectFound
      <4> QED
        BY <4>1, <4>2
    <3> HIDE DEF h
    <3>4. handler'[t] = h /\ thread'[t] = "idle" /\ DataTypes'
      BY <1>4, <3>1 DEF DataTypes
    <3>5. Routed(t)'
      BY <1>3, <3>1, <3>2, <3>3, <3>4 DEF Routed
    <3>6. \A u \in Threads : u # t =>
             /\ thread'[u] = thread[u] /\ request'[u] = request[u]
             /\ channel_ptr'[u] = channel_ptr[u] /\ handler'[u] = handler[u]
             /\ returned'[u] = returned[u] /\ expected'[u] = expected[u]
      BY <1>4, <3>1 DEF DataTypes
    <3> QED
      BY <1>3, <1>4, <3>4, <3>5, <3>6, OneThread
  <2> QED
    BY <2>1, <2>2, <2>3 DEF DataStep
<1> QED
  BY <1>1, <1>2, <1>5 DEF IInv

-----------------------------------------------------------------------------
(* The theorems.                                                           *)

\* Every step keeps the invariant and only adds to the stage.
LEMMA StepKeeps ==
  ASSUME IInv, [Next]_vars
  PROVE  IInv' /\ Grows
<1>1. CASE ControlStep
  BY <1>1, ControlKeeps
<1>2. ASSUME NEW t \in Threads, DataStep(t)
      PROVE  IInv' /\ Grows
  BY <1>2, DataKeeps, UnchangedGrows
<1>3. CASE UNCHANGED vars
  <2>1. UNCHANGED <<tableVars, channelVars, objectVars, controlVars, dataVars>>
    BY <1>3 DEF vars
  <2>2. StageInv' /\ Counting' /\ Grows
    BY <2>1, StageUntouched, UnchangedGrows DEF IInv
  <2>3. DataInv'
    BY <2>1, <2>2, StillRouted DEF IInv, StageInv
  <2> QED
    BY <2>2, <2>3 DEF IInv
<1> QED
  BY <1>1, <1>2, <1>3 DEF Next

\* The inductive invariant.
LEMMA Invariance == Spec => []IInv
BY InitIInv, StepKeeps, PTL DEF Spec

\* Core and SubmissionQueue: in every channel the linkers name the objects in the
\* order of their creation, and no token has two objects, at every step of
\* create_enforcement_object and whatever rules come.
THEOREM LinksAreRight == Spec => []LinkersMatchObjects
<1>1. IInv => LinkersMatchObjects
  BY DEF IInv, StageInv
<1> QED
  BY <1>1, Invariance, PTL

\* HousekeepingTable: a rule marked as enforced is in force, with its channel,
\* its object and the object's initial configuration.
THEOREM MarksAreTrue == Spec => []EnforcedMeansInstalled
<1>1. IInv => EnforcedMeansInstalled
  BY DEF IInv, StageInv
<1> QED
  BY <1>1, Invariance, PTL

\* Core: one channel or object for each rule that is marked, and for the one in
\* hand; none of them twice and no rule half applied.
THEOREM RulesAppliedOnce == Spec => []InstalledOnce
<1>1. IInv => InstalledOnce
  BY DEF IInv, Counting, InstalledOnce, Open
<1> QED
  BY <1>1, Invariance, PTL

\* PaioStage::enforce_request: a request that finds its channel is enforced by
\* the object that was there when the call began, or by one added for it since.
THEOREM RequestsReachObjects == Spec => []RoutedToItsObject
<1>1. IInv => RoutedToItsObject
  BY DEF IInv, DataInv, Routing, RoutedToItsObject
<1> QED
  BY <1>1, Invariance, PTL

\* SubmissionQueue: an object keeps its place and what it is, and its
\* configuration never falls back: only its own rule's initial configuration
\* replaces the default, and only an enforcement rule's any other.
THEOREM ObjectsAreKept == Spec => ObjectsStay
<1>1. ASSUME IInv, [Next]_vars
      PROVE  [\A k \in ChannelTokens :
                \A i \in DOMAIN m_enf_objects[k] :
                  /\ i \in DOMAIN m_enf_objects'[k]
                  /\ m_enf_objects'[k][i].id = m_enf_objects[k][i].id
                  /\ m_enf_objects'[k][i].token = m_enf_objects[k][i].token
                  /\ m_enf_objects'[k][i].type = m_enf_objects[k][i].type
                  /\ \/ m_enf_objects'[k][i].settings = m_enf_objects[k][i].settings
                     \/ /\ m_enf_objects[k][i].settings = "default"
                        /\ m_enf_objects'[k][i].settings = "initial"
                     \/ m_enf_objects'[k][i].settings = "rule"]_vars
  BY <1>1, StepKeeps DEF Grows
<1> QED
  BY <1>1, Invariance, PTL DEF Spec, ObjectsStay

-----------------------------------------------------------------------------
(* Traversals of the table.                                                *)

\* Nothing is left to do for a rule, or the stage cannot do it.
Done(table, r) ==
  \/ table[r] # "pending"
  \/ Rule[r].operation = "create_object" /\ Rule[r].type = "other"

\* How far a traversal has come: the rules it has passed are done, the one in
\* hand is the one it stands at.
Traversing ==
  /\ \A r \in Rules :
       m_housekeeping_rules[r] # "absent" => \E i \in DOMAIN order : order[i] = r
  /\ control = "idle" => position = 0
  /\ position # 0 => \A i \in DOMAIN order : i < position => Done(m_housekeeping_rules, order[i])
  /\ (position # 0 /\ control \notin {"idle", "traverse"}) => rule = order[position]
  /\ AcknowledgedTraversalIsComplete

\* Core's constructor leaves an empty table.
LEMMA InitTraversing == Init => Traversing
BY DEF Init, Traversing, AcknowledgedTraversalIsComplete

\* A step that leaves the table, the rule in hand and the traversal alone.
LEMMA SameTraversal ==
  ASSUME Traversing, UNCHANGED <<m_housekeeping_rules, order, position, rule>>,
         \/ UNCHANGED <<control, ack>>
         \/ control = "idle" /\ control' = "idle" /\ ack'[1] # "execute"
         \/ /\ control \notin {"idle", "traverse"}
            /\ control' \notin {"idle", "traverse"}
  PROVE  Traversing'
<1>1. \A r : Done(m_housekeeping_rules', r) <=> Done(m_housekeeping_rules, r)
  BY DEF Done
<1>2. AcknowledgedTraversalIsComplete'
  <2>1. <<"execute", "ok">>[1] = "execute"
    OBVIOUS
  <2> QED
    BY <2>1 DEF Traversing, AcknowledgedTraversalIsComplete
<1> QED
  BY <1>1, <1>2 DEF Traversing

\* execute_housekeeping_rule returns to a traversal only with a rule that is done.
LEMMA ReturnsToTraversal ==
  ASSUME Types, Traversing, NEW result, ReturnStatus(result), order' = order,
         control \notin {"idle", "traverse"},
         m_housekeeping_rules'[rule] # "pending" \/ result = "error" \/ Done(m_housekeeping_rules, rule),
         \A r \in Rules : \/ m_housekeeping_rules'[r] = m_housekeeping_rules[r]
                          \/ m_housekeeping_rules[r] = "pending" /\ m_housekeeping_rules'[r] = "enforced"
  PROVE  Traversing'
<1>1. \A r \in Rules : Done(m_housekeeping_rules, r) => Done(m_housekeeping_rules', r)
  BY DEF Done
<1>2. position \in Nat /\ order \in Seq(Rules)
  BY DEF Types
<1>3. \A r \in Rules : m_housekeeping_rules'[r] # "absent" => \E i \in DOMAIN order : order[i] = r
  BY DEF Traversing
<1>4. AcknowledgedTraversalIsComplete'
  <2>1. control' = "idle" => ack'[1] = "employ" \/ ack'[2] = "error"
    BY DEF ReturnStatus, Reply
  <2>2. <<"execute", "ok">>[1] = "execute" /\ <<"execute", "ok">>[2] = "ok"
    OBVIOUS
  <2> QED
    BY <2>1, <2>2 DEF AcknowledgedTraversalIsComplete
<1>5. /\ control' \in {"idle", "traverse"}
      /\ control' = "idle" => position' = 0
      /\ position' # 0 => position # 0 /\ result # "error" /\ position' = position + 1
  BY DEF ReturnStatus
<1>6. ASSUME position' # 0, NEW i \in DOMAIN order, i < position'
      PROVE  Done(m_housekeeping_rules', order[i])
  <2>1. i \in Nat /\ order[i] \in Rules
    BY <1>2
  <2>2. CASE i < position
    BY <1>1, <1>5, <1>6, <2>1, <2>2 DEF Traversing
  <2>3. CASE i = position
    <3>1. order[i] = rule
      BY <1>5, <1>6, <2>3 DEF Traversing
    <3>2. Done(m_housekeeping_rules', rule)
      <4>1. CASE m_housekeeping_rules'[rule] # "pending"
        BY <3>1, <4>1, <2>1 DEF Done
      <4>2. CASE Done(m_housekeeping_rules, rule)
        BY <1>1, <2>1, <3>1, <4>2
      <4> QED
        BY <1>5, <1>6, <4>1, <4>2
    <3> QED
      BY <3>1, <3>2
  <2> QED
    BY <1>2, <1>5, <1>6, <2>1, <2>2, <2>3
<1> QED
  BY <1>3, <1>4, <1>5, <1>6 DEF Traversing

\* Every order of the table has every rule in it.
LEMMA OrdersAreComplete ==
  ASSUME NEW S, NEW s \in Orders(S), NEW r \in S
  PROVE  \E i \in DOMAIN s : s[i] = r
BY DEF Orders

\* Core: no step of a traversal passes a rule that could be executed.
LEMMA TraversalKeeps ==
  ASSUME IInv, Traversing, [Next]_vars
  PROVE  Traversing'
<1>1. /\ Types /\ Handling /\ position \in Nat /\ order \in Seq(Rules)
      /\ m_housekeeping_rules \in [Rules -> {"absent", "pending", "enforced"}]
  BY DEF IInv, StageInv, Types
<1>2. ASSUME NEW r \in Rules, EmployHousekeepingRule(r)
      PROVE  Traversing'
  <2> DEFINE S == {q \in Rules : m_housekeeping_rules'[q] # "absent"}
  <2>1. position' = 0 /\ order' \in Orders(S)
    BY <1>2 DEF EmployHousekeepingRule, Traversing
  <2>2. \A q \in S : \E i \in DOMAIN order' : order'[i] = q
    <3> HIDE DEF S
    <3> QED
      BY <2>1, OrdersAreComplete
  <2>3. AcknowledgedTraversalIsComplete'
    <3>1. control' = "idle" => ack'[1] = "employ"
      BY <1>2 DEF EmployHousekeepingRule, Reply
    <3>2. <<"execute", "ok">>[1] = "execute"
      OBVIOUS
    <3> QED
      BY <3>1, <3>2 DEF AcknowledgedTraversalIsComplete
  <2> QED
    BY <2>1, <2>2, <2>3 DEF Traversing
<1>3. ASSUME NEW r \in Rules, RejectHousekeepingRule(r)
      PROVE  Traversing'
  <2>1. ack'[1] = "employ" /\ control = "idle"
        /\ UNCHANGED <<m_housekeeping_rules, order, position, rule, control>>
    BY <1>3 DEF RejectHousekeepingRule, Reply, tableVars
  <2> QED
    BY <2>1, SameTraversal
<1>4. CASE ExecuteHousekeepingRules
  <2>1. /\ control' = "traverse" /\ position' = 1 /\ UNCHANGED <<m_housekeeping_rules, order>>
    BY <1>4 DEF ExecuteHousekeepingRules, tableVars
  <2>2. \A i \in DOMAIN order : ~(i < 1)
    BY <1>1
  <2> QED
    BY <2>1, <2>2 DEF Traversing, AcknowledgedTraversalIsComplete
<1>5. CASE TraverseNext
  <2>1. /\ position # 0 /\ position \in DOMAIN order /\ UNCHANGED <<m_housekeeping_rules, order>>
        /\ control = "traverse" /\ control' \in {"traverse", "execute"}
    BY <1>1, <1>5 DEF TraverseNext, Handling, tableVars
  <2>2. CASE m_housekeeping_rules[order[position]] = "pending"
    <3>1. position' = position /\ rule' = order[position]
      BY <1>5, <2>2 DEF TraverseNext
    <3> QED
      BY <2>1, <3>1 DEF Traversing, AcknowledgedTraversalIsComplete
  <2>3. CASE m_housekeeping_rules[order[position]] # "pending"
    <3>1. position' = position + 1 /\ control' = "traverse"
      BY <1>5, <2>1, <2>3 DEF TraverseNext
    <3>2. ASSUME NEW i \in DOMAIN order, i < position + 1
          PROVE  Done(m_housekeeping_rules, order[i])
      <4>1. i < position \/ i = position
        BY <1>1, <3>2
      <4> QED
        BY <2>1, <2>3, <4>1 DEF Traversing, Done
    <3> QED
      BY <2>1, <3>1, <3>2 DEF Traversing, AcknowledgedTraversalIsComplete
  <2> QED
    BY <2>2, <2>3
<1>6. CASE TraverseEnd
  <2>1. /\ position' = 0 /\ control' = "idle" /\ UNCHANGED <<m_housekeeping_rules, order>>
        /\ position # 0 /\ position > Len(order)
    BY <1>1, <1>6 DEF TraverseEnd, Handling, tableVars
  <2>2. \A i \in DOMAIN order : Done(m_housekeeping_rules, order[i])
    <3>1. \A i \in DOMAIN order : i < position
      BY <1>1, <2>1
    <3> QED
      BY <2>1, <3>1 DEF Traversing
  <2>3. \A r \in Rules : m_housekeeping_rules[r] = "pending" => Done(m_housekeeping_rules, r)
    BY <2>2 DEF Traversing
  <2>4. AcknowledgedTraversalIsComplete'
    BY <2>1, <2>3 DEF AcknowledgedTraversalIsComplete, Done
  <2> QED
    BY <2>1, <2>4 DEF Traversing
<1>7. CASE CreateChannelFails
  <2>1. ReturnStatus("error") /\ control = "execute" /\ UNCHANGED <<m_housekeeping_rules, order>>
    BY <1>7 DEF CreateChannelFails, Executing, tableVars
  <2> QED
    BY <1>1, <2>1, ReturnsToTraversal
<1>8. CASE CreateObjectFails
  <2>1. control = "execute" /\ UNCHANGED <<m_housekeeping_rules, order>>
    BY <1>8 DEF CreateObjectFails, Executing, tableVars
  <2>2. \/ ReturnStatus("error")
        \/ ReturnStatus("not_supported") /\ Done(m_housekeeping_rules, rule)
    BY <1>8 DEF CreateObjectFails, Executing, Done
  <2> QED
    BY <1>1, <2>1, <2>2, ReturnsToTraversal
<1>9. CASE MarkHousekeepingRuleAsEnforced
  <2>1. rule \in Rules /\ m_housekeeping_rules[rule] = "pending"
    BY <1>1, <1>9 DEF MarkHousekeepingRuleAsEnforced, Handling
  <2>2. /\ ReturnStatus("ok") /\ control = "mark" /\ order' = order
        /\ m_housekeeping_rules' = [m_housekeeping_rules EXCEPT ![rule] = "enforced"]
    BY <1>9 DEF MarkHousekeepingRuleAsEnforced
  <2>3. /\ m_housekeeping_rules'[rule] = "enforced"
        /\ \A r \in Rules : r # rule => m_housekeeping_rules'[r] = m_housekeeping_rules[r]
    BY <1>1, <2>1, <2>2
  <2> QED
    BY <1>1, <2>1, <2>2, <2>3, ReturnsToTraversal
<1>10. CASE \/ CreateChannel \/ EmplaceChannel \/ CreateNewChannelLinker
            \/ CreateEnforcementObject \/ CreateNewObjectLinker \/ InitializeObject
  <2>1. /\ control \notin {"idle", "traverse"} /\ control' \notin {"idle", "traverse"}
        /\ UNCHANGED <<m_housekeeping_rules, order, position, rule>>
    BY <1>10 DEF CreateChannel, EmplaceChannel, CreateNewChannelLinker, Executing,
                 CreateEnforcementObject, CreateNewObjectLinker, InitializeObject, tableVars
  <2> QED
    BY <2>1, SameTraversal
<1>11. ASSUME NEW c, NEW o, NEW known, EmployEnforcementRule(c, o, known)
       PROVE  Traversing'
  <2>1. ack'[1] = "configure" /\ control = "idle"
        /\ UNCHANGED <<m_housekeeping_rules, order, position, rule, control>>
    BY <1>11 DEF EmployEnforcementRule, Reply, tableVars
  <2> QED
    BY <2>1, SameTraversal
<1>12. CASE UNCHANGED <<tableVars, controlVars>>
  BY <1>12, SameTraversal DEF tableVars, controlVars
<1>13. CASE MarkReady \/ \E value \in BOOLEAN : SetExecuteOnReceive(value)
  BY <1>12, <1>13 DEF MarkReady, SetExecuteOnReceive
<1>14. ASSUME NEW t \in Threads, DataStep(t)
       PROVE  Traversing'
  BY <1>12, <1>14 DEF DataStep, EnforceRequest, SelectChannel, EnforceMechanism
<1>15. CASE UNCHANGED vars
  BY <1>12, <1>15 DEF vars
<1>16. CASE ControlStep
  BY <1>2, <1>3, <1>4, <1>5, <1>6, <1>7, <1>8, <1>9, <1>10, <1>11, <1>13, <1>16 DEF ControlStep
<1> QED
  BY <1>14, <1>15, <1>16 DEF Next

\* Core::execute_housekeeping_rules answers ok only after it came through the
\* whole table, for any number of rules, in any order, whatever had failed before.
THEOREM TraversalsAreComplete == Spec => []AcknowledgedTraversalIsComplete
<1>1. Traversing => AcknowledgedTraversalIsComplete
  BY DEF Traversing
<1>2. Spec => []Traversing
  BY InitTraversing, TraversalKeeps, Invariance, PTL DEF Spec
<1> QED
  BY <1>1, <1>2, PTL

-----------------------------------------------------------------------------
(* The stage as a table of policies.                                       *)

\* A linked identifier is that of the channel under the linked token, and every
\* channel is linked but the one whose link comes next.
Linking ==
  /\ \A i \in DOMAIN m_channel_id_to_token_linkers :
       m_channels[m_channel_id_to_token_linkers[i][2]] = m_channel_id_to_token_linkers[i][1]
  /\ \A k \in ChannelTokens : m_channels[k] # None =>
       \/ \E i \in DOMAIN m_channel_id_to_token_linkers :
            m_channel_id_to_token_linkers[i] = <<m_channels[k], k>>
       \/ control = "link_channel" /\ k = Rule[rule].token

\* The channel a data thread goes to is there, and so is the object it was given.
Found(t) ==
  /\ request[t] \in ChannelTokens \X ObjectTokens
  /\ returned[t] \in {"none", "error", "enforced"}
  /\ thread[t] = "enforce" => m_channels[request[t][1]] # None
  /\ (returned[t] = "enforced" /\ channel_ptr[t] # None) =>
       /\ channel_ptr[t] \in ChannelTokens
       /\ handler[t] = 0 \/ handler[t] \in DOMAIN m_enf_objects[channel_ptr[t]]
Finding == \A t \in Threads : Found(t)

\* Core's constructor links every channel it makes.
LEMMA InitLinking == Init => Linking /\ Finding
<1> SUFFICES ASSUME Init PROVE Linking /\ Finding
  OBVIOUS
<1> DEFINE D == DefaultChannels
<1>1. /\ D \in Seq(ChannelIds \X ChannelTokens) /\ m_channel_id_to_token_linkers = D
      /\ \A i, j \in DOMAIN D : i # j => D[i][2] # D[j][2]
  BY StageAssumption DEF StageAssumption, Init
<1> HIDE DEF D
<1>2. ASSUME NEW n \in DOMAIN D
      PROVE  D[n][2] \in ChannelTokens /\ m_channels[D[n][2]] = D[n][1]
  <2>1. /\ D[n] = <<D[n][1], D[n][2]>> /\ D[n][1] \in ChannelIds
        /\ D[n][2] \in ChannelTokens /\ D[n][2] \in DefaultTokens
    BY <1>1 DEF DefaultTokens, D
  <2>2. \A i : \A m \in DOMAIN D : D[m] = <<i, D[n][2]>> => i = D[n][1]
    BY <1>1
  <2>3. (CHOOSE i \in ChannelIds : \E m \in DOMAIN D : D[m] = <<i, D[n][2]>>) = D[n][1]
    BY <2>1, <2>2
  <2>4. m_channels[D[n][2]] = CHOOSE i \in ChannelIds : \E m \in DOMAIN D : D[m] = <<i, D[n][2]>>
    BY <2>1 DEF Init, D
  <2> QED
    BY <2>1, <2>3, <2>4
<1>3. ASSUME NEW k \in ChannelTokens, m_channels[k] # None
      PROVE  \E i \in DOMAIN D : D[i] = <<m_channels[k], k>>
  <2>1. k \in DefaultTokens
    BY <1>3 DEF Init
  <2>2. PICK n \in DOMAIN D : D[n][2] = k
    BY <2>1 DEF DefaultTokens, D
  <2>3. D[n] = <<D[n][1], D[n][2]>>
    BY <1>1
  <2> QED
    BY <1>2, <2>2, <2>3
<1>4. Linking
  BY <1>1, <1>2, <1>3 DEF Linking
<1>5. Finding
  <2>1. (CHOOSE q \in ChannelTokens \X ObjectTokens : TRUE) \in ChannelTokens \X ObjectTokens
    <3>1. PICK k \in ChannelTokens, x \in ObjectTokens : TRUE
      BY StageAssumption DEF StageAssumption
    <3>2. <<k, x>> \in ChannelTokens \X ObjectTokens
      OBVIOUS
    <3> QED
      BY <3>2
  <2> QED
    BY <2>1 DEF Init, Finding, Found
<1> QED
  BY <1>4, <1>5

\* Every step keeps the channels and the objects linked.
LEMMA LinkingKeeps ==
  ASSUME IInv, Linking, [Next]_vars
  PROVE  Linking'
<1> DEFINE L == m_channel_id_to_token_linkers
<1>1. Types /\ Handling /\ L \in Seq(ChannelIds \X ChannelTokens) /\ UniqueIds(L)
  BY DEF IInv, StageInv, Types, Handling
<1>2. CASE UNCHANGED channelVars /\ control # "link_channel"
  BY <1>2 DEF Linking, channelVars
<1>3. CASE UNCHANGED <<channelVars, control, rule>>
  BY <1>3 DEF Linking, channelVars
<1>4. CASE EmplaceChannel
  <2> DEFINE k == Rule[rule].token
             c == Rule[rule].channel_id
  <2>1. /\ rule \in Rules /\ Rule[rule].operation = "create_channel" /\ m_channels[k] = None
        /\ m_channels' = [m_channels EXCEPT ![k] = c] /\ control' = "link_channel"
        /\ UNCHANGED <<L, rule>> /\ control # "link_channel"
    BY <1>1, <1>4 DEF EmplaceChannel, Handling, DoesChannelTokenExist
  <2>2. k \in ChannelTokens /\ c \in ChannelIds
    BY <2>1, RuleFields
  <2>3. Rule[rule'].token = k
    BY <2>1
  <2> HIDE DEF k, c
  <2>4. m_channels'[k] = c /\ \A l \in ChannelTokens : l # k => m_channels'[l] = m_channels[l]
    BY <1>1, <2>1, <2>2 DEF Types
  <2>5. \A i \in DOMAIN L : L[i][2] \in ChannelTokens /\ L[i][1] # None
    BY <1>1, StageAssumption DEF StageAssumption
  <2>6. \A i \in DOMAIN L : m_channels'[L[i][2]] = L[i][1]
    BY <2>1, <2>4, <2>5 DEF Linking
  <2>7. ASSUME NEW l \in ChannelTokens, m_channels'[l] # None
        PROVE  (\E i \in DOMAIN L : L[i] = <<m_channels'[l], l>>) \/ l = k
    BY <2>1, <2>4, <2>7 DEF Linking
  <2> QED
    BY <2>1, <2>3, <2>6, <2>7 DEF Linking
<1>5. CASE CreateNewChannelLinker
  <2> DEFINE k == Rule[rule].token
             c == Rule[rule].channel_id
             M == m_channel_id_to_token_linkers'
  <2>1. /\ rule \in Rules /\ Rule[rule].operation = "create_channel" /\ m_channels[k] = c
        /\ M = Append(L, <<c, k>>) /\ UNCHANGED m_channels
    BY <1>1, <1>5 DEF CreateNewChannelLinker, Handling
  <2>2. k \in ChannelTokens /\ c \in ChannelIds
    BY <2>1, RuleFields
  <2>3. <<c, k>> \in ChannelIds \X ChannelTokens /\ <<c, k>>[1] = c /\ <<c, k>>[2] = k
    BY <2>2
  <2>k. k = Rule[rule].token
    OBVIOUS
  <2> HIDE DEF k, c, L, M
  <2>4. /\ Len(L) \in Nat /\ DOMAIN L = 1..Len(L) /\ DOMAIN M = 1..Len(L) + 1
        /\ \A i \in 1..Len(L) : M[i] = L[i]
        /\ M[Len(L) + 1] = <<c, k>>
    BY <1>1, <2>1, <2>3, AppendProperties
  <2>5. \A i \in DOMAIN M : m_channels[M[i][2]] = M[i][1]
    <3>1. \A i \in 1..Len(L) : m_channels[L[i][2]] = L[i][1]
      BY <2>4 DEF Linking, L
    <3>2. m_channels[<<c, k>>[2]] = <<c, k>>[1]
      BY <2>1, <2>3
    <3> QED
      BY <2>4, <3>1, <3>2
  <2>6. ASSUME NEW l \in ChannelTokens, m_channels[l] # None
        PROVE  \E i \in DOMAIN M : M[i] = <<m_channels[l], l>>
    <3>1. CASE l = k
      <4>1. Len(L) + 1 \in DOMAIN M
        BY <2>4
      <4> QED
        BY <2>1, <2>4, <3>1, <4>1
    <3>2. CASE l # k
      <4>1. \E i \in DOMAIN L : L[i] = <<m_channels[l], l>>
        BY <2>6, <2>k, <3>2 DEF Linking, L
      <4> QED
        BY <2>4, <4>1
    <3> QED
      BY <3>1, <3>2
  <2> QED
    BY <2>1, <2>5, <2>6 DEF Linking, M
<1>6. ASSUME NEW t \in Threads, DataStep(t)
      PROVE  Linking'
  BY <1>3, <1>6 DEF DataStep, EnforceRequest, SelectChannel, EnforceMechanism, controlVars
<1>7. CASE UNCHANGED vars
  BY <1>3, <1>7 DEF vars, controlVars
<1>8. CASE ControlStep
  <2>1. EmplaceChannel \/ CreateNewChannelLinker \/ (UNCHANGED channelVars /\ control # "link_channel")
    BY <1>8 DEF ControlStep, EmployHousekeepingRule, RejectHousekeepingRule,
           ExecuteHousekeepingRules, TraverseNext, TraverseEnd, CreateChannelFails, CreateChannel,
           CreateObjectFails, CreateEnforcementObject, CreateNewObjectLinker, InitializeObject,
           MarkHousekeepingRuleAsEnforced, EmployEnforcementRule, MarkReady, SetExecuteOnReceive,
           Executing
  <2> QED
    BY <1>2, <1>4, <1>5, <2>1
<1> QED
  BY <1>6, <1>7, <1>8 DEF Next

\* Every step keeps what data threads have found.
LEMMA FindingKeeps ==
  ASSUME IInv, IInv', Grows, Finding, [Next]_vars
  PROVE  Finding'
<1>1. /\ DataTypes /\ Types /\ Types'
      /\ \A t \in Threads : Routed(t) /\ Found(t)
      /\ \A k \in ChannelTokens : m_enf_objects[k] \in Seq(Object) /\ UniqueTokens(m_enf_objects[k])
  BY ObjectsOf DEF IInv, StageInv, DataInv, Routing, Routed, Finding
<1>2. CASE UNCHANGED dataVars
  BY <1>1, <1>2 DEF Finding, Found, Grows, dataVars
<1>3. ASSUME NEW t \in Threads, DataStep(t)
      PROVE  Finding'
  <2>1. UNCHANGED <<m_channels, m_enf_objects, control>>
    BY <1>3 DEF DataStep, EnforceRequest, SelectChannel, EnforceMechanism,
                channelVars, objectVars, controlVars
  <2>2. ASSUME NEW u \in Threads, u # t
        PROVE  Found(u)'
    <3>1. /\ thread'[u] = thread[u] /\ request'[u] = request[u]
          /\ channel_ptr'[u] = channel_ptr[u] /\ handler'[u] = handler[u]
          /\ returned'[u] = returned[u]
      <4>1. CASE \E q \in ChannelTokens \X ObjectTokens : EnforceRequest(t, q)
        BY <1>1, <2>2, <4>1 DEF EnforceRequest, DataTypes
      <4>2. CASE SelectChannel(t)
        BY <1>1, <2>2, <4>2 DEF SelectChannel, DataTypes
      <4>3. CASE EnforceMechanism(t)
        BY <1>1, <2>2, <4>3 DEF EnforceMechanism, DataTypes
      <4> QED
        BY <1>3, <4>1, <4>2, <4>3 DEF DataStep
    <3> QED
      BY <1>1, <2>1, <3>1 DEF Found
  <2>3. ASSUME NEW q \in ChannelTokens \X ObjectTokens, EnforceRequest(t, q)
        PROVE  Found(t)'
    <3>1. /\ thread'[t] \in {"idle", "find"} /\ returned'[t] \in {"none", "error"}
          /\ request'[t] = q
      BY <1>1, <2>3 DEF EnforceRequest, DataTypes
    <3> QED
      BY <2>3, <3>1 DEF Found
  <2>4. ASSUME SelectChannel(t)
        PROVE  Found(t)'
    <3>1. PICK k \in FindOutcomes(request[t][1]) : channel_ptr' = [channel_ptr EXCEPT ![t] = k]
      BY <2>4 DEF SelectChannel
    <3>2. k = None \/ (k = request[t][1] /\ m_channels[k] # None)
      BY <3>1 DEF FindOutcomes, DoesChannelTokenExist
    <3>3. /\ channel_ptr'[t] = k /\ request'[t] = request[t] /\ thread[t] = "find"
          /\ k = None => thread'[t] = "idle" /\ returned'[t] = "enforced"
          /\ k # None => thread'[t] = "enforce" /\ returned'[t] = returned[t]
      BY <1>1, <2>4, <3>1 DEF SelectChannel, DataTypes
    <3>4. returned[t] = "none" /\ Found(t)
      BY <1>1, <3>3 DEF Routed
    <3>5. /\ request'[t] \in ChannelTokens \X ObjectTokens
          /\ returned'[t] \in {"none", "error", "enforced"}
      BY <3>3, <3>4 DEF Found
    <3>6. thread'[t] = "enforce" => m_channels'[request'[t][1]] # None
      BY <2>1, <3>2, <3>3
    <3>7. ~(returned'[t] = "enforced" /\ channel_ptr'[t] # None)
      BY <3>3, <3>4
    <3> QED
      BY <3>5, <3>6, <3>7 DEF Found
  <2>5. ASSUME EnforceMechanism(t)
        PROVE  Found(t)'
    <3>1. /\ thread'[t] = "idle" /\ returned'[t] = "enforced" /\ thread[t] = "enforce"
          /\ channel_ptr'[t] = channel_ptr[t] /\ request'[t] = request[t]
          /\ handler'[t] = SelectEnforcementObject(m_enf_objects[channel_ptr[t]], request[t][2])
      BY <1>1, <2>5 DEF EnforceMechanism, DataTypes
    <3>2. channel_ptr[t] \in ChannelTokens
      BY <1>1, <3>1 DEF Routed
    <3>3. handler'[t] = 0 \/ handler'[t] \in DOMAIN m_enf_objects[channel_ptr[t]]
      BY <1>1, <3>1, <3>2, Selected
    <3>4. /\ request'[t] \in ChannelTokens \X ObjectTokens
          /\ returned'[t] \in {"none", "error", "enforced"}
      BY <1>1, <3>1 DEF Found
    <3>5. /\ channel_ptr'[t] \in ChannelTokens
          /\ handler'[t] = 0 \/ handler'[t] \in DOMAIN m_enf_objects'[channel_ptr'[t]]
      BY <2>1, <3>1, <3>2, <3>3
    <3> QED
      BY <3>1, <3>4, <3>5 DEF Found
  <2> QED
    BY <1>3, <2>2, <2>3, <2>4, <2>5 DEF DataStep, Finding
<1>4. ControlStep \/ UNCHANGED vars => UNCHANGED dataVars
  BY DEF vars, ControlStep, EmployHousekeepingRule, RejectHousekeepingRule,
         ExecuteHousekeepingRules, TraverseNext, TraverseEnd, CreateChannelFails, CreateChannel,
         EmplaceChannel, CreateNewChannelLinker, CreateObjectFails, CreateEnforcementObject,
         CreateNewObjectLinker, InitializeObject, MarkHousekeepingRuleAsEnforced,
         EmployEnforcementRule, MarkReady, SetExecuteOnReceive
<1> QED
  BY <1>2, <1>3, <1>4 DEF Next

\* What the table has for the token of an object, and for any other.
LEMMA PolicyFound ==
  ASSUME NEW objects \in Seq(Object), UniqueTokens(objects), NEW i \in DOMAIN objects
  PROVE  PolicyOf(objects, objects[i].token) =
           [id |-> objects[i].id, type |-> objects[i].type, settings |-> objects[i].settings]
<1>1. SelectEnforcementObject(objects, objects[i].token) = i
  BY ObjectFound
<1>2. i # 0
  OBVIOUS
<1> QED
  BY <1>1, <1>2 DEF PolicyOf

LEMMA PolicyMissing ==
  ASSUME NEW objects, NEW token, \A i \in DOMAIN objects : objects[i].token # token
  PROVE  PolicyOf(objects, token) = NoPolicy
BY ObjectMissing DEF PolicyOf

\* A policy is not the absence of one.
LEMMA PolicyIsNone ==
  ASSUME NEW o \in Object
  PROVE  [id |-> o.id, type |-> o.type, settings |-> o.settings] # NoPolicy
<1>1. o.type # "none"
  BY DEF Object
<1> DEFINE p == [id |-> o.id, type |-> o.type, settings |-> o.settings]
<1>2. p.type # NoPolicy.type
  BY <1>1 DEF NoPolicy
<1> QED
  BY <1>2

\* A linked identifier is that of a channel, under the token of the link.
LEMMA LinkedChannel ==
  ASSUME StageInv, Linking, NEW id, GetDiffToken(m_channel_id_to_token_linkers, id) # None
  PROVE  /\ GetDiffToken(m_channel_id_to_token_linkers, id) \in ChannelTokens
         /\ m_channels[GetDiffToken(m_channel_id_to_token_linkers, id)] = id
<1> DEFINE L == m_channel_id_to_token_linkers
<1>1. L \in Seq(ChannelIds \X ChannelTokens) /\ UniqueIds(L)
  BY DEF StageInv, Types, Handling
<1>2. PICK i \in DOMAIN L : L[i][1] = id
  BY DiffTokenMissing
<1>3. GetDiffToken(L, id) = L[i][2]
  BY <1>1, <1>2, DiffTokenFound
<1> QED
  BY <1>1, <1>2, <1>3 DEF Linking

\* What became of a call, by where it ended.
LEMMA OutcomeFacts ==
  ASSUME NEW t
  PROVE  /\ returned[t] = "none" => OutcomeOf(t) = Outcome("none")
         /\ returned[t] = "error" => OutcomeOf(t) = Outcome("refused")
         /\ (returned[t] = "enforced" /\ channel_ptr[t] = None) => OutcomeOf(t) = Outcome("passed")
         /\ (returned[t] = "enforced" /\ channel_ptr[t] # None /\ handler[t] = 0) =>
              OutcomeOf(t) = Outcome("no_match")
         /\ (returned[t] = "enforced" /\ channel_ptr[t] # None /\ handler[t] # 0) =>
              OutcomeOf(t) = [kind |-> "governed",
                              id |-> m_enf_objects[channel_ptr[t]][handler[t]].id,
                              type |-> m_enf_objects[channel_ptr[t]][handler[t]].type]
BY DEF OutcomeOf

LEMMA OutcomeFactsAfter ==
  ASSUME NEW t
  PROVE  /\ returned'[t] = "none" => OutcomeOf(t)' = Outcome("none")
         /\ returned'[t] = "error" => OutcomeOf(t)' = Outcome("refused")
         /\ (returned'[t] = "enforced" /\ channel_ptr'[t] = None) => OutcomeOf(t)' = Outcome("passed")
         /\ (returned'[t] = "enforced" /\ channel_ptr'[t] # None /\ handler'[t] = 0) =>
              OutcomeOf(t)' = Outcome("no_match")
         /\ (returned'[t] = "enforced" /\ channel_ptr'[t] # None /\ handler'[t] # 0) =>
              OutcomeOf(t)' = [kind |-> "governed",
                               id |-> m_enf_objects'[channel_ptr'[t]][handler'[t]].id,
                               type |-> m_enf_objects'[channel_ptr'[t]][handler'[t]].type]
BY DEF OutcomeOf, Outcome

\* The outcome of a call that is over does not change: its object stays.
LEMMA OutcomeStays ==
  ASSUME NEW t \in Threads, Found(t), Grows,
         returned'[t] = returned[t], channel_ptr'[t] = channel_ptr[t], handler'[t] = handler[t]
  PROVE  OutcomeOf(t)' = OutcomeOf(t)
<1>1. CASE returned[t] = "enforced" /\ channel_ptr[t] # None /\ handler[t] # 0
  <2> DEFINE k == channel_ptr[t]
             i == handler[t]
  <2>1. k \in ChannelTokens /\ i \in DOMAIN m_enf_objects[k]
    BY <1>1 DEF Found
  <2>2. /\ m_enf_objects'[k][i].id = m_enf_objects[k][i].id
        /\ m_enf_objects'[k][i].type = m_enf_objects[k][i].type
    BY <2>1 DEF Grows
  <2> QED
    BY <1>1, <2>2, OutcomeFacts, OutcomeFactsAfter
<1>2. CASE ~(returned[t] = "enforced" /\ channel_ptr[t] # None /\ handler[t] # 0)
  BY <1>2, OutcomeFacts, OutcomeFactsAfter DEF Found
<1> QED
  BY <1>1, <1>2

\* The table has a row for every channel token and in it one for every object's.
LEMMA TableShape ==
  /\ DOMAIN Table = ChannelTokens
  /\ \A k \in ChannelTokens : DOMAIN Table[k] = ObjectTokens
BY DEF Table

PolicyVars == <<Accepted, Applied, m_channels, Table, Opening, m_ready, Calls, request, Outcomes>>
PolicyStep == Policies!Next \/ UNCHANGED PolicyVars

\* The control thread moves no call.
LEMMA CallsStay ==
  ASSUME Finding, Grows, UNCHANGED dataVars
  PROVE  UNCHANGED <<Calls, request, Outcomes>>
<1>1. UNCHANGED <<thread, request, channel_ptr, handler, returned>>
  BY DEF dataVars
<1>2. Calls' = Calls
  BY <1>1 DEF Calls
<1>3. \A t \in Threads : OutcomeOf(t)' = OutcomeOf(t)
  BY <1>1, OutcomeStays DEF Finding
<1>4. Outcomes' = Outcomes
  BY <1>3 DEF Outcomes
<1> QED
  BY <1>1, <1>2, <1>4

\* A step of the control thread that requests do not see.
LEMMA Unseen ==
  ASSUME Finding, Grows, UNCHANGED <<dataVars, m_channels, m_enf_objects, m_ready>>,
         Accepted' = Accepted, Applied' = Applied, Opening' = Opening
  PROVE  PolicyStep
<1>1. UNCHANGED <<Calls, request, Outcomes>>
  BY CallsStay
<1>2. Table' = Table
  BY DEF Table
<1> QED
  BY <1>1, <1>2 DEF PolicyStep, PolicyVars

\* The late steps of a rule's execution: it has taken effect.
Late == {"link_channel", "link_object", "initialize", "mark"}

\* The rules that have taken effect, outside and inside those steps.
LEMMA AppliedFacts ==
  /\ control \notin Late => Applied = {r \in Rules : m_housekeeping_rules[r] = "enforced"}
  /\ control \in Late =>
       Applied = {r \in Rules : m_housekeeping_rules[r] = "enforced" \/ r = rule}
BY DEF Applied, InEffect, Late

LEMMA AppliedFactsAfter ==
  /\ control' \notin Late => Applied' = {r \in Rules : m_housekeeping_rules'[r] = "enforced"}
  /\ control' \in Late =>
       Applied' = {r \in Rules : m_housekeeping_rules'[r] = "enforced" \/ r = rule'}
BY DEF Applied, InEffect, Late

\* Agent::employ_housekeeping_rule accepts the rule.
LEMMA EmployAccepts ==
  ASSUME IInv, Finding, Grows, NEW r \in Rules, EmployHousekeepingRule(r)
  PROVE  PolicyStep
<1>1. m_housekeeping_rules \in [Rules -> {"absent", "pending", "enforced"}]
  BY DEF IInv, StageInv, Types
<1>2. /\ UNCHANGED <<m_channels, m_enf_objects, m_ready, dataVars>>
      /\ control = "idle" /\ control' \in {"idle", "execute"}
      /\ m_housekeeping_rules[r] = "absent"
      /\ m_housekeeping_rules' = [m_housekeeping_rules EXCEPT ![r] = "pending"]
  BY DEF EmployHousekeepingRule, channelVars, objectVars, agentVars
<1>3. Accepted' = Accepted \cup {r} /\ r \notin Accepted
  BY <1>1, <1>2 DEF Accepted
<1>4. Applied' = Applied
  <2>1. {q \in Rules : m_housekeeping_rules'[q] = "enforced"}
          = {q \in Rules : m_housekeeping_rules[q] = "enforced"}
    BY <1>1, <1>2
  <2> QED
    BY <1>2, <2>1, AppliedFacts, AppliedFactsAfter DEF Late
<1>5. Table' = Table /\ Opening' = Opening
  BY <1>2 DEF Table, Opening
<1>6. UNCHANGED <<Calls, request, Outcomes>>
  BY <1>2, CallsStay
<1>7. Policies!Accept(r)
  BY <1>2, <1>3, <1>4, <1>5, <1>6 DEF Policies!Accept
<1> QED
  BY <1>7 DEF PolicyStep, Policies!Next, Policies!ControlStep

\* Core::create_channel is about to emplace a channel.
LEMMA CreateChannelOpens ==
  ASSUME IInv, Finding, Grows, CreateChannel
  PROVE  PolicyStep
<1>1. /\ UNCHANGED <<m_channels, m_enf_objects, m_ready, dataVars, m_housekeeping_rules, rule>>
      /\ control = "execute" /\ control' = "emplace"
  BY DEF CreateChannel, Executing, tableVars, channelVars, objectVars, agentVars
<1>2. Accepted' = Accepted /\ Applied' = Applied /\ Table' = Table
  BY <1>1, AppliedFacts, AppliedFactsAfter DEF Accepted, Table, Late
<1>3. ~Opening /\ Opening' = TRUE
  BY <1>1 DEF Opening
<1>4. UNCHANGED <<Calls, request, Outcomes>>
  BY <1>1, CallsStay
<1>5. Policies!StartOpening
  BY <1>1, <1>2, <1>3, <1>4 DEF Policies!StartOpening
<1> QED
  BY <1>5 DEF PolicyStep, Policies!Next, Policies!ControlStep

\* The emplacement opens the rule's channel.
LEMMA EmplaceOpens ==
  ASSUME IInv, Linking, Finding, Grows, EmplaceChannel
  PROVE  PolicyStep
<1> DEFINE L == m_channel_id_to_token_linkers
<1>1. /\ rule \in Rules /\ m_housekeeping_rules[rule] = "pending"
      /\ Rule[rule].operation = "create_channel"
      /\ m_channels[Rule[rule].token] = None
      /\ GetDiffToken(L, Rule[rule].channel_id) = None
  BY DEF EmplaceChannel, IInv, StageInv, Handling, DoesChannelTokenExist, DoesChannelIdExist
<1>2. /\ UNCHANGED <<m_enf_objects, m_ready, dataVars, m_housekeeping_rules, rule>>
      /\ control = "emplace" /\ control' = "link_channel"
      /\ m_channels' = [m_channels EXCEPT ![Rule[rule].token] = Rule[rule].channel_id]
  BY DEF EmplaceChannel, tableVars, objectVars, agentVars
<1>3. PICK r \in Rules : r = rule
  BY <1>1
<1>4. r \in Accepted \ Applied /\ Accepted' = Accepted /\ Applied' = Applied \cup {r}
  <2>1. /\ Applied = {q \in Rules : m_housekeeping_rules[q] = "enforced"}
        /\ Applied' = {q \in Rules : m_housekeeping_rules[q] = "enforced" \/ q = r}
    BY <1>2, <1>3, AppliedFacts, AppliedFactsAfter DEF Late
  <2> QED
    BY <1>1, <1>2, <1>3, <2>1 DEF Accepted
<1>5. ASSUME NEW k \in ChannelTokens, m_channels[k] = Rule[r].channel_id
      PROVE  FALSE
  <2>1. m_channels[k] # None
    BY <1>5, RuleFields, StageAssumption DEF StageAssumption
  <2>2. PICK i \in DOMAIN L : L[i] = <<m_channels[k], k>>
    BY <1>2, <2>1 DEF Linking
  <2>3. L[i][1] = Rule[r].channel_id
    BY <1>5, <2>2
  <2>4. L \in Seq(ChannelIds \X ChannelTokens) /\ UniqueIds(L)
    BY DEF IInv, StageInv, Types, Handling
  <2> QED
    BY <1>1, <1>3, <2>3, <2>4, NotLinked
<1>6. Table' = Table /\ Opening /\ Opening' = FALSE
  BY <1>2 DEF Table, Opening
<1>7. UNCHANGED <<Calls, request, Outcomes>>
  BY <1>2, CallsStay
<1>8. Policies!OpenChannel(r)
  BY <1>1, <1>2, <1>3, <1>4, <1>5, <1>6, <1>7 DEF Policies!OpenChannel
<1> QED
  BY <1>8 DEF PolicyStep, Policies!Next, Policies!ControlStep

\* create_enforcement_object adds the rule's policy.
LEMMA CreateObjectAdds ==
  ASSUME IInv, IInv', Linking, Finding, Grows, CreateEnforcementObject
  PROVE  PolicyStep
<1> DEFINE k == ChannelOf(rule)
           x == Rule[rule].token
           O == m_enf_objects[k]
           P == m_enf_objects'[k]
           o == [id |-> Rule[rule].object_id, token |-> x,
                 type |-> Rule[rule].type, settings |-> "default"]
           p == [id |-> Rule[rule].object_id, type |-> Rule[rule].type, settings |-> "default"]
<1>1. /\ rule \in Rules /\ m_housekeeping_rules[rule] = "pending"
      /\ Rule[rule].operation = "create_object"
      /\ k # None /\ Rule[rule].type # "other"
      /\ SelectEnforcementObject(O, x) = 0
  BY DEF CreateEnforcementObject, Executing, ObjectExists, IInv, StageInv, Handling
<1>2. k \in ChannelTokens /\ m_channels[k] = Rule[rule].channel_id
  BY <1>1, LinkedChannel DEF ChannelOf, IInv
<1>3. /\ UNCHANGED <<m_channels, m_ready, dataVars, m_housekeeping_rules, rule>>
      /\ control = "execute" /\ control' = "link_object"
      /\ m_enf_objects' = [m_enf_objects EXCEPT ![k] = Append(O, o)]
  BY DEF CreateEnforcementObject, Executing, tableVars, channelVars, agentVars
<1>4. x \in ObjectTokens /\ o \in Object
  BY <1>1, RuleFields DEF Object
<1>5. PICK r \in Rules : r = rule
  BY <1>1
<1>6. r \in Accepted \ Applied /\ Accepted' = Accepted /\ Applied' = Applied \cup {r}
  <2>1. /\ Applied = {q \in Rules : m_housekeeping_rules[q] = "enforced"}
        /\ Applied' = {q \in Rules : m_housekeeping_rules[q] = "enforced" \/ q = r}
    BY <1>3, <1>5, AppliedFacts, AppliedFactsAfter DEF Late
  <2> QED
    BY <1>1, <1>3, <1>5, <2>1 DEF Accepted
<1>7. /\ m_enf_objects \in [ChannelTokens -> Seq(Object)] /\ O \in Seq(Object) /\ UniqueTokens(O)
  BY <1>2, ObjectsOf DEF IInv, StageInv, Types
<1>8. /\ P = Append(O, o)
      /\ \A l \in ChannelTokens : l # k => m_enf_objects'[l] = m_enf_objects[l]
  BY <1>2, <1>3, <1>7
<1>9. /\ o.token = x
      /\ [id |-> o.id, type |-> o.type, settings |-> o.settings] = p
  OBVIOUS
<1>10. P \in Seq(Object) /\ UniqueTokens(P)
  BY <1>2, <1>8 DEF IInv, StageInv, Types, LinkersMatchObjects, UniqueTokens
<1>11. /\ Len(O) \in Nat /\ DOMAIN O = 1..Len(O) /\ DOMAIN P = 1..Len(O) + 1
       /\ \A i \in 1..Len(O) : P[i] = O[i]
       /\ P[Len(O) + 1] = o
  <2> HIDE DEF O, P, o
  <2> QED
    BY <1>4, <1>7, <1>8, AppendProperties
<1> HIDE DEF k, x, O, P, o, p
<1>12. \A i \in DOMAIN O : O[i].token # x
  <2>1. 0 \notin DOMAIN O
    BY <1>11
  <2> QED
    BY <1>1, <1>7, <2>1, Selected
<1>13. PolicyOf(O, x) = NoPolicy
  BY <1>12, PolicyMissing
<1>14. PolicyOf(P, x) = p
  <2>1. Len(O) + 1 \in DOMAIN P
    BY <1>11
  <2> QED
    BY <1>9, <1>10, <1>11, <2>1, PolicyFound
<1>15. ASSUME NEW y, y # x
       PROVE  PolicyOf(P, y) = PolicyOf(O, y)
  <2>1. CASE \E i \in DOMAIN O : O[i].token = y
    <3>1. PICK i \in DOMAIN O : O[i].token = y
      BY <2>1
    <3>2. i \in DOMAIN P /\ P[i] = O[i]
      BY <1>11
    <3> QED
      BY <1>7, <1>10, <3>1, <3>2, PolicyFound
  <2>2. CASE ~\E i \in DOMAIN O : O[i].token = y
    <3>1. \A i \in DOMAIN P : P[i].token # y
      BY <1>9, <1>11, <1>15, <2>2
    <3> QED
      BY <2>2, <3>1, PolicyMissing
  <2> QED
    BY <2>1, <2>2
<1>16. Table[k][x] = NoPolicy /\ Table' = [Table EXCEPT ![k][x] = p]
  <2>1. ASSUME NEW l \in ChannelTokens, NEW y \in ObjectTokens
        PROVE  PolicyOf(m_enf_objects'[l], y) =
                 IF l = k /\ y = x THEN p ELSE PolicyOf(m_enf_objects[l], y)
    BY <1>8, <1>14, <1>15 DEF O, P
  <2>2. Table' = [l \in ChannelTokens |-> [y \in ObjectTokens |->
                    IF l = k /\ y = x THEN p ELSE PolicyOf(m_enf_objects[l], y)]]
    BY <2>1 DEF Table
  <2>3. Table = [l \in ChannelTokens |-> [y \in ObjectTokens |-> PolicyOf(m_enf_objects[l], y)]]
    BY DEF Table
  <2>4. Table[k][x] = NoPolicy
    BY <1>2, <1>4, <1>13, <2>3 DEF O
  <2> QED
    BY <1>2, <1>4, <2>2, <2>3, <2>4
<1>17. Opening' = Opening /\ UNCHANGED <<Calls, request, Outcomes>>
  BY <1>3, CallsStay DEF Opening
<1>18. /\ x = Rule[r].token /\ Rule[r].operation = "create_object" /\ Rule[r].type # "other"
       /\ p = [id |-> Rule[r].object_id, type |-> Rule[r].type, settings |-> "default"]
       /\ m_channels[k] = Rule[r].channel_id
  BY <1>1, <1>2, <1>5 DEF x, p
<1>19. Policies!AddPolicy(r)
  BY <1>2, <1>3, <1>6, <1>16, <1>17, <1>18 DEF Policies!AddPolicy, Policies!NoPolicy, NoPolicy
<1>20. Table' # Table
  <2>1. Rule[r].type # "none" /\ x \in ObjectTokens
    BY <1>2, <1>4, <1>18, RuleFields
  <2>2. p.type # "none" /\ NoPolicy.type = "none"
    BY <1>18, <2>1 DEF NoPolicy
  <2>3. Table'[k][x] = p
    BY <1>2, <1>16, <2>1, TableShape
  <2> QED
    BY <1>16, <2>2, <2>3
<1> QED
  BY <1>19, <1>20 DEF PolicyStep, Policies!Next, Policies!ControlStep, Policies!ChangePolicy

\* A set of numbers that is not empty has a least element.
LEMMA LeastNumber ==
  ASSUME NEW S \in SUBSET Nat, S # {}
  PROVE  \E m \in S : \A n \in S : ~(n < m)
<1> DEFINE Less == {p \in Nat \X Nat : p[1] < p[2]}
<1>1. IsWellFoundedOn(Less, Nat) /\ \A m, n \in Nat : <<n, m>> \in Less <=> n < m
  BY NatLessThanWellFounded DEF OpToRel
<1> HIDE DEF Less
<1>2. PICK m \in S : \A n \in S : ~(<<n, m>> \in Less)
  BY <1>1, WFMin
<1> QED
  BY <1>1, <1>2

\* get_enforcement_object_diff_token finds one of the links of an identifier: two
\* objects may have the same, only their tokens are told apart.
LEMMA LinkOf ==
  ASSUME NEW S, NEW L \in Seq(S), NEW id, GetDiffToken(L, id) # None
  PROVE  \E i \in DOMAIN L : L[i][1] = id /\ L[i][2] = GetDiffToken(L, id)
<1> DEFINE T == {i \in DOMAIN L : L[i][1] = id}
           n == CHOOSE i \in DOMAIN L : L[i][1] = id /\ \A j \in 1..i - 1 : ~(L[j][1] = id)
<1>1. \E i \in DOMAIN L : L[i][1] = id
  BY DiffTokenMissing
<1>2. DOMAIN L = 1..Len(L) /\ Len(L) \in Nat /\ T \in SUBSET Nat /\ T # {}
  BY <1>1
<1>3. PICK m \in T : \A i \in T : ~(i < m)
  <2> HIDE DEF T
  <2> QED
    BY <1>2, LeastNumber
<1>4. m \in DOMAIN L /\ L[m][1] = id /\ \A j \in 1..m - 1 : ~(L[j][1] = id)
  BY <1>2, <1>3
<1>5. n \in DOMAIN L /\ L[n][1] = id
  BY <1>4
<1>6. FirstIndex(L, LAMBDA l : l[1] = id) = n
  BY <1>1 DEF FirstIndex
<1> HIDE DEF n
<1>7. n # 0
  BY <1>2, <1>5
<1>8. GetDiffToken(L, id) = L[n][2]
  BY <1>6, <1>7 DEF GetDiffToken
<1> QED
  BY <1>5, <1>8

\* In the table a configuration is a change of the settings of one limiter.
LEMMA ConfiguredTable ==
  ASSUME StageInv, StageInv', NEW k \in ChannelTokens, NEW x \in ObjectTokens,
         NEW settings \in {"initial", "rule"}, OnlySettings(k, x, settings),
         NEW n \in DOMAIN m_enf_objects[k], m_enf_objects[k][n].token = x,
         m_enf_objects[k][n].type = "drl"
  PROVE  /\ Table[k][x] = [id |-> m_enf_objects[k][n].id, type |-> "drl",
                           settings |-> m_enf_objects[k][n].settings]
         /\ Table' = [Table EXCEPT ![k][x].settings = settings]
<1> DEFINE p == [id |-> m_enf_objects[k][n].id, type |-> "drl",
                 settings |-> m_enf_objects[k][n].settings]
           q == [id |-> m_enf_objects[k][n].id, type |-> "drl", settings |-> settings]
<1>1. \A l \in ChannelTokens :
        /\ m_enf_objects[l] \in Seq(Object) /\ UniqueTokens(m_enf_objects[l])
        /\ m_enf_objects'[l] \in Seq(Object) /\ UniqueTokens(m_enf_objects'[l])
  BY ObjectsOf DEF StageInv, Types, OnlySettings
<1>2. PolicyOf(m_enf_objects[k], x) = p
  BY <1>1, PolicyFound
<1>3. /\ n \in DOMAIN m_enf_objects'[k] /\ m_enf_objects'[k][n].token = x
      /\ m_enf_objects'[k][n].id = m_enf_objects[k][n].id
      /\ m_enf_objects'[k][n].type = "drl" /\ m_enf_objects'[k][n].settings = settings
  BY DEF OnlySettings
<1>4. PolicyOf(m_enf_objects'[k], x) = q
  BY <1>1, <1>3, PolicyFound
<1>5. [p EXCEPT !.settings = settings] = q
  OBVIOUS
<1> HIDE DEF p, q
<1>6. ASSUME NEW l \in ChannelTokens, NEW y \in ObjectTokens, ~(l = k /\ y = x)
      PROVE  PolicyOf(m_enf_objects'[l], y) = PolicyOf(m_enf_objects[l], y)
  <2>1. CASE \E i \in DOMAIN m_enf_objects[l] : m_enf_objects[l][i].token = y
    <3>1. PICK i \in DOMAIN m_enf_objects[l] : m_enf_objects[l][i].token = y
      BY <2>1
    <3>2. /\ i \in DOMAIN m_enf_objects'[l] /\ m_enf_objects'[l][i].token = y
          /\ m_enf_objects'[l][i].id = m_enf_objects[l][i].id
          /\ m_enf_objects'[l][i].type = m_enf_objects[l][i].type
          /\ m_enf_objects'[l][i].settings = m_enf_objects[l][i].settings
      BY <1>6, <3>1 DEF OnlySettings
    <3>3. PolicyOf(m_enf_objects[l], y) =
            [id |-> m_enf_objects[l][i].id, type |-> m_enf_objects[l][i].type,
             settings |-> m_enf_objects[l][i].settings]
      BY <1>1, <3>1, PolicyFound
    <3>4. PolicyOf(m_enf_objects'[l], y) =
            [id |-> m_enf_objects'[l][i].id, type |-> m_enf_objects'[l][i].type,
             settings |-> m_enf_objects'[l][i].settings]
      BY <1>1, <3>2, PolicyFound
    <3> QED
      BY <3>2, <3>3, <3>4
  <2>2. CASE ~\E i \in DOMAIN m_enf_objects[l] : m_enf_objects[l][i].token = y
    <3>1. \A i \in DOMAIN m_enf_objects'[l] : m_enf_objects'[l][i].token # y
      BY <2>2 DEF OnlySettings
    <3> QED
      BY <2>2, <3>1, PolicyMissing
  <2> QED
    BY <2>1, <2>2
<1>7. Table' = [l \in ChannelTokens |-> [y \in ObjectTokens |->
                  IF l = k /\ y = x THEN q ELSE PolicyOf(m_enf_objects[l], y)]]
  <2>1. ASSUME NEW l \in ChannelTokens, NEW y \in ObjectTokens
        PROVE  PolicyOf(m_enf_objects'[l], y) =
                 IF l = k /\ y = x THEN q ELSE PolicyOf(m_enf_objects[l], y)
    BY <1>4, <1>6
  <2> QED
    BY <2>1 DEF Table
<1>8. Table = [l \in ChannelTokens |-> [y \in ObjectTokens |-> PolicyOf(m_enf_objects[l], y)]]
  BY DEF Table
<1>9. Table[k][x] = p
  BY <1>2, <1>8
<1>10. Table' = [Table EXCEPT ![k][x] = q]
  BY <1>7, <1>8
<1>11. [Table EXCEPT ![k][x].settings = settings] = [Table EXCEPT ![k][x] = q]
  BY <1>5, <1>8, <1>9
<1> QED
  BY <1>9, <1>10, <1>11 DEF p

\* configure_enforcement_object gives the new limiter the rule's settings.
LEMMA InitializeInitializes ==
  ASSUME IInv, IInv', Linking, Finding, Grows, InitializeObject
  PROVE  PolicyStep
<1> DEFINE k == ChannelOf(rule)
           x == Rule[rule].token
<1>1. /\ rule \in Rules /\ m_housekeeping_rules[rule] = "pending"
      /\ Rule[rule].operation = "create_object" /\ k # None
  BY DEF InitializeObject, IInv, StageInv, Handling
<1>2. PICK n \in DOMAIN m_enf_objects[k] :
        /\ MadeFor(m_enf_objects[k][n], rule) /\ m_enf_objects[k][n].settings = "default"
        /\ m_enf_objects[k][n].type = "drl" /\ Rule[rule].configured
  BY DEF InitializeObject, IInv, StageInv, Handling
<1>3. k \in ChannelTokens /\ m_channels[k] = Rule[rule].channel_id /\ x \in ObjectTokens
  BY <1>1, LinkedChannel, RuleFields DEF ChannelOf, IInv
<1>4. /\ UNCHANGED <<m_channels, m_ready, dataVars, m_housekeeping_rules, rule>>
      /\ control = "initialize" /\ control' = "mark" /\ Configures(k, x, "initial")
  BY DEF InitializeObject, Configures, tableVars, channelVars, agentVars
<1>5. PICK r \in Rules : r = rule
  BY <1>1
<1>6. /\ x = Rule[r].token /\ Rule[r].operation = "create_object" /\ Rule[r].configured
      /\ m_channels[k] = Rule[r].channel_id /\ m_enf_objects[k][n].id = Rule[r].object_id
      /\ m_enf_objects[k][n].token = x
  BY <1>1, <1>2, <1>3, <1>5 DEF MadeFor
<1> HIDE DEF k, x
<1>7. OnlySettings(k, x, "initial")
  BY <1>3, <1>4, ConfigureObjects DEF IInv
<1>8. /\ Table[k][x] = [id |-> Rule[r].object_id, type |-> "drl", settings |-> "default"]
      /\ Table' = [Table EXCEPT ![k][x].settings = "initial"]
  BY <1>2, <1>3, <1>6, <1>7, ConfiguredTable DEF IInv
<1>9. r \in Applied /\ Applied' = Applied /\ Accepted' = Accepted /\ Opening' = Opening
  BY <1>4, <1>5, AppliedFacts, AppliedFactsAfter DEF Late, Accepted, Opening
<1>10. UNCHANGED <<Calls, request, Outcomes>>
  BY <1>4, CallsStay
<1>11. Policies!Initialize(r)
  BY <1>3, <1>4, <1>6, <1>8, <1>9, <1>10 DEF Policies!Initialize
<1>12. Table' # Table
  <2>1. Table'[k][x].settings = "initial"
    BY <1>3, <1>8, TableShape
  <2> QED
    BY <1>8, <2>1
<1> QED
  BY <1>11, <1>12 DEF PolicyStep, Policies!Next, Policies!ControlStep, Policies!ChangePolicy

\* employ_enforcement_rule tunes a limiter with the identifiers the rule names.
LEMMA EnforcementRuleTunes ==
  ASSUME IInv, IInv', Linking, Finding, Grows,
         NEW c \in ChannelIds, NEW o \in ObjectIds, NEW known \in BOOLEAN,
         EmployEnforcementRule(c, o, known)
  PROVE  PolicyStep
<1> DEFINE k == GetDiffToken(m_channel_id_to_token_linkers, c)
           x == GetDiffToken(m_object_id_to_token_linkers[k], o)
<1>1. /\ UNCHANGED <<m_channels, m_ready, dataVars, m_housekeeping_rules, rule>>
      /\ control = "idle" /\ control' = "idle"
  BY DEF EmployEnforcementRule, tableVars, channelVars, agentVars
<1>2. Accepted' = Accepted /\ Applied' = Applied /\ Opening' = Opening
  BY <1>1, AppliedFacts, AppliedFactsAfter DEF Late, Accepted, Opening
<1>3. CASE UNCHANGED m_enf_objects
  BY <1>1, <1>2, <1>3, Unseen
<1>4. CASE k # None /\ x # None /\ Configures(k, x, "rule")
  <2> DEFINE L == m_object_id_to_token_linkers[k]
             O == m_enf_objects[k]
  <2>1. k \in ChannelTokens /\ m_channels[k] = c
    BY <1>4, LinkedChannel DEF IInv
  <2>2. /\ O \in Seq(Object) /\ UniqueTokens(O) /\ L \in Seq(ObjectIds \X ObjectTokens)
        /\ Len(O) = Len(L) + 0 /\ \A i \in DOMAIN L : L[i] = <<O[i].id, O[i].token>>
    BY <1>1, <2>1, ObjectsOf DEF IInv
  <2>3. PICK n \in DOMAIN L : L[n][1] = o /\ L[n][2] = x
    BY <1>4, <2>2, LinkOf
  <2>4. n \in DOMAIN O /\ O[n].id = o /\ O[n].token = x /\ x \in ObjectTokens
    BY <2>2, <2>3
  <2> HIDE DEF k, x, L
  <2>5. OnlySettings(k, x, "rule")
    BY <1>4, <2>1, ConfigureObjects DEF IInv
  <2>6. CASE O[n].type = "drl"
    <3>1. /\ Table[k][x] = [id |-> o, type |-> "drl", settings |-> O[n].settings]
          /\ Table' = [Table EXCEPT ![k][x].settings = "rule"]
      BY <2>1, <2>4, <2>5, <2>6, ConfiguredTable DEF IInv
    <3>2. Table[k][x].id = o /\ Table[k][x].type = "drl"
      BY <3>1
    <3>3. UNCHANGED <<Calls, request, Outcomes>>
      BY <1>1, CallsStay
    <3>4. Policies!Tune(c, o)
      BY <1>1, <1>2, <2>1, <2>4, <3>1, <3>2, <3>3 DEF Policies!Tune
    <3>5. CASE Table' # Table
      BY <3>4, <3>5 DEF PolicyStep, Policies!Next, Policies!ControlStep, Policies!ChangePolicy
    <3>6. CASE Table' = Table
      BY <1>1, <1>2, <3>3, <3>6 DEF PolicyStep, PolicyVars
    <3> QED
      BY <3>5, <3>6
  <2>7. CASE O[n].type # "drl"
    <3>1. SelectEnforcementObject(O, x) = n
      BY <2>2, <2>4, ObjectFound
    <3>2. Configured(O, x, "rule") = O
      BY <2>7, <3>1 DEF Configured
    <3>3. m_enf_objects' = m_enf_objects
      BY <1>4, <2>1, <3>2 DEF Configures, IInv, StageInv, Types
    <3> QED
      BY <1>3, <3>3
  <2> QED
    BY <2>6, <2>7
<1> QED
  BY <1>3, <1>4 DEF EmployEnforcementRule, Configures

\* The other steps of the control thread: requests do not see them.
LEMMA OtherControlUnseen ==
  ASSUME IInv, Finding, Grows,
         \/ \E r \in Rules : RejectHousekeepingRule(r)
         \/ ExecuteHousekeepingRules \/ TraverseNext \/ TraverseEnd
         \/ CreateChannelFails \/ CreateObjectFails
         \/ CreateNewChannelLinker \/ CreateNewObjectLinker
         \/ MarkHousekeepingRuleAsEnforced
         \/ \E value \in BOOLEAN : SetExecuteOnReceive(value)
  PROVE  PolicyStep
<1>1. m_housekeeping_rules \in [Rules -> {"absent", "pending", "enforced"}] /\ Handling
  BY DEF IInv, StageInv, Types
<1>2. UNCHANGED <<m_channels, m_enf_objects, m_ready, dataVars>>
  BY DEF RejectHousekeepingRule, ExecuteHousekeepingRules, TraverseNext, TraverseEnd,
         CreateChannelFails, CreateObjectFails, CreateNewChannelLinker, CreateNewObjectLinker,
         MarkHousekeepingRuleAsEnforced, SetExecuteOnReceive, channelVars, objectVars, agentVars
<1>3. CASE MarkHousekeepingRuleAsEnforced
  <2>1. /\ rule \in Rules /\ m_housekeeping_rules[rule] = "pending" /\ control = "mark"
        /\ control' \in {"idle", "traverse"}
        /\ m_housekeeping_rules' = [m_housekeeping_rules EXCEPT ![rule] = "enforced"]
    BY <1>1, <1>3 DEF MarkHousekeepingRuleAsEnforced, ReturnStatus, Handling
  <2>2. \A r \in Rules :
          /\ m_housekeeping_rules'[r] = "enforced" <=> m_housekeeping_rules[r] = "enforced" \/ r = rule
          /\ m_housekeeping_rules'[r] # "absent" <=> m_housekeeping_rules[r] # "absent"
    BY <1>1, <2>1
  <2>3. Applied' = Applied
    <3>1. /\ Applied = {r \in Rules : m_housekeeping_rules[r] = "enforced" \/ r = rule}
          /\ Applied' = {r \in Rules : m_housekeeping_rules'[r] = "enforced"}
      BY <2>1, AppliedFacts, AppliedFactsAfter DEF Late
    <3> QED
      BY <2>2, <3>1
  <2>4. Accepted' = Accepted /\ Opening' = Opening
    BY <2>1, <2>2 DEF Accepted, Opening
  <2> QED
    BY <1>2, <2>3, <2>4, Unseen
<1>4. CASE CreateNewChannelLinker \/ CreateNewObjectLinker
  <2>1. UNCHANGED <<m_housekeeping_rules, rule>> /\ control \in Late /\ control' \in Late
    BY <1>4 DEF CreateNewChannelLinker, CreateNewObjectLinker, tableVars, Late
  <2>2. Applied' = Applied /\ Accepted' = Accepted /\ Opening' = Opening
    BY <2>1, AppliedFacts, AppliedFactsAfter DEF Accepted, Opening, Late
  <2> QED
    BY <1>2, <2>2, Unseen
<1>5. CASE \/ \E r \in Rules : RejectHousekeepingRule(r)
           \/ ExecuteHousekeepingRules \/ TraverseNext \/ TraverseEnd
           \/ CreateChannelFails \/ CreateObjectFails
           \/ \E value \in BOOLEAN : SetExecuteOnReceive(value)
  <2>1. /\ UNCHANGED m_housekeeping_rules
        /\ control \in {"idle", "traverse", "execute"}
        /\ control' \in {"idle", "traverse", "execute"}
    BY <1>5 DEF RejectHousekeepingRule, ExecuteHousekeepingRules, TraverseNext, TraverseEnd,
                CreateChannelFails, CreateObjectFails, SetExecuteOnReceive, ReturnStatus,
                Executing, tableVars, controlVars
  <2>2. Applied' = Applied /\ Accepted' = Accepted /\ Opening' = Opening
    BY <2>1, AppliedFacts, AppliedFactsAfter DEF Accepted, Opening, Late
  <2> QED
    BY <1>2, <2>2, Unseen
<1> QED
  BY <1>3, <1>4, <1>5

\* Agent: the stage is ready.
LEMMA ReadyMarked ==
  ASSUME IInv, Finding, Grows, MarkReady
  PROVE  PolicyStep
<1>1. /\ UNCHANGED <<m_channels, m_enf_objects, dataVars, m_housekeeping_rules, rule, control>>
      /\ m_ready' = TRUE
  BY DEF MarkReady, tableVars, channelVars, objectVars, controlVars
<1>2. /\ Accepted' = Accepted /\ Applied' = Applied /\ Opening' = Opening /\ Table' = Table
  BY <1>1 DEF Accepted, Applied, InEffect, Opening, Table
<1>3. UNCHANGED <<Calls, request, Outcomes>>
  BY <1>1, CallsStay
<1>4. Policies!MarkReady
  BY <1>1, <1>2, <1>3 DEF Policies!MarkReady
<1> QED
  BY <1>4 DEF PolicyStep, Policies!Next, Policies!ControlStep

\* A thread's step changes what is seen of its own call.
LEMMA OneCall ==
  ASSUME IInv, Finding, Grows, NEW t \in Threads, NEW c, NEW result,
         (IF thread'[t] = "idle" THEN "idle" ELSE "pending") = c, OutcomeOf(t)' = result,
         \A u \in Threads : u # t =>
           /\ thread'[u] = thread[u] /\ channel_ptr'[u] = channel_ptr[u]
           /\ handler'[u] = handler[u] /\ returned'[u] = returned[u]
  PROVE  Calls' = [Calls EXCEPT ![t] = c] /\ Outcomes' = [Outcomes EXCEPT ![t] = result]
<1>1. \A u \in Threads : u # t => OutcomeOf(u)' = OutcomeOf(u)
  BY OutcomeStays DEF Finding
<1>2. Calls' = [Calls EXCEPT ![t] = c]
  BY DEF Calls
<1>3. Outcomes' = [Outcomes EXCEPT ![t] = result]
  BY <1>1 DEF Outcomes
<1> QED
  BY <1>2, <1>3

\* PaioStage::enforce_request: the call, and the moment it takes effect.
LEMMA DataStepServes ==
  ASSUME IInv, Finding, Grows, NEW t \in Threads, DataStep(t)
  PROVE  PolicyStep
<1>1. UNCHANGED <<m_channels, m_enf_objects, m_ready, control, rule, m_housekeeping_rules>>
  BY DEF DataStep, EnforceRequest, SelectChannel, EnforceMechanism, tableVars, channelVars,
         objectVars, agentVars, controlVars
<1>2. UNCHANGED <<Accepted, Applied, m_channels, Table, Opening, m_ready>>
  BY <1>1 DEF Accepted, Applied, InEffect, Table, Opening
<1>3. /\ DataTypes /\ Routed(t) /\ Found(t)
      /\ \A k \in ChannelTokens : m_enf_objects[k] \in Seq(Object) /\ UniqueTokens(m_enf_objects[k])
  BY ObjectsOf DEF IInv, DataInv, Routing, Routed, Finding
<1>4. Calls[t] = IF thread[t] = "idle" THEN "idle" ELSE "pending"
  BY DEF Calls
<1>5. Outcomes[t] = OutcomeOf(t)
  BY DEF Outcomes
<1>6. ASSUME NEW q \in ChannelTokens \X ObjectTokens, EnforceRequest(t, q)
      PROVE  PolicyStep
  <2>1. /\ thread[t] = "idle" /\ request' = [request EXCEPT ![t] = q]
        /\ thread'[t] = (IF m_ready THEN "find" ELSE "idle")
        /\ returned'[t] = (IF m_ready THEN "none" ELSE "error")
        /\ \A u \in Threads : u # t =>
             /\ thread'[u] = thread[u] /\ channel_ptr'[u] = channel_ptr[u]
             /\ handler'[u] = handler[u] /\ returned'[u] = returned[u]
    BY <1>3, <1>6 DEF EnforceRequest, DataTypes
  <2> DEFINE c == IF m_ready THEN "pending" ELSE "idle"
             result == Outcome(IF m_ready THEN "none" ELSE "refused")
  <2>2. (IF thread'[t] = "idle" THEN "idle" ELSE "pending") = c
    BY <2>1
  <2>3. OutcomeOf(t)' = result
    BY <2>1, OutcomeFactsAfter
  <2> HIDE DEF c, result
  <2>4. Calls' = [Calls EXCEPT ![t] = c] /\ Outcomes' = [Outcomes EXCEPT ![t] = result]
    BY <2>1, <2>2, <2>3, OneCall
  <2>5. Policies!Call(t, q)
    BY <1>2, <1>4, <2>1, <2>4 DEF Policies!Call, Policies!Outcome, Outcome, c, result
  <2> QED
    BY <2>5 DEF PolicyStep, Policies!Next, Policies!Requests
<1>7. CASE SelectChannel(t)
  <2>1. PICK k \in FindOutcomes(request[t][1]) : channel_ptr' = [channel_ptr EXCEPT ![t] = k]
    BY <1>7 DEF SelectChannel
  <2>2. /\ channel_ptr'[t] = k /\ UNCHANGED request /\ thread[t] = "find"
        /\ k = None => thread'[t] = "idle" /\ returned'[t] = "enforced"
        /\ k # None => thread'[t] = "enforce" /\ returned'[t] = returned[t]
        /\ \A u \in Threads : u # t =>
             /\ thread'[u] = thread[u] /\ channel_ptr'[u] = channel_ptr[u]
             /\ handler'[u] = handler[u] /\ returned'[u] = returned[u]
    BY <1>3, <1>7, <2>1 DEF SelectChannel, DataTypes
  <2>3. Calls[t] = "pending" /\ returned[t] = "none"
    BY <1>3, <1>4, <2>2 DEF Routed
  <2>4. CASE k # None
    <3>1. OutcomeOf(t)' = OutcomeOf(t)
      BY <2>2, <2>3, <2>4, OutcomeFacts, OutcomeFactsAfter
    <3>2. /\ Calls' = [Calls EXCEPT ![t] = "pending"]
          /\ Outcomes' = [Outcomes EXCEPT ![t] = Outcomes[t]]
      BY <1>5, <2>2, <2>4, <3>1, OneCall
    <3>3. Calls' = Calls /\ Outcomes' = Outcomes
      BY <2>3, <3>2 DEF Calls, Outcomes
    <3> QED
      BY <1>2, <2>2, <3>3 DEF PolicyStep, PolicyVars
  <2>5. CASE k = None
    <3>1. OutcomeOf(t)' = Outcome("passed")
      BY <2>2, <2>5, OutcomeFactsAfter
    <3>2. /\ Calls' = [Calls EXCEPT ![t] = "idle"]
          /\ Outcomes' = [Outcomes EXCEPT ![t] = Outcome("passed")]
      BY <2>2, <2>5, <3>1, OneCall
    <3>3. Policies!Returns(t, Policies!Outcome("passed"))
      BY <1>2, <2>2, <2>3, <3>2 DEF Policies!Returns, Policies!Outcome, Outcome
    <3>4. CASE m_channels[request[t][1]] = None
      <4>1. Policies!Governing(request[t]) = Policies!Outcome("passed")
        BY <3>4 DEF Policies!Governing
      <4>2. Policies!Govern(t)
        BY <3>3, <4>1 DEF Policies!Govern
      <4> QED
        BY <4>2 DEF PolicyStep, Policies!Next
    <3>5. CASE m_channels[request[t][1]] # None
      <4>1. request[t][1] # None
        BY <1>3, StageAssumption DEF Found, StageAssumption
      <4>2. Opening
        BY <2>1, <2>5, <3>5, <4>1 DEF FindOutcomes, DoesChannelTokenExist, Opening
      <4>3. Policies!Miss(t)
        BY <3>3, <4>2 DEF Policies!Miss
      <4> QED
        BY <4>3 DEF PolicyStep, Policies!Next
    <3> QED
      BY <3>4, <3>5
  <2> QED
    BY <2>4, <2>5
<1>8. CASE EnforceMechanism(t)
  <2> DEFINE k == request[t][1]
             x == request[t][2]
             h == SelectEnforcementObject(m_enf_objects[k], x)
             O == m_enf_objects[k]
  <2>1. /\ thread[t] = "enforce" /\ channel_ptr[t] = k
        /\ k \in ChannelTokens /\ x \in ObjectTokens /\ m_channels[k] # None
    BY <1>3, <1>8 DEF EnforceMechanism, Routed, Found
  <2>2. /\ thread'[t] = "idle" /\ returned'[t] = "enforced" /\ handler'[t] = h
        /\ channel_ptr'[t] = k /\ UNCHANGED request
        /\ \A u \in Threads : u # t =>
             /\ thread'[u] = thread[u] /\ channel_ptr'[u] = channel_ptr[u]
             /\ handler'[u] = handler[u] /\ returned'[u] = returned[u]
    BY <1>3, <1>8, <2>1 DEF EnforceMechanism, DataTypes
  <2>3. k # None /\ Calls[t] = "pending"
    BY <1>4, <2>1, StageAssumption DEF StageAssumption
  <2>4. Table[k][x] = PolicyOf(O, x)
    BY <2>1 DEF Table
  <2>5. \/ h \in DOMAIN O /\ O[h].token = x
        \/ h = 0 /\ \A i \in DOMAIN O : O[i].token # x
    BY <1>3, <2>1, Selected
  <2>6. OutcomeOf(t)' = Policies!Governing(request[t])
    <3>1. CASE h = 0
      <4>1. 0 \notin DOMAIN O
        BY <1>3, <2>1
      <4>2. Table[k][x] = NoPolicy
        BY <2>4, <2>5, <3>1, <4>1, PolicyMissing
      <4>3. OutcomeOf(t)' = Outcome("no_match")
        BY <2>2, <2>3, <3>1, OutcomeFactsAfter
      <4> QED
        BY <2>1, <4>2, <4>3 DEF Policies!Governing, Policies!NoPolicy, NoPolicy,
                                Policies!Outcome, Outcome
    <3>2. CASE h # 0
      <4> HIDE DEF h
      <4>1. h \in DOMAIN O /\ O[h].token = x /\ O[h] \in Object
        BY <1>3, <2>1, <2>5, <3>2
      <4>2. Table[k][x] = [id |-> O[h].id, type |-> O[h].type, settings |-> O[h].settings]
        BY <1>3, <2>1, <2>4, <4>1, PolicyFound
      <4>3. Table[k][x] # NoPolicy
        BY <4>1, <4>2, PolicyIsNone
      <4>4. OutcomeOf(t)' = [kind |-> "governed", id |-> O[h].id, type |-> O[h].type]
        <5>1. OutcomeOf(t)' = [kind |-> "governed", id |-> m_enf_objects'[k][h].id,
                               type |-> m_enf_objects'[k][h].type]
          BY <2>2, <2>3, <3>2, OutcomeFactsAfter
        <5> QED
          BY <1>1, <5>1
      <4>5. Table[k][x].id = O[h].id /\ Table[k][x].type = O[h].type
        BY <4>2
      <4>6. Policies!Governing(request[t]) = Policies!Governed(Table[k][x])
        BY <2>1, <4>3 DEF Policies!Governing, Policies!NoPolicy, NoPolicy
      <4> QED
        BY <4>4, <4>5, <4>6 DEF Policies!Governed
    <3> QED
      BY <3>1, <3>2
  <2> DEFINE result == Policies!Governing(request[t])
  <2> HIDE DEF result
  <2>7. Calls' = [Calls EXCEPT ![t] = "idle"] /\ Outcomes' = [Outcomes EXCEPT ![t] = result]
    BY <2>2, <2>6, OneCall DEF result
  <2>8. Policies!Govern(t)
    BY <1>2, <2>2, <2>3, <2>7 DEF Policies!Govern, Policies!Returns, result
  <2> QED
    BY <2>8 DEF PolicyStep, Policies!Next
<1> QED
  BY <1>6, <1>7, <1>8 DEF DataStep

\* What Core's constructor makes is a table of policies.
LEMMA InitPolicies ==
  ASSUME Init
  PROVE  Policies!Init
<1> DEFINE L == m_channel_id_to_token_linkers
<1>1. StageInv /\ DataTypes /\ Linking /\ Finding
  BY InitIInv, InitLinking DEF IInv, DataInv
<1>2. /\ Accepted = {} /\ Applied = {} /\ Opening = FALSE /\ m_ready = FALSE
      /\ control = "idle"
  BY DEF Init, Accepted, Applied, InEffect, Opening
<1>3. m_channels \in [ChannelTokens -> ChannelIds \cup {None}]
  BY <1>1 DEF StageInv, Types
<1>4. ASSUME NEW k \in ChannelTokens, NEW l \in ChannelTokens,
             m_channels[k] # None, m_channels[k] = m_channels[l]
      PROVE  k = l
  <2>1. PICK i \in DOMAIN L : L[i] = <<m_channels[k], k>>
    BY <1>1, <1>2, <1>4 DEF Linking
  <2>2. PICK j \in DOMAIN L : L[j] = <<m_channels[l], l>>
    BY <1>1, <1>2, <1>4 DEF Linking
  <2>3. i = j
    BY <1>1, <1>4, <2>1, <2>2 DEF StageInv, Handling, UniqueIds
  <2> QED
    BY <2>1, <2>2, <2>3
<1>5. ASSUME NEW k \in ChannelTokens, NEW x \in ObjectTokens
      PROVE  /\ PolicyOf(m_enf_objects[k], x) \in Policies!Policy \cup {NoPolicy}
             /\ PolicyOf(m_enf_objects[k], x) # NoPolicy => m_channels[k] # None
  <2>1. m_enf_objects[k] \in Seq(Object) /\ UniqueTokens(m_enf_objects[k])
    BY <1>1, ObjectsOf
  <2>2. CASE \E i \in DOMAIN m_enf_objects[k] : m_enf_objects[k][i].token = x
    <3>1. PICK i \in DOMAIN m_enf_objects[k] : m_enf_objects[k][i].token = x
      BY <2>2
    <3> DEFINE o == m_enf_objects[k][i]
    <3>2. o \in Object
      BY <2>1
    <3>3. PolicyOf(m_enf_objects[k], x) = [id |-> o.id, type |-> o.type, settings |-> o.settings]
      BY <2>1, <3>1, PolicyFound
    <3> HIDE DEF o
    <3>4. PolicyOf(m_enf_objects[k], x) \in Policies!Policy
      BY <3>2, <3>3 DEF Object, Policies!Policy
    <3>5. k \in DefaultTokens
      <4>1. k \notin DefaultTokens => m_enf_objects[k] = <<>>
        BY DEF Init
      <4> QED
        BY <3>1, <4>1
    <3>6. PICK n \in DOMAIN DefaultChannels : DefaultChannels[n][2] = k
      BY <3>5 DEF DefaultTokens
    <3>7. L = DefaultChannels /\ DefaultChannels[n][1] \in ChannelIds
      BY StageAssumption DEF Init, StageAssumption
    <3>8. m_channels[k] \in ChannelIds
      BY <1>1, <3>6, <3>7 DEF Linking
    <3> QED
      BY <3>4, <3>8, StageAssumption DEF StageAssumption
  <2>3. CASE ~\E i \in DOMAIN m_enf_objects[k] : m_enf_objects[k][i].token = x
    BY <2>3, PolicyMissing
  <2> QED
    BY <2>2, <2>3
<1>6. /\ Table \in [ChannelTokens -> [ObjectTokens -> Policies!Policy \cup {NoPolicy}]]
      /\ \A k \in ChannelTokens, x \in ObjectTokens :
           Table[k][x] # NoPolicy => m_channels[k] # None
  BY <1>5 DEF Table
<1>7. Policies!NoPolicy = NoPolicy
  BY DEF Policies!NoPolicy, NoPolicy
<1>8. Calls = [t \in Threads |-> "idle"]
  BY DEF Init, Calls
<1>9. request \in [Threads -> Policies!Requests]
  BY <1>1 DEF DataTypes, Finding, Found, Policies!Requests
<1>10. Outcomes = [t \in Threads |-> Policies!Outcome("none")]
  <2>1. \A t \in Threads : OutcomeOf(t) = Outcome("none")
    BY OutcomeFacts DEF Init
  <2> QED
    BY <2>1 DEF Outcomes, Outcome, Policies!Outcome
<1>11. \A q \in Policies!Requests : Table[q[1]][q[2]] # Policies!NoPolicy => m_channels[q[1]] # None
  BY <1>6, <1>7 DEF Policies!Requests
<1> HIDE DEF L
<1> QED
  BY <1>2, <1>3, <1>4, <1>6, <1>7, <1>8, <1>9, <1>10, <1>11 DEF Policies!Init

\* Every step of the stage is a step of the table of policies, or unseen.
LEMMA EveryStepServes ==
  ASSUME IInv, IInv', Grows, Linking, Finding, [Next]_vars
  PROVE  PolicyStep
<1>1. CASE ControlStep
  BY <1>1, EmployAccepts, CreateChannelOpens, EmplaceOpens, CreateObjectAdds,
     InitializeInitializes, EnforcementRuleTunes, ReadyMarked, OtherControlUnseen DEF ControlStep
<1>2. CASE \E t \in Threads : DataStep(t)
  BY <1>2, DataStepServes
<1>3. CASE UNCHANGED vars
  <2>1. UNCHANGED <<dataVars, m_channels, m_enf_objects, m_ready, m_housekeeping_rules, control, rule>>
    BY <1>3 DEF vars, tableVars, channelVars, objectVars, agentVars, controlVars
  <2>2. Accepted' = Accepted /\ Applied' = Applied /\ Opening' = Opening
    BY <2>1 DEF Accepted, Applied, InEffect, Opening
  <2> QED
    BY <2>1, <2>2, Unseen
<1> QED
  BY <1>1, <1>2, <1>3 DEF Next

\* Core, ChannelDefault, SubmissionQueue and the housekeeping table implement the
\* table of policies, for any rules, channels, objects and threads: each rule takes
\* effect once and at one moment, an enforcement rule tunes a limiter with the
\* identifiers it names, and every request is governed by the policy in place at
\* one moment of its call, or passes during an emplacement.
THEOREM StageIsAPolicyTable == Spec => ImplementsPolicies
<1>1. Init => Policies!Init
  BY InitPolicies
<1>2. Init => Linking /\ Finding
  BY InitLinking
<1>3. IInv /\ Linking /\ Finding /\ [Next]_vars => (Linking /\ Finding)'
  BY StepKeeps, LinkingKeeps, FindingKeeps
<1>4. IInv /\ Linking /\ Finding /\ [Next]_vars => [Policies!Next]_(Policies!vars)
  <2> SUFFICES ASSUME IInv, Linking, Finding, [Next]_vars
               PROVE  [Policies!Next]_(Policies!vars)
    OBVIOUS
  <2>1. IInv' /\ Grows
    BY StepKeeps
  <2>2. PolicyStep
    BY <2>1, EveryStepServes
  <2> QED
    BY <2>2 DEF PolicyStep, PolicyVars, Policies!vars
<1> QED
  BY <1>1, <1>2, <1>3, <1>4, Invariance, PTL DEF Spec, ImplementsPolicies, Policies!Spec

-----------------------------------------------------------------------------
(* Types, and the count of the rules that are left.                        *)

\* HousekeepingTable counts the rules that wait for their execution.
Pending == {r \in Rules : m_housekeeping_rules[r] = "pending"}
Typing == TypeOK /\ m_number_of_rules_left_to_employ = Cardinality(Pending)

\* Any set of rules can be counted.
LEMMA CountRules ==
  ASSUME NEW S \in SUBSET Rules
  PROVE  IsFiniteSet(S) /\ Cardinality(S) \in Nat
<1>1. IsFiniteSet(S)
  BY StageAssumption, FS_Subset DEF StageAssumption
<1> QED
  BY <1>1, FS_CardinalityType

\* Core's constructor.
LEMMA InitTyping == Init => Typing
<1> SUFFICES ASSUME Init PROVE Typing
  OBVIOUS
<1>1. Types /\ DataTypes /\ Finding
  BY InitIInv, InitLinking DEF IInv, StageInv, DataInv
<1>2. Pending = {}
  BY DEF Init, Pending
<1>3. m_number_of_rules_left_to_employ = Cardinality(Pending)
  BY <1>2, FS_EmptySet DEF Init
<1>4. request \in [Threads -> ChannelTokens \X ObjectTokens]
  BY <1>1 DEF DataTypes, Finding, Found
<1>5. TypeOK
  BY <1>1, <1>4 DEF Init, TypeOK, Types, DataTypes, Statuses
<1> QED
  BY <1>3, <1>5 DEF Typing

\* The table: a rule more to execute, or one less.
LEMMA TallyKeeps ==
  ASSUME IInv, Typing, [Next]_vars
  PROVE  /\ m_number_of_rules' \in Nat
         /\ m_number_of_rules_left_to_employ' \in Nat
         /\ m_number_of_rules_left_to_employ' = Cardinality(Pending')
<1>1. /\ m_number_of_rules \in Nat /\ m_number_of_rules_left_to_employ = Cardinality(Pending)
      /\ m_housekeeping_rules \in [Rules -> {"absent", "pending", "enforced"}] /\ Handling
  BY DEF IInv, StageInv, Typing, TypeOK
<1>2. Pending \in SUBSET Rules /\ Pending' \in SUBSET Rules
  BY DEF Pending
<1>3. /\ IsFiniteSet(Pending) /\ Cardinality(Pending) \in Nat /\ Cardinality(Pending') \in Nat
  BY <1>2, CountRules
<1>4. CASE UNCHANGED tableVars
  BY <1>1, <1>3, <1>4 DEF tableVars, Pending
<1>5. ASSUME NEW r \in Rules, EmployHousekeepingRule(r)
      PROVE  /\ m_number_of_rules' \in Nat
             /\ m_number_of_rules_left_to_employ' = Cardinality(Pending')
  <2>1. /\ m_housekeeping_rules[r] = "absent"
        /\ m_housekeeping_rules' = [m_housekeeping_rules EXCEPT ![r] = "pending"]
        /\ m_number_of_rules' = m_number_of_rules + 1
        /\ m_number_of_rules_left_to_employ' = m_number_of_rules_left_to_employ + 1
    BY <1>5 DEF EmployHousekeepingRule
  <2>2. Pending' = Pending \cup {r} /\ r \notin Pending
    BY <1>1, <2>1 DEF Pending
  <2>3. Cardinality(Pending') = Cardinality(Pending) + 1
    BY <1>3, <2>2, FS_AddElement
  <2> QED
    BY <1>1, <2>1, <2>3
<1>6. CASE MarkHousekeepingRuleAsEnforced
  <2>1. /\ rule \in Rules /\ m_housekeeping_rules[rule] = "pending"
        /\ m_housekeeping_rules' = [m_housekeeping_rules EXCEPT ![rule] = "enforced"]
        /\ m_number_of_rules' = m_number_of_rules
        /\ m_number_of_rules_left_to_employ' = m_number_of_rules_left_to_employ - 1
    BY <1>1, <1>6 DEF MarkHousekeepingRuleAsEnforced, Handling
  <2>2. Pending' = Pending \ {rule} /\ rule \in Pending
    BY <1>1, <2>1 DEF Pending
  <2>3. Cardinality(Pending') = Cardinality(Pending) - 1
    BY <1>3, <2>2, FS_RemoveElement
  <2> QED
    BY <1>1, <1>3, <2>1, <2>3
<1>7. \/ UNCHANGED tableVars \/ MarkHousekeepingRuleAsEnforced
      \/ \E r \in Rules : EmployHousekeepingRule(r)
  BY DEF Next, vars, ControlStep, DataStep, RejectHousekeepingRule,
         ExecuteHousekeepingRules, TraverseNext, TraverseEnd, CreateChannelFails, CreateChannel,
         EmplaceChannel, CreateNewChannelLinker, CreateObjectFails, CreateEnforcementObject,
         CreateNewObjectLinker, InitializeObject, EmployEnforcementRule, MarkReady,
         SetExecuteOnReceive, EnforceRequest, SelectChannel, EnforceMechanism
<1> QED
  BY <1>3, <1>4, <1>5, <1>6, <1>7

\* What else the control thread keeps.
LEMMA ControlTypes ==
  ASSUME Typing, IInv, [Next]_vars
  PROVE  /\ m_ready' \in BOOLEAN /\ m_execute_on_receive' \in BOOLEAN
         /\ rule' \in Rules \cup {None} /\ status' \in Statuses
         /\ ack' \in {"none", "employ", "execute", "configure"} \X {"ok", "error"}
<1>1. /\ m_ready \in BOOLEAN /\ m_execute_on_receive \in BOOLEAN
      /\ rule \in Rules \cup {None} /\ status \in Statuses
      /\ ack \in {"none", "employ", "execute", "configure"} \X {"ok", "error"}
      /\ order \in Seq(Rules) /\ position \in Nat /\ Handling
  BY DEF Typing, TypeOK, IInv, StageInv
<1>2. ASSUME NEW result \in Statuses, ReturnStatus(result)
      PROVE  /\ rule' \in Rules \cup {None} /\ status' \in Statuses
             /\ ack' \in {"none", "employ", "execute", "configure"} \X {"ok", "error"}
  BY <1>1, <1>2 DEF ReturnStatus, Reply, Statuses
<1>3. CASE CreateChannelFails \/ CreateObjectFails \/ MarkHousekeepingRuleAsEnforced
  <2>1. \E result \in Statuses : ReturnStatus(result)
    BY <1>3 DEF CreateChannelFails, CreateObjectFails, MarkHousekeepingRuleAsEnforced, Statuses
  <2>2. UNCHANGED agentVars
    BY <1>3 DEF CreateChannelFails, CreateObjectFails, MarkHousekeepingRuleAsEnforced
  <2> QED
    BY <1>1, <1>2, <2>1, <2>2 DEF agentVars
<1>4. ASSUME NEW r \in Rules, EmployHousekeepingRule(r) \/ RejectHousekeepingRule(r)
      PROVE  /\ m_ready' \in BOOLEAN /\ m_execute_on_receive' \in BOOLEAN
             /\ rule' \in Rules \cup {None} /\ status' \in Statuses
             /\ ack' \in {"none", "employ", "execute", "configure"} \X {"ok", "error"}
  BY <1>1, <1>4 DEF EmployHousekeepingRule, RejectHousekeepingRule, Reply, agentVars
<1>5. CASE TraverseNext
  <2>1. position <= Len(order) /\ position # 0
    BY <1>1, <1>5 DEF TraverseNext, Handling
  <2>2. order[position] \in Rules
    BY <1>1, <2>1
  <2> QED
    BY <1>1, <1>5, <2>2 DEF TraverseNext, agentVars
<1>6. CASE ExecuteHousekeepingRules \/ TraverseEnd
  BY <1>1, <1>6 DEF ExecuteHousekeepingRules, TraverseEnd, Reply, Statuses, agentVars
<1>7. CASE \/ CreateChannel \/ EmplaceChannel \/ CreateNewChannelLinker
           \/ CreateEnforcementObject \/ CreateNewObjectLinker \/ InitializeObject
  BY <1>1, <1>7 DEF CreateChannel, EmplaceChannel, CreateNewChannelLinker,
         CreateEnforcementObject, CreateNewObjectLinker, InitializeObject, agentVars
<1>8. ASSUME NEW c, NEW o, NEW known, EmployEnforcementRule(c, o, known)
      PROVE  /\ m_ready' \in BOOLEAN /\ m_execute_on_receive' \in BOOLEAN
             /\ rule' \in Rules \cup {None} /\ status' \in Statuses
             /\ ack' \in {"none", "employ", "execute", "configure"} \X {"ok", "error"}
  BY <1>1, <1>8 DEF EmployEnforcementRule, Reply, agentVars
<1>9. CASE MarkReady \/ \E value \in BOOLEAN : SetExecuteOnReceive(value)
  BY <1>1, <1>9 DEF MarkReady, SetExecuteOnReceive, controlVars
<1>10. ASSUME NEW t \in Threads, DataStep(t)
       PROVE  UNCHANGED <<agentVars, controlVars>>
  BY <1>10 DEF DataStep, EnforceRequest, SelectChannel, EnforceMechanism
<1>11. CASE UNCHANGED <<agentVars, controlVars>>
  BY <1>1, <1>11 DEF agentVars, controlVars
<1>12. CASE ControlStep
  BY <1>3, <1>4, <1>5, <1>6, <1>7, <1>8, <1>9, <1>12 DEF ControlStep
<1> QED
  BY <1>10, <1>11, <1>12 DEF Next, vars

\* What a data thread holds.
LEMMA DataTyping ==
  ASSUME Typing, IInv, IInv', Finding, Finding', [Next]_vars
  PROVE  /\ request' \in [Threads -> ChannelTokens \X ObjectTokens]
         /\ channel_ptr' \in [Threads -> ChannelTokens \cup {None}]
         /\ handler' \in [Threads -> Nat] /\ expected' \in [Threads -> Nat]
         /\ returned' \in [Threads -> {"none", "error", "enforced"}]
<1>1. /\ channel_ptr \in [Threads -> ChannelTokens \cup {None}]
      /\ handler \in [Threads -> Nat] /\ expected \in [Threads -> Nat]
  BY DEF Typing, TypeOK
<1>2. /\ request' \in [Threads -> ChannelTokens \X ObjectTokens]
      /\ returned' \in [Threads -> {"none", "error", "enforced"}]
  BY DEF IInv, DataInv, DataTypes, Finding, Found
<1>3. \A k \in ChannelTokens : \A x : SelectEnforcementObject(m_enf_objects[k], x) \in Nat
  <2>1. ASSUME NEW k \in ChannelTokens, NEW x
        PROVE  SelectEnforcementObject(m_enf_objects[k], x) \in Nat
    <3>1. m_enf_objects[k] \in Seq(Object) /\ UniqueTokens(m_enf_objects[k])
      BY ObjectsOf DEF IInv
    <3>2. \/ SelectEnforcementObject(m_enf_objects[k], x) \in DOMAIN m_enf_objects[k]
          \/ SelectEnforcementObject(m_enf_objects[k], x) = 0
      BY <3>1, Selected
    <3> QED
      BY <3>1, <3>2
  <2> QED
    BY <2>1
<1>4. ASSUME NEW t \in Threads, DataStep(t)
      PROVE  /\ channel_ptr' \in [Threads -> ChannelTokens \cup {None}]
             /\ handler' \in [Threads -> Nat] /\ expected' \in [Threads -> Nat]
  <2>1. ASSUME NEW q \in ChannelTokens \X ObjectTokens, EnforceRequest(t, q)
        PROVE  /\ channel_ptr' \in [Threads -> ChannelTokens \cup {None}]
               /\ handler' \in [Threads -> Nat] /\ expected' \in [Threads -> Nat]
    <3>1. InPlace(q) \in Nat
      BY <1>3, <2>1 DEF InPlace
    <3> QED
      BY <1>1, <2>1, <3>1 DEF EnforceRequest
  <2>2. CASE SelectChannel(t)
    <3>1. PICK k \in FindOutcomes(request[t][1]) : channel_ptr' = [channel_ptr EXCEPT ![t] = k]
      BY <2>2 DEF SelectChannel
    <3>2. k \in ChannelTokens \cup {None}
      BY <3>1 DEF FindOutcomes, Finding, Found
    <3> QED
      BY <1>1, <2>2, <3>1, <3>2 DEF SelectChannel
  <2>3. CASE EnforceMechanism(t)
    <3>1. channel_ptr[t] \in ChannelTokens
      BY <2>3 DEF EnforceMechanism, IInv, DataInv, Routing
    <3> QED
      BY <1>1, <1>3, <2>3, <3>1 DEF EnforceMechanism
  <2> QED
    BY <1>4, <2>1, <2>2, <2>3 DEF DataStep
<1>5. ControlStep \/ UNCHANGED vars => UNCHANGED dataVars
  BY DEF vars, ControlStep, EmployHousekeepingRule, RejectHousekeepingRule,
         ExecuteHousekeepingRules, TraverseNext, TraverseEnd, CreateChannelFails, CreateChannel,
         EmplaceChannel, CreateNewChannelLinker, CreateObjectFails, CreateEnforcementObject,
         CreateNewObjectLinker, InitializeObject, MarkHousekeepingRuleAsEnforced,
         EmployEnforcementRule, MarkReady, SetExecuteOnReceive
<1> QED
  BY <1>1, <1>2, <1>4, <1>5 DEF Next, dataVars

\* Every variable holds a value of its type, and the number of rules left to
\* employ, which every execution decrements, never falls below zero: it is the
\* number of rules in the table that wait.
THEOREM TypeCorrect == Spec => []TypeOK
<1>1. IInv /\ Finding /\ Typing /\ [Next]_vars => (Finding /\ Typing)'
  <2> SUFFICES ASSUME IInv, Finding, Typing, [Next]_vars
               PROVE  (Finding /\ Typing)'
    OBVIOUS
  <2>1. IInv' /\ Grows
    BY StepKeeps
  <2>2. Finding'
    BY <2>1, FindingKeeps
  <2>3. /\ m_number_of_rules' \in Nat /\ m_number_of_rules_left_to_employ' \in Nat
        /\ m_number_of_rules_left_to_employ' = Cardinality(Pending')
    BY TallyKeeps
  <2>4. /\ m_ready' \in BOOLEAN /\ m_execute_on_receive' \in BOOLEAN
        /\ rule' \in Rules \cup {None} /\ status' \in Statuses
        /\ ack' \in {"none", "employ", "execute", "configure"} \X {"ok", "error"}
    BY ControlTypes
  <2>5. /\ request' \in [Threads -> ChannelTokens \X ObjectTokens]
        /\ channel_ptr' \in [Threads -> ChannelTokens \cup {None}]
        /\ handler' \in [Threads -> Nat] /\ expected' \in [Threads -> Nat]
        /\ returned' \in [Threads -> {"none", "error", "enforced"}]
    BY <2>1, <2>2, DataTyping
  <2>6. TypeOK'
    BY <2>1, <2>3, <2>4, <2>5 DEF TypeOK, IInv, StageInv, Types, DataInv, DataTypes, Statuses
  <2> QED
    BY <2>2, <2>3, <2>6 DEF Typing
<1>2. Init => Finding /\ Typing
  BY InitLinking, InitTyping
<1>3. Typing => TypeOK
  BY DEF Typing
<1> QED
  BY <1>1, <1>2, <1>3, Invariance, PTL DEF Spec

=============================================================================
